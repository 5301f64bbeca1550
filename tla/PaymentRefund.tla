--------------------------- MODULE PaymentRefund ---------------------------
(***************************************************************************)
(* Refunds of one order: backend/services/payment_service.py and           *)
(* payment_event_service.py.                                               *)
(*                                                                         *)
(* A refund is staged as an attempt with a hold on the purchased credits   *)
(* and committed before the provider is asked, without any lock.  What     *)
(* became of it is learnt from the answer, from the provider's callbacks   *)
(* and from an operator, in any order; refunds made elsewhere arrive as    *)
(* callbacks of their own.  Every transaction locks the order before it    *)
(* reads what it decides on, so each is one step: it is assumed that these *)
(* reads are fresh, also those of attempts and reversals without a lock of *)
(* their own (payment_service.py:1445, 1466), as where reads see what is   *)
(* committed.  The wallet is what BillingLedger promises of it: a hold may *)
(* be refused, a release and a revocation are not.                         *)
(*                                                                         *)
(* The order has an external provider that answers truthfully, its own     *)
(* currency at the gateway, credits only, and proportional partial         *)
(* refunds; a callback reports one refund.                                 *)
(***************************************************************************)
EXTENDS Integers, FiniteSets, Functions

CONSTANTS
  Attempts,   \* refund keys, each of one PaymentRefundAttempt
  Requested,  \* the keys "refund-request:n" of users' requests
  Refunds,    \* identities the provider gives its refunds
  Announced,  \* the refunds it also reports while they are pending
  Price,      \* order.amount_cents
  Credits,    \* units of the purchase
  None        \* no identity, no attempt

ASSUME RefundAssumption ==
  /\ Requested \subseteq Attempts /\ Announced \subseteq Refunds
  /\ Price \in Nat \ {0} /\ Credits \in Nat
  /\ None \notin Attempts \cup Refunds

ASSUME RefundsAreFinite == IsFiniteSet(Refunds)

VARIABLES
  attempt,     \* the PaymentRefundAttempt of a key
  holding,     \* the attempts with an active hold on the credits
  request,     \* status of the RefundRequest of a key
  handler,     \* what process_refund waits for after its first commit
  onWire,      \* the attempts whose request may still reach the provider
  wire,        \* the provider's refunds
  cash,        \* order.refunded_amount_cents
  reversed,    \* units of the purchase that were reversed
  references,  \* PaymentRefundReference: refunds of processed receipts
  waiting,     \* receipt of a refund as pending
  final        \* the refunds with a processed receipt of their outcome

billing == <<holding, cash, reversed>>
provider == <<onWire, wire>>
inbox == <<references, waiting, final>>
refundVars == <<attempt, request, handler, billing, provider, inbox>>

OpenStatuses == {"pending", "unknown", "upstream_succeeded"}
Statuses == OpenStatuses \cup {"none", "succeeded", "failed"}
AttemptRows == [status : Statuses, amount : 0..Price, units : Int, id : Refunds \cup {None}]
WireRefunds == [state : {"none", "pending", "done", "refused"}, amount : 0..Price,
                by : Attempts \cup {None}]

RefundTypeOK ==
  /\ attempt \in [Attempts -> AttemptRows]
  /\ holding \subseteq Attempts
  /\ request \in [Attempts -> {"none", "pending", "approved", "failed", "rejected"}]
  /\ handler \in [Attempts -> {"none", "waiting", "confirmed"}]
  /\ onWire \subseteq Attempts
  /\ wire \in [Refunds -> WireRefunds]
  /\ cash \in Nat /\ reversed \in Int
  /\ references \subseteq Refunds
  /\ waiting \in [Refunds -> {"none", "due", "replaying", "stored", "skipped", "processed"}]
  /\ final \subseteq Refunds

RefundInit ==
  /\ attempt = [a \in Attempts |-> [status |-> "none", amount |-> 0, units |-> 0, id |-> None]]
  /\ holding = {}
  /\ request = [a \in Attempts |-> "none"]
  /\ handler = [a \in Attempts |-> "none"]
  /\ onWire = {}
  /\ wire = [r \in Refunds |-> [state |-> "none", amount |-> 0, by |-> None]]
  /\ cash = 0 /\ reversed = 0
  /\ references = {}
  /\ waiting = [r \in Refunds |-> "none"]
  /\ final = {}

-----------------------------------------------------------------------------
Status(a) == attempt[a].status
Active == {a \in Attempts : Status(a) \in OpenStatuses}

\* proportional_units: the units for c cents in total, rounded down.
Share(c) == (Credits * c) \div Price
\* Mutated form of Owed: what was reversed before is not subtracted.
OwedInTotal(m) == Share(cash + m)
Owed(m) == Share(cash + m) - reversed
Reversible == Credits - reversed

\* _reconcile_refund_request: the request shows what became of its attempt.
Shown(status) ==
  CASE status = "succeeded" -> "approved"
    [] status = "failed" -> "failed"
    [] OTHER -> "pending"
Tell(a, status) ==
  request' = IF a \in Requested THEN [request EXCEPT ![a] = Shown(status)] ELSE request

\* _finalize_refund, of a confirmed attempt whose hold still covers it.
Covered(a) == attempt[a].units = 0 \/ (a \in holding /\ attempt[a].units <= Reversible)
Finalize(a, r) ==
  /\ Covered(a) /\ r # None
  /\ attempt' = [attempt EXCEPT ![a].status = "succeeded", ![a].id = r]
  /\ holding' = holding \ {a}
  /\ cash' = cash + attempt[a].amount
  /\ reversed' = reversed + attempt[a].units
  /\ Tell(a, "succeeded")

\* release_purchase_refund needs the hold it releases.
Releasable(a) == attempt[a].units = 0 \/ a \in holding
Fail(a) ==
  /\ Releasable(a)
  /\ attempt' = [attempt EXCEPT ![a].status = "failed"]
  /\ holding' = holding \ {a}
  /\ Tell(a, "failed")

-----------------------------------------------------------------------------
\* submit_refund_request, for all that remains; one pending request at a time.
Submit(a) ==
  /\ a \in Requested /\ request[a] = "none"
  /\ cash < Price
  /\ \A b \in Requested : request[b] # "pending"
  /\ request' = [request EXCEPT ![a] = "pending"]
  /\ UNCHANGED <<attempt, handler, billing, provider, inbox>>

Decidable(a) == a \in Requested /\ request[a] \in {"pending", "failed"}

\* Mutated form of MayReject: an attempt in progress is not looked for.
MayRejectUnseen(a) == Decidable(a)
MayReject(a) == Decidable(a) /\ Active = {}

\* reject_refund_request
Reject(a) ==
  /\ MayReject(a)
  /\ request' = [request EXCEPT ![a] = "rejected"]
  /\ UNCHANGED <<attempt, handler, billing, provider, inbox>>

\* process_refund up to its first commit.
MayStage(a, m) ==
  /\ Status(a) = "none" /\ Active = {}
  /\ m > 0 /\ cash + m <= Price
  /\ Owed(m) >= 0
StageAttempt(a, m) ==
  attempt' = [attempt EXCEPT ![a] = [status |-> "pending", amount |-> m,
                                     units |-> Owed(m), id |-> None]]
Send(a, m) ==
  /\ MayStage(a, m)
  /\ Owed(m) <= Reversible
  /\ StageAttempt(a, m)
  /\ holding' = IF Owed(m) > 0 THEN holding \cup {a} ELSE holding
  /\ handler' = [handler EXCEPT ![a] = "waiting"]
  /\ onWire' = onWire \cup {a}
  /\ Tell(a, "pending")
  /\ UNCHANGED <<cash, reversed, wire, inbox>>

\* An administrator refunds under a key of his own; a refused hold, like every
\* error before the commit, rolls the attempt back.
RefundDirectly(a, m) == a \notin Requested /\ Send(a, m)

\* approve_refund_request refunds all that remains.
Approve(a) == Decidable(a) /\ Send(a, Price - cash)

\* The hold is refused, its credits being spent or reserved: the approval
\* records the error and commits, and with it the attempt staged before.
ApproveUnheld(a) ==
  /\ Decidable(a)
  /\ MayStage(a, Price - cash)
  /\ Owed(Price - cash) > 0
  /\ StageAttempt(a, Price - cash)
  /\ Tell(a, "pending")
  /\ UNCHANGED <<handler, billing, provider, inbox>>

\* Nothing remains, another attempt is unresolved, or the gateway is not
\* configured: the approval fails before anything is staged.
ApproveRefused(a) ==
  /\ Decidable(a) /\ Status(a) = "none"
  /\ request' = [request EXCEPT ![a] = IF cash < Price /\ Active # {} THEN "pending" ELSE "failed"]
  /\ UNCHANGED <<attempt, handler, billing, provider, inbox>>

\* The key has an attempt: a confirmed one is finished, another is never sent
\* again, and of a refunded order nothing is asked.
ResumeRefund(a) ==
  /\ Status(a) = "upstream_succeeded" /\ cash < Price
  /\ a \in Requested => Decidable(a)
  /\ Finalize(a, attempt[a].id)
  /\ UNCHANGED <<handler, provider, inbox>>

ApproveAgain(a) ==
  /\ Decidable(a) /\ Status(a) # "none"
  /\ IF cash = Price
       THEN request' = [request EXCEPT ![a] = "approved"]
       ELSE Tell(a, Status(a))
  /\ UNCHANGED <<attempt, handler, billing, provider, inbox>>

-----------------------------------------------------------------------------
\* The provider, which never pays back more than it was paid.
Returned ==
  SumFunctionOnSet([r \in Refunds |-> IF wire[r].state = "refused" THEN 0 ELSE wire[r].amount], Refunds)

Begin(r, m, a) ==
  /\ wire[r].state = "none"
  /\ Returned + m <= Price
  /\ wire' = [wire EXCEPT ![r] = [state |-> "pending", amount |-> m, by |-> a]]
  /\ UNCHANGED <<attempt, request, handler, billing, inbox>>

Execute(a, r) ==
  /\ a \in onWire
  /\ onWire' = onWire \ {a}
  /\ Begin(r, attempt[a].amount, a)

\* The request is declined, or was never sent.
Decline(a) ==
  /\ a \in onWire
  /\ onWire' = onWire \ {a}
  /\ UNCHANGED <<attempt, request, handler, billing, wire, inbox>>

\* Somebody refunds at the provider itself.
RefundElsewhere(r, m) == m > 0 /\ Begin(r, m, None) /\ UNCHANGED onWire

Decide(r) ==
  /\ wire[r].state = "pending"
  /\ \E state \in {"done", "refused"} : wire' = [wire EXCEPT ![r].state = state]
  /\ UNCHANGED <<attempt, request, handler, billing, onWire, inbox>>

-----------------------------------------------------------------------------
\* The call raises, is cancelled, or its process dies: the attempt stays as it
\* is.  An approval that lives on shows the request its status.
HandlerLost(a) ==
  /\ handler[a] # "none"
  /\ handler' = [handler EXCEPT ![a] = "none"]
  /\ Tell(a, Status(a)) \/ UNCHANGED request
  /\ UNCHANGED <<attempt, billing, provider, inbox>>

\* Mutated form of Superseded: the attempt is not read again after the call.
SupersededNever(a) == FALSE
\* A callback or an operator resolved the attempt during the call.
Superseded(a) == Status(a) \notin {"pending", "unknown"}

Answered(a) == handler[a] = "waiting" /\ a \notin onWire

\* The answer confirms refund r for the amount of the attempt.
AnswerConfirmed(a, r) ==
  /\ Answered(a) /\ ~Superseded(a)
  /\ wire[r].state = "done" /\ wire[r].by = a
  /\ attempt' = [attempt EXCEPT ![a].status = "upstream_succeeded", ![a].id = r]
  /\ handler' = [handler EXCEPT ![a] = "confirmed"]
  /\ UNCHANGED <<request, billing, provider, inbox>>

\* The answer confirms nothing, or another amount; it may name the refund.
AnswerUnknown(a) ==
  /\ Answered(a) /\ ~Superseded(a)
  /\ \E r \in {None} \cup {s \in Refunds : wire[s].by = a} :
       attempt' = [attempt EXCEPT ![a].status = "unknown", ![a].id = r]
  /\ handler' = [handler EXCEPT ![a] = "none"]
  /\ Tell(a, "unknown")
  /\ UNCHANGED <<billing, provider, inbox>>

\* The answer comes after the outcome: it is dropped, and what was confirmed
\* is finished.
AnswerLate(a) ==
  /\ handler[a] = "confirmed" \/ (Answered(a) /\ Superseded(a))
  /\ handler' = [handler EXCEPT ![a] = "none"]
  /\ IF Status(a) = "upstream_succeeded" /\ Covered(a)
       THEN Finalize(a, attempt[a].id)
       ELSE Tell(a, Status(a)) /\ UNCHANGED <<attempt, billing>>
  /\ UNCHANGED <<provider, inbox>>

-----------------------------------------------------------------------------
\* reconcile_refund: an operator tells what he found at the provider.
ReconcileRefunded(a, r) ==
  /\ Status(a) \in OpenStatuses
  /\ wire[r].state = "done" /\ wire[r].by = a
  /\ r \notin references
  /\ \A b \in Attempts \ {a} : attempt[b].id # r
  /\ Finalize(a, r)
  /\ UNCHANGED <<handler, provider, inbox>>

\* True when it is said; the request may still reach the provider.
ReconcileNotRefunded(a) ==
  /\ Status(a) \in {"pending", "unknown"}
  /\ \A r \in Refunds : wire[r].by = a => wire[r].state = "refused"
  /\ Fail(a)
  /\ UNCHANGED <<handler, cash, reversed, provider, inbox>>

-----------------------------------------------------------------------------
Named(r) == {a \in Attempts : attempt[a].id = r /\ Status(a) # "failed"}
\* Mutated form of Owner: an attempt that does not name the refund yet is
\* not considered.
OwnerByName(r) == Named(r)
\* Mutated form of Owner: the amount is not compared.
OwnerOfAny(r) ==
  IF Named(r) # {} THEN Named(r) ELSE {a \in Active : attempt[a].id = None}
\* The attempt a confirmed refund belongs to: the one that names it unless it
\* failed, else the active one that names none and has its amount.
Owner(r) ==
  IF Named(r) # {} THEN Named(r)
  ELSE {a \in Active : attempt[a].id = None /\ attempt[a].amount = wire[r].amount}

Stored == {"due", "stored", "skipped"}

\* The receipt of an outcome closes the receipt of the refund as pending,
\* unless a replay has that one locked.
Close(r) ==
  /\ final' = final \cup {r}
  /\ waiting' = [waiting EXCEPT ![r] = IF @ \in Stored THEN "processed" ELSE @]

\* What the receipt of a refund passes before it is counted: for the attempt it
\* belongs to, and for a refund of nobody's.
MayCount(r, a) ==
  /\ a \in Owner(r) /\ attempt[a].amount = wire[r].amount
  /\ Status(a) # "failed"
  /\ Status(a) = "succeeded" \/ Covered(a)
MayTake(r) ==
  /\ Owner(r) = {}
  /\ cash + wire[r].amount <= Price
  /\ Owed(wire[r].amount) \in 0..Reversible

\* _refund: a receipt, or its replay, of a refund that succeeded.
ReceiveOwned(r, a) ==
  /\ wire[r].state = "done" /\ r \notin final
  /\ MayCount(r, a)
  /\ IF Status(a) = "succeeded"
       THEN Tell(a, "succeeded") /\ UNCHANGED <<attempt, billing>>
       ELSE Finalize(a, r)
  /\ references' = references \cup {r}
  /\ Close(r)
  /\ UNCHANGED <<handler, provider>>

\* A refund of nobody's is taken from the purchase, as debt if need be.
ReceiveForeign(r) ==
  /\ wire[r].state = "done" /\ r \notin final
  /\ MayTake(r)
  /\ cash' = cash + wire[r].amount
  /\ reversed' = reversed + Owed(wire[r].amount)
  /\ references' = references \cup {r}
  /\ Close(r)
  /\ UNCHANGED <<attempt, holding, request, handler, provider>>

\* A refund that was denied releases the attempt that names it; every further
\* receipt of the denial shows the request again.
ReceiveDenied(r) ==
  /\ wire[r].state = "refused"
  /\ \/ /\ \A a \in Attempts : attempt[a].id # r
        /\ UNCHANGED <<attempt, holding, request>>
     \/ \E a \in Attempts :
          /\ attempt[a].id = r
          /\ \/ Status(a) \in OpenStatuses /\ Fail(a)
             \/ Status(a) = "failed" /\ Tell(a, "failed") /\ UNCHANGED <<attempt, holding>>
  /\ Close(r)
  /\ UNCHANGED <<handler, cash, reversed, provider, references>>

\* The receipt of a refund as pending is stored and then replayed: under its
\* own lock it waits for the order, then looks for the outcome.  It skips one
\* that is being delivered again and locked for that.
ReceivePending(r) ==
  /\ r \in Announced
  /\ wire[r].state # "none" /\ waiting[r] = "none"
  /\ waiting' = [waiting EXCEPT ![r] = "due"]
  /\ UNCHANGED <<attempt, request, handler, billing, provider, references, final>>

ReplayPending(r) ==
  /\ waiting[r] \in Stored
  /\ waiting' = [waiting EXCEPT ![r] = "replaying"]
  /\ UNCHANGED <<attempt, request, handler, billing, provider, references, final>>

\* Mutated form of Resolves: the outcome was looked for before the order's lock.
ResolvesEarly(r) == FALSE
Resolves(r) == r \in final

ResolvePending(r) ==
  /\ waiting[r] = "replaying"
  /\ \/ waiting' = [waiting EXCEPT ![r] = IF Resolves(r) THEN "processed" ELSE "stored"]
     \/ r \in final /\ waiting' = [waiting EXCEPT ![r] = "skipped"]
  /\ UNCHANGED <<attempt, request, handler, billing, provider, references, final>>

ReplayDies(r) ==
  /\ waiting[r] = "replaying"
  /\ waiting' = [waiting EXCEPT ![r] = "due"]
  /\ UNCHANGED <<attempt, request, handler, billing, provider, references, final>>

-----------------------------------------------------------------------------
Decision(a) ==
  \/ Submit(a) \/ Reject(a)
  \/ Approve(a) \/ ApproveUnheld(a) \/ ApproveRefused(a) \/ ApproveAgain(a) \/ ResumeRefund(a)
  \/ \E m \in 1..Price : RefundDirectly(a, m)
Call(a) ==
  \/ HandlerLost(a) \/ AnswerUnknown(a) \/ AnswerLate(a)
  \/ \E r \in Refunds : AnswerConfirmed(a, r)
Operator(a) ==
  \/ ReconcileNotRefunded(a)
  \/ \E r \in Refunds : ReconcileRefunded(a, r)
Provider ==
  \/ \E a \in Attempts : Decline(a) \/ \E r \in Refunds : Execute(a, r)
  \/ \E r \in Refunds : Decide(r) \/ \E m \in 1..Price : RefundElsewhere(r, m)
Receive(r) ==
  \/ ReceiveForeign(r) \/ ReceiveDenied(r)
  \/ \E a \in Attempts : ReceiveOwned(r, a)
Pending(r) ==
  ReceivePending(r) \/ ReplayPending(r) \/ ResolvePending(r) \/ ReplayDies(r)

RefundNext ==
  \/ \E a \in Attempts : Decision(a) \/ Call(a) \/ Operator(a)
  \/ Provider
  \/ \E r \in Refunds : Receive(r) \/ Pending(r)

RefundSpec == RefundInit /\ [][RefundNext]_refundVars

-----------------------------------------------------------------------------
Counted == references \cup {attempt[a].id : a \in {b \in Attempts : Status(b) = "succeeded"}}
Unheld == {a \in Active : attempt[a].units # 0 /\ a \notin holding}

\* Whether the answer, a callback or an operator comes first, and whichever
\* attempt a callback is bound to, the order counts a refund the provider made
\* once, with its amount, and its money moves for nothing else.
CountedOnce ==
  [][\/ cash' = cash /\ Counted' = Counted
     \/ \E r \in Refunds \ Counted :
          /\ wire[r].state = "done"
          /\ Counted' = Counted \cup {r} /\ cash' = cash + wire[r].amount]_refundVars

\* The order never returned more than its price, and where cents are whole
\* units the purchase has lost exactly the share of the money that was paid
\* back, through holds, releases, revocations and late outcomes.
BooksAgree ==
  /\ cash = SumFunctionOnSet([r \in Counted |-> wire[r].amount], Counted)
  /\ cash <= Price
  /\ Credits % Price = 0 => reversed = Share(cash)

\* The outcome of an attempt is final: a late answer, receipt or operator
\* neither revives a failed attempt nor undoes or renames a successful one.
OutcomeIsFinal ==
  [][\A a \in Attempts : Status(a) \in {"succeeded", "failed"} => attempt'[a] = attempt[a]]_refundVars

\* A refund is settled once: it is counted once, by its amount, and the attempt
\* it ends keeps its outcome, whatever arrives later.
RefundsSettleOnce == CountedOnce /\ OutcomeIsFinal

\* What a request shows: its refund is never shown otherwise than as approved
\* once it was made, nor as approved unless it was or nothing is left to refund.
RequestsTellTruth ==
  \A a \in Requested :
    /\ Status(a) = "succeeded" => request[a] = "approved"
    /\ request[a] = "approved" => Status(a) = "succeeded" \/ cash >= Price
    /\ request[a] = "rejected" => Status(a) \in {"none", "failed"}

\* No replay leaves a receipt of a pending refund behind whose outcome has been
\* processed, although each of the two skips what the other has locked: only
\* one that met a redelivery of the outcome does.
PendingIsClosed == \A r \in Refunds : r \in final => waiting[r] # "stored"

\* No refund is out of reach.  The webhook answers once a receipt is stored,
\* also one it could not process, so that nobody but an administrator replays
\* it: whatever has happened to the order meanwhile, a refund the provider made
\* is counted, or its receipt is still open and passes every check when it is
\* replayed, unless it belongs to an attempt that was left without its hold.
RefundsStayCountable ==
  Credits % Price = 0 =>
    \A r \in Refunds : wire[r].state = "done" =>
      \/ r \in Counted
      \/ r \notin final /\ (MayTake(r) \/ \E a \in Attempts : MayCount(r, a))
      \/ Owner(r) \cap Unheld # {}

\* The docstring of process_refund: the intent and its hold are committed
\* together, so an unresolved attempt has its hold.
IntentIsHeld == Unheld = {}
=============================================================================

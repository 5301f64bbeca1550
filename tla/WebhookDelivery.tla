-------------------------- MODULE WebhookDelivery --------------------------
(***************************************************************************)
(* The life of one verified pull request delivery:                         *)
(* webhook_execution_service.py, webhook_review_dispatch.py and            *)
(* webhook_execution_reconciliation.py.                                    *)
(*                                                                         *)
(* Every delivery and redelivery of the event, and every startup pass over *)
(* the queued receipts, is an attempt with a token of its own.  The        *)
(* receipt row names the attempt that owns it.  A handler opens its window *)
(* of outside effects, then hands the review to a worker task (a carrier   *)
(* in the receipt) or to the incremental queue; the worker, redeliveries,  *)
(* the closing of the pull request, the recovery of bills and an operator  *)
(* all race for the same row and the same operation.  Every step is one    *)
(* transaction or the code between two of them.                            *)
(***************************************************************************)
EXTENDS FiniteSets

CONSTANTS
  Deliveries,  \* arrivals of the event over HTTP
  Passes,      \* starts of the process after the first: one startup pass each
  Nobody       \* the token of an operator or a cancellation

ASSUME TokensAssumption ==
  /\ Deliveries \cap Passes = {}
  /\ Nobody \notin Deliveries \cup Passes

Attempts == Deliveries \cup Passes
Increment == "increment"   \* stands for the worker that runs the increment

VARIABLES
  status, owner, carrier, response,  \* the receipt row
  op,       \* the business operation
  called,   \* it has an AI call
  owned,    \* a live execution ownership covers it
  row,      \* its row in the incremental queue
  pc,       \* what each attempt is doing
  task,     \* the worker task each attempt submitted
  closed,   \* the process refuses background work: a database reset began
  acted,    \* the attempts that opened their window of effects
  started   \* the workers that began the review

receipt == <<status, owner, carrier, response>>
business == <<op, called, owned, row>>
history == <<acted, started>>
vars == <<receipt, business, pc, task, closed, history>>

Ended == op = "ended"
\* What proves that the work of an acknowledged delivery is in good hands.
InQueue == op # "absent" /\ row # "none"
Proof == Ended \/ owned \/ InQueue

Init ==
  /\ status = "absent" /\ owner = Nobody /\ carrier = "none" /\ response = "none"
  /\ op = "absent" /\ called = FALSE /\ owned = FALSE /\ row = "none"
  /\ pc = [k \in Attempts |-> "unused"]
  /\ task = [k \in Attempts |-> "none"]
  /\ closed = FALSE
  /\ acted = {} /\ started = {}

Go(k, stage) == pc' = [pc EXCEPT ![k] = stage]
Turn(k, stage) == task' = [task EXCEPT ![k] = stage]
-----------------------------------------------------------------------------
(* _claim *)

\* A first delivery inserts the receipt; the loser of a race of inserts is
\* answered from the winner's row.
ClaimNew(k) ==
  /\ pc[k] = "unused" /\ status = "absent"
  /\ status' = "processing" /\ owner' = k
  /\ Go(k, "handling")
  /\ UNCHANGED <<carrier, response, business, task, closed, history>>

\* A redelivery runs the handler again only on a retryable receipt.
ClaimRetry(k) ==
  /\ pc[k] = "unused" /\ status = "retryable" /\ ~Proof
  /\ status' = "processing" /\ owner' = k /\ response' = "none"
  /\ Go(k, "handling")
  /\ UNCHANGED <<carrier, business, task, closed, history>>

\* Mutated form: only receipts that are not yet acknowledged are resumed.
MayDispatchUnfinished ==
  op = "open" /\ carrier = "queued" /\ ~called /\ ~owned /\ status # "accepted"

\* claim_queued_dispatch: a carrier no worker has taken, an open operation
\* without a call or a live owner.
MayDispatch == op = "open" /\ carrier = "queued" /\ ~called /\ ~owned
TakeCarrier(k) ==
  /\ MayDispatch
  /\ owner' = k /\ status' = "pending"
  /\ UNCHANGED <<carrier, response, business, task, closed, history>>

\* A redelivery takes a queued carrier over, a startup pass resumes it.
ClaimQueued(k) ==
  /\ k \in Deliveries /\ pc[k] = "unused" /\ TakeCarrier(k) /\ Go(k, "restoring")
ResumeQueued(k) ==
  /\ pc[k] = "scanning" /\ TakeCarrier(k) /\ Go(k, "resuming")
PassEnds(k) ==
  /\ pc[k] = "scanning" /\ ~MayDispatch
  /\ Go(k, "gone")
  /\ UNCHANGED <<receipt, business, task, closed, history>>

\* Other redeliveries only correct the status before they are answered.
\* Accepted without any trace of the work left: back to reconciliation.
Downgrade ==
  /\ status = "accepted" /\ response = "accepted" /\ carrier \in {"none", "started"}
  /\ ~Proof
  /\ status' = "pending"
  /\ UNCHANGED <<owner, carrier, response, business, pc, task, closed, history>>

\* An unfinished receipt of an operation that has ended, or is in good hands.
Converge ==
  /\ status \in {"processing", "pending", "retryable"}
  /\ ~(carrier = "queued" /\ op = "open")
  /\ Proof
  /\ status' = "accepted"
  /\ IF Ended THEN /\ response' = "terminal"
                   /\ carrier' = IF carrier = "none" THEN "none" ELSE "terminal"
              ELSE UNCHANGED <<response, carrier>>
  /\ UNCHANGED <<owner, business, pc, task, closed, history>>
-----------------------------------------------------------------------------
(* The handler, wrapped by verified_delivery *)

\* The event needs no review.
Reject(k) ==
  /\ pc[k] = "handling"
  /\ Go(k, "gone")
  /\ IF owner = k THEN status' = "accepted" /\ response' = "other"
                  ELSE UNCHANGED <<status, response>>
  /\ UNCHANGED <<owner, carrier, business, task, closed, history>>

\* check_and_consume_quota registers the operation, or finds it registered.
Registered == op' = IF op = "absent" THEN "open" ELSE op
Admit(k) ==
  /\ pc[k] = "handling"
  /\ Registered
  /\ Go(k, "admitted")
  /\ UNCHANGED <<receipt, called, owned, row, task, closed, history>>

\* mark_delivery_side_effects: a compare-and-set of token and status.
MayAct(k) == owner = k /\ status = "processing"
BeginEffects(k) ==
  /\ pc[k] = "admitted"
  /\ IF MayAct(k)
       THEN /\ status' = "pending" /\ acted' = acted \cup {k} /\ Go(k, "effects")
       ELSE /\ UNCHANGED <<status, acted>> /\ Go(k, "failing")
  /\ UNCHANGED <<owner, carrier, response, business, task, closed, started>>

\* A push during a review: the increment is queued, whoever owns the receipt.
Enqueue(k) ==
  /\ pc[k] = "effects" /\ row = "none"
  /\ row' = "pending"
  /\ Go(k, "handed")
  /\ UNCHANGED <<receipt, op, called, owned, task, closed, history>>

\* prepare_delivery_dispatch: the carrier and the admission in one commit.
MayPrepare(k) == owner = k /\ status \in {"processing", "pending"}
Prepare(k) ==
  /\ pc[k] = "effects"
  /\ IF MayPrepare(k)
       THEN /\ Registered
            /\ carrier' = "queued" /\ response' = "accepted" /\ status' = "pending"
            /\ Go(k, "prepared")
       ELSE UNCHANGED <<op, carrier, response, status>> /\ Go(k, "failing")
  /\ UNCHANGED <<owner, called, owned, row, task, closed, history>>

\* compensate_unstarted_review: an outcome for an execution that never began.
Unstarted == ~called /\ ~owned
Compensated == op' = IF op = "open" /\ Unstarted THEN "ended" ELSE op

\* submit_review_task creates the worker task, or the admission is closed.
Submit(k) ==
  /\ pc[k] = "prepared"
  /\ IF closed THEN Compensated /\ Go(k, "failing") /\ UNCHANGED task
               ELSE Turn(k, "queued") /\ Go(k, "handed") /\ UNCHANGED op
  /\ UNCHANGED <<receipt, called, owned, row, closed, history>>

\* An exception in the handler, compensated once its window is open.
HandlerFails(k) ==
  /\ pc[k] \in {"handling", "admitted", "effects"}
  /\ \/ UNCHANGED op
     \/ (pc[k] = "effects" /\ Compensated)
  /\ Go(k, "failing")
  /\ UNCHANGED <<receipt, called, owned, row, task, closed, history>>

\* Mutated form: an open window of effects is forgotten.
UncertainByCarrier(k) == carrier # "none"
\* _finish of a handler that failed: what may have happened is not repeated.
Uncertain(k) == k \in acted \/ carrier # "none"
FinishFailed(k) ==
  /\ pc[k] = "failing"
  /\ status' = IF owner # k THEN status ELSE IF Uncertain(k) THEN "pending" ELSE "retryable"
  /\ Go(k, "gone")
  /\ UNCHANGED <<owner, carrier, response, business, task, closed, history>>

\* Mutated form: any handler may acknowledge.
AcknowledgesAnyway(k) == TRUE
\* _finish of an accepted event: acknowledged when it is proven, else pending.
Acknowledges(k) == owner = k
FinishAccepted(k) ==
  /\ pc[k] \in {"handed", "acknowledging"}
  /\ IF Acknowledges(k)
       THEN /\ status' = IF carrier \in {"queued", "terminal"} \/ Proof
                           THEN "accepted" ELSE "pending"
            /\ response' = IF pc[k] = "handed" THEN "accepted" ELSE response
       ELSE UNCHANGED <<status, response>>
  /\ Go(k, "gone")
  /\ UNCHANGED <<owner, carrier, business, task, closed, history>>

\* dispatch_restored of a redelivery and of a startup pass.
Restore(k) ==
  /\ pc[k] \in {"restoring", "resuming"}
  /\ IF closed
       THEN /\ status' = IF owner = k /\ (pc[k] = "restoring" \/ carrier = "queued")
                           THEN "pending" ELSE status
            /\ Go(k, "gone") /\ UNCHANGED task
       ELSE /\ Turn(k, "queued")
            /\ Go(k, IF pc[k] = "restoring" THEN "acknowledging" ELSE "gone")
            /\ UNCHANGED status
  /\ UNCHANGED <<owner, carrier, response, business, closed, history>>
-----------------------------------------------------------------------------
(* delivery_worker around the review *)

\* Mutated form: an operation that has ended is not looked at.
MayStartEnded(k) == carrier = "queued" /\ owner = k
\* The worker may begin: the carrier is queued, its token is the receipt's and
\* the operation is open.
MayStart(k) == carrier = "queued" /\ owner = k /\ op = "open"
StartWork(k) ==
  /\ task[k] = "queued"
  /\ IF MayStart(k) /\ ~closed
       THEN /\ status' = "processing" /\ carrier' = "started"
            /\ started' = started \cup {k}
            /\ Turn(k, "running")
       ELSE UNCHANGED <<status, carrier, started>> /\ Turn(k, "none")
  /\ UNCHANGED <<owner, response, business, pc, closed, acted>>

\* The body gets its slot, calls the AI and leaves, or leaves without a slot.
Acquire(k) ==
  /\ task[k] = "running"
  /\ owned' = TRUE
  /\ Turn(k, "working")
  /\ UNCHANGED <<receipt, op, called, row, pc, closed, history>>

CallAI(k) ==
  /\ task[k] = "working"
  /\ called' = TRUE
  /\ UNCHANGED <<receipt, op, owned, row, pc, task, closed, history>>

Leave(k) ==
  /\ task[k] \in {"running", "working"}
  /\ owned' = IF task[k] = "working" THEN FALSE ELSE owned
  /\ Turn(k, "leaving")
  /\ UNCHANGED <<receipt, op, called, row, pc, closed, history>>

\* billable_payload ends the operation, which may fail.
EndOperation(k) ==
  /\ task[k] = "leaving"
  /\ op' \in {op, "ended"}
  /\ Turn(k, "recording")
  /\ UNCHANGED <<receipt, called, owned, row, pc, closed, history>>

RecordEnd(k) ==
  /\ task[k] = "recording"
  /\ IF owner = k /\ Ended
       THEN status' = "accepted" /\ carrier' = "terminal" /\ response' = "terminal"
       ELSE UNCHANGED <<status, carrier, response>>
  /\ Turn(k, "none")
  /\ UNCHANGED <<owner, business, pc, closed, history>>
-----------------------------------------------------------------------------
(* Everybody else *)

\* The increment is run for its own operation, after the review before it.
RowStarts ==
  /\ row = "pending" /\ op = "open"
  /\ row' = "running" /\ owned' = TRUE /\ called' \in {called, TRUE}
  /\ started' = started \cup {Increment}
  /\ UNCHANGED <<receipt, op, pc, task, closed, acted>>

\* It ends, or is found to have ended before it began.
RowEnds ==
  /\ row = "running" \/ (row = "pending" /\ Ended)
  /\ op' = "ended" /\ owned' = IF row = "running" THEN FALSE ELSE owned
  /\ row' = "none"
  /\ UNCHANGED <<receipt, called, pc, task, closed, history>>

\* cancel_queued_deliveries and cancel_pending_for_pr of a closed request.
CancelQueued ==
  /\ MayDispatch
  /\ op' = "ended"
  /\ owner' = Nobody /\ status' = "accepted" /\ response' = "cancelled" /\ carrier' = "terminal"
  /\ UNCHANGED <<called, owned, row, pc, task, closed, history>>

CancelRow ==
  /\ row # "none"
  /\ Compensated
  /\ row' = "none"
  /\ UNCHANGED <<receipt, called, owned, pc, task, closed, history>>

\* Without a live owner or a recoverable carrier.
Abandoned == op = "open" /\ ~owned /\ (~called => carrier # "queued" /\ row # "pending")
\* recover_operations, which an administrator runs when he sees fit.
Recover ==
  /\ Abandoned
  /\ op' = "ended"
  /\ UNCHANGED <<receipt, called, owned, row, pc, task, closed, history>>

\* Heartbeats stop: the worker died or its event loop is late.
OwnershipLapses ==
  /\ owned
  /\ owned' = FALSE
  /\ UNCHANGED <<receipt, op, called, row, pc, task, closed, history>>

CloseAdmission ==
  /\ ~closed
  /\ closed' = TRUE
  /\ UNCHANGED <<receipt, business, pc, task, history>>

\* The process dies and starts again, with a pass over the queued receipts.
Crash(p) ==
  /\ pc[p] = "unused" /\ p \in Passes
  /\ pc' = [k \in Attempts |-> IF k = p THEN "scanning"
                               ELSE IF pc[k] = "unused" THEN "unused" ELSE "gone"]
  /\ task' = [k \in Attempts |-> "none"]
  /\ closed' = FALSE
  /\ UNCHANGED <<receipt, business, history>>

\* reconcile_receipt: what is left to be resolved.
Resolvable(resolution) ==
  /\ status # "absent"
  /\ status = "accepted" =>
       carrier \in {"queued", "started"} /\ ~(resolution = "accepted" /\ response = "handoff")

Resolve(outcome, resolved) ==
  /\ owner' = Nobody /\ status' = "accepted"
  /\ response' = resolved
  /\ op' = outcome
  /\ UNCHANGED <<called, owned, row, pc, task, closed, history>>

ResolveTerminal ==
  /\ Resolvable("terminal") /\ Ended
  /\ carrier' = IF carrier = "none" THEN "none" ELSE "terminal"
  /\ Resolve(op, "terminal")

ResolveAccepted ==
  /\ Resolvable("accepted")
  /\ Resolve(op, "handoff")
  /\ UNCHANGED carrier

ResolveUnstarted ==
  /\ Resolvable("unstarted")
  /\ carrier # "started" /\ Unstarted /\ ~Ended
  /\ carrier' = IF carrier = "none" THEN "none" ELSE "terminal"
  /\ Resolve(IF op = "open" THEN "ended" ELSE op, "cancelled")
-----------------------------------------------------------------------------
Handle(k) ==
  \/ Reject(k) \/ Admit(k) \/ BeginEffects(k) \/ Enqueue(k) \/ Prepare(k) \/ Submit(k)
  \/ FinishFailed(k) \/ FinishAccepted(k) \/ Restore(k)
  \/ ResumeQueued(k) \/ PassEnds(k)

Work(k) ==
  StartWork(k) \/ Acquire(k) \/ CallAI(k) \/ Leave(k) \/ EndOperation(k) \/ RecordEnd(k)

Next ==
  \/ \E k \in Deliveries : ClaimNew(k) \/ ClaimRetry(k) \/ ClaimQueued(k) \/ HandlerFails(k)
  \/ Downgrade \/ Converge
  \/ \E k \in Attempts : Handle(k) \/ Work(k)
  \/ RowStarts \/ RowEnds
  \/ CancelQueued \/ CancelRow \/ Recover \/ OwnershipLapses \/ CloseAdmission
  \/ \E p \in Passes : Crash(p)
  \/ ResolveTerminal \/ ResolveAccepted \/ ResolveUnstarted

Spec == Init /\ [][Next]_vars

\* A live process goes on with what it began, and a lost ownership runs out.
\* Deliveries, failures, decisions and the recovery of bills, which only an
\* administrator starts, are nobody's duty.
Fairness ==
  /\ \A k \in Attempts :
       /\ WF_vars(Handle(k))
       /\ WF_vars(StartWork(k) \/ Leave(k) \/ EndOperation(k) \/ RecordEnd(k))
  /\ WF_vars(RowStarts \/ RowEnds)
  /\ WF_vars(OwnershipLapses)

LiveSpec == Spec /\ Fairness
-----------------------------------------------------------------------------
Stages == {"unused", "scanning", "handling", "admitted", "effects", "prepared", "handed",
           "failing", "restoring", "resuming", "acknowledging", "gone"}

TypeOK ==
  /\ status \in {"absent", "processing", "pending", "retryable", "accepted"}
  /\ owner \in Attempts \cup {Nobody}
  /\ carrier \in {"none", "queued", "started", "terminal"}
  /\ response \in {"none", "accepted", "other", "terminal", "handoff", "cancelled"}
  /\ op \in {"absent", "open", "ended"}
  /\ called \in BOOLEAN /\ owned \in BOOLEAN /\ closed \in BOOLEAN
  /\ row \in {"none", "pending", "running"}
  /\ carrier # "none" \/ row # "none" => op # "absent"
  /\ pc \in [Attempts -> Stages]
  /\ task \in [Attempts -> {"none", "queued", "running", "working", "leaving", "recording"}]
  /\ acted \subseteq Deliveries
  /\ started \subseteq Attempts \cup {Increment}

Promise == INSTANCE DeliveryPromise
             WITH Handlers <- Deliveries, Workers <- Attempts \cup {Increment}, ended <- Ended

\* Through redeliveries, crashes, startup passes, take-overs, cancellations,
\* recovered bills and an operator's decisions, one delivery has one window of
\* outside effects and one execution, and none after its operation ended.
AtMostOnce == Promise!PSpec

\* A receipt that lets the next redelivery run the handler again belongs to a
\* delivery that has done nothing yet.
RetryIsSafe == status = "retryable" => acted = {} /\ started = {} /\ carrier = "none"

\* A cancelled delivery stays as it was resolved: no handler, worker, pass or
\* redelivery that comes late changes its receipt or begins its review.
CancelledIsFinal ==
  [][response = "cancelled" => UNCHANGED <<receipt, started>>]_vars

\* A carrier that was queued, and a delivery acknowledged to GitHub, is not
\* lost: unless an operator vouched for it or the process stays closed for
\* background work, its operation ends without help, or it stays for ever one
\* that the recovery of bills may end whenever an administrator runs it, as
\* after a crash in the middle of the review.
AcknowledgedIsSettled ==
  [](carrier = "queued" \/ (status = "accepted" /\ response = "accepted")
       => <>(op = "ended" \/ response = "handoff" \/ closed \/ []Abandoned))
=============================================================================

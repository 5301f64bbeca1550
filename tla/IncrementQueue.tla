--------------------------- MODULE IncrementQueue ---------------------------
(***************************************************************************)
(* Pushes to a pull request that is being reviewed:                        *)
(* pr_review_incremental_queue.py, pr_review_incremental_recovery.py and   *)
(* the draining of the queue in review_worker.py.                          *)
(*                                                                         *)
(* A push is admitted under an operation of its own.  Where a review is    *)
(* active it becomes a row of the queue, else it is reviewed in full.      *)
(* Every review that ends converges its own row and drains the queue: the  *)
(* first outstanding row is handed over, under a token that expires, to a  *)
(* worker task, which starts it and drains in its turn.  The request may   *)
(* be closed, expired bills recovered, hand-overs reset by an operator,    *)
(* and the process may die.  Every step is one transaction.                *)
(***************************************************************************)
EXTENDS Naturals, FiniteSets, Sequences

CONSTANTS
  Deliveries,  \* the deliveries of events of one pull request
  MaxReviews,  \* bound of the reviews in full
  MaxDispatch, \* bound of the hand-overs of one row
  MaxFaults    \* bound of the deaths, expired hand-overs and lost ownerships

ASSUME BoundsAssumption == MaxReviews \in Nat /\ MaxDispatch \in Nat /\ MaxFaults \in Nat
ASSUME NoneAssumption == "none" \notin Deliveries

\* The n-th hand-over of a row makes a task; number 0 is a review in full.
Tasks == Deliveries \X (0..MaxDispatch)

VARIABLES
  row,         \* row[d]: status of the row of d, or "none"
  order,       \* the rows as they were created
  token,       \* token[d]: the hand-over the row names, 0 without one
  dispatched,  \* dispatched[d]: how many hand-overs there were
  expired,     \* the rows whose dispatch_expires_at has passed
  op,          \* op[d]: outcome of the operation, "open" or "absent"
  called,      \* the operations with an AI call
  owned,       \* the operations a live execution ownership covers
  hook,        \* hook[d]: what the webhook handler of d does
  work,        \* work[t]: what each task does
  resumed,     \* the tasks an operator's resumption made
  pick,        \* pick[t]: the row a draining task has listed first
  review,      \* the tasks whose PRReview row is pending or reviewing
  faults,      \* the number of those
  runs         \* runs[d]: how often the review of d was begun

queue == <<row, order, token, dispatched, expired>>
bill == <<op, called, owned>>
process == <<hook, work, resumed, pick>>
vars == <<queue, bill, process, review, faults, runs>>

\* PENDING_QUEUE_STATES
Outstanding(d) == row[d] \in {"pending", "dispatching", "running"}
Ended == {d \in Deliveries : op[d] = "ended"}
OwnRow(t) == IF t[2] = 0 THEN {} ELSE {t[1]}

Init ==
  /\ row = [d \in Deliveries |-> "none"] /\ order = <<>>
  /\ token = [d \in Deliveries |-> 0] /\ dispatched = [d \in Deliveries |-> 0]
  /\ expired = {}
  /\ op = [d \in Deliveries |-> "absent"] /\ called = {} /\ owned = {}
  /\ hook = [d \in Deliveries |-> "unused"]
  /\ work = [t \in Tasks |-> "none"] /\ resumed = {}
  /\ pick = [t \in Tasks |-> "none"]
  /\ review = {} /\ faults = 0
  /\ runs = [d \in Deliveries |-> 0]

Step(t, from, to) == work[t] = from /\ work' = [work EXCEPT ![t] = to]
-----------------------------------------------------------------------------
(* The webhook handler *)

\* check_and_consume_quota admits the event.
Admit(d) ==
  /\ hook[d] = "unused"
  /\ hook' = [hook EXCEPT ![d] = "admitted"]
  /\ op' = [op EXCEPT ![d] = "open"]
  /\ UNCHANGED <<queue, called, owned, work, resumed, pick, review, faults, runs>>

\* A push finds a review in the database that is active, and young or alive.
FindActive(d) ==
  /\ hook[d] = "admitted"
  /\ review # {}
  /\ hook' = [hook EXCEPT ![d] = "found"]
  /\ UNCHANGED <<queue, bill, work, resumed, pick, review, faults, runs>>

MayInsert(d) == hook[d] = "found"
\* It is inserted in a later transaction.
Insert(d) ==
  /\ MayInsert(d)
  /\ hook' = [hook EXCEPT ![d] = "answered"]
  /\ row' = [row EXCEPT ![d] = "pending"]
  /\ order' = Append(order, d)
  /\ UNCHANGED <<token, dispatched, expired, bill, work, resumed, pick, review, faults, runs>>

\* Opened and reopened requests are reviewed in full, and so is a push that
\* found no review or one that is too old to live.
ReviewInFull(d) ==
  /\ hook[d] = "admitted"
  /\ Cardinality({e \in Deliveries : hook[e] = "answered" /\ row[e] = "none"}) < MaxReviews
  /\ hook' = [hook EXCEPT ![d] = "answered"]
  /\ Step(<<d, 0>>, "none", "submitted")
  /\ UNCHANGED <<queue, bill, resumed, pick, review, faults, runs>>
-----------------------------------------------------------------------------
(* The worker task, _run_review_task_with_timeout *)

\* start_dispatch: only the task the row names, in time, and of an open
\* operation.
MayStart(t) ==
  /\ op[t[1]] = "open"
  /\ row[t[1]] = "dispatching" /\ token[t[1]] = t[2] /\ t[1] \notin expired

Start(t) ==
  /\ IF t[2] = 0 THEN op[t[1]] = "open" ELSE MayStart(t)
  /\ Step(t, "submitted", "running")
  /\ row' = IF t[2] = 0 THEN row ELSE [row EXCEPT ![t[1]] = "running"]
  /\ runs' = [runs EXCEPT ![t[1]] = @ + 1]
  /\ UNCHANGED <<order, token, dispatched, expired, bill, hook, resumed, pick, review, faults>>

\* "deduplicated_incremental": the task ends without draining.  A refused
\* review in full drains all the same.
StartRefused(t) ==
  /\ IF t[2] = 0 THEN op[t[1]] # "open" /\ Step(t, "submitted", "ending")
                 ELSE ~MayStart(t) /\ Step(t, "submitted", "none")
  /\ UNCHANGED <<queue, bill, hook, resumed, pick, review, faults, runs>>

\* It has its slot and its PRReview row.
Review(t) ==
  /\ Step(t, "running", "reviewing")
  /\ review' = review \cup {t} /\ owned' = owned \cup {t[1]}
  /\ UNCHANGED <<queue, op, called, hook, resumed, pick, faults, runs>>

CallAI(t) ==
  /\ work[t] = "reviewing"
  /\ called' = called \cup {t[1]}
  /\ UNCHANGED <<queue, op, owned, process, review, faults, runs>>

\* mark_consumed, once the checkpoint of the increment is written.
Consume(t) ==
  /\ work[t] = "reviewing" /\ t[2] # 0 /\ Outstanding(t[1])
  /\ row' = [row EXCEPT ![t[1]] = "settled"]
  /\ UNCHANGED <<order, token, dispatched, expired, bill, process, review, faults, runs>>

\* The review is completed, failed or cancelled, and its slot released.
Leave(t) ==
  /\ Step(t, "reviewing", "closing")
  /\ review' = review \ {t} /\ owned' = owned \ {t[1]}
  /\ UNCHANGED <<queue, op, called, hook, resumed, pick, faults, runs>>

\* Nothing is left to review: mark_skipped_for_pr; or there is no slot.
LeaveEarly(t) ==
  /\ Step(t, "running", "closing")
  /\ \/ UNCHANGED row
     \/ Outstanding(t[1]) /\ row' = [row EXCEPT ![t[1]] = "settled"]
  /\ UNCHANGED <<order, token, dispatched, expired, bill, hook, resumed, pick, review, faults, runs>>

\* billable_payload ends the operation, which may fail.
EndOperation(t) ==
  /\ Step(t, "closing", "ending")
  /\ \/ UNCHANGED op
     \/ op[t[1]] = "open" /\ op' = [op EXCEPT ![t[1]] = "ended"]
  /\ UNCHANGED <<queue, called, owned, hook, resumed, pick, review, faults, runs>>

\* finalize_for_operation
Finalized(d) ==
  row' = IF d \in Ended /\ Outstanding(d) THEN [row EXCEPT ![d] = "settled"] ELSE row

Converge(t) ==
  /\ Step(t, "ending", "draining")
  /\ IF t[2] = 0 THEN UNCHANGED row ELSE Finalized(t[1])
  /\ UNCHANGED <<order, token, dispatched, expired, bill, hook, resumed, pick, review, faults, runs>>
-----------------------------------------------------------------------------
(* _drain_pending_incremental *)

\* The places of the rows a drain may take.  A resumed task inherits the
\* resumption, which names its own row alone.
Waiting(t) ==
  {i \in DOMAIN order :
     t \notin resumed /\ Outstanding(order[i]) /\ order[i] \notin OwnRow(t)}
\* Mutated form: the newest row is taken.
IsLast(t, i) == i \in Waiting(t) /\ \A j \in Waiting(t) : j <= i
IsFirst(t, i) == i \in Waiting(t) /\ \A j \in Waiting(t) : i <= j

List(t) ==
  /\ \/ Waiting(t) = {} /\ Step(t, "draining", "none") /\ UNCHANGED pick
     \/ \E i \in DOMAIN order :
          IsFirst(t, i) /\ Step(t, "draining", "listed") /\ pick' = [pick EXCEPT ![t] = order[i]]
  /\ UNCHANGED <<queue, bill, hook, resumed, review, faults, runs>>

Finalize(t) ==
  /\ Step(t, "listed", "claiming") /\ Finalized(pick[t])
  /\ UNCHANGED <<order, token, dispatched, expired, bill, hook, resumed, pick, review, faults, runs>>

\* claim_dispatch
MayClaim(d) == op[d] = "open" /\ row[d] = "pending" /\ token[d] = 0
HandOver(d) ==
  /\ MayClaim(d)
  /\ dispatched[d] < MaxDispatch
  /\ row' = [row EXCEPT ![d] = "dispatching"]
  /\ dispatched' = [dispatched EXCEPT ![d] = @ + 1]
  /\ token' = [token EXCEPT ![d] = dispatched[d] + 1]
  /\ expired' = expired \ {d}
  /\ UNCHANGED order

Claim(t) ==
  /\ work[t] = "claiming" /\ HandOver(pick[t])
  /\ work' = [work EXCEPT ![t] = "none", ![<<pick[t], dispatched[pick[t]] + 1>>] = "submitted"]
  /\ pick' = [pick EXCEPT ![t] = "none"]
  /\ UNCHANGED <<bill, hook, resumed, review, faults, runs>>

ClaimRefused(t) ==
  /\ Step(t, "claiming", "checking") /\ ~MayClaim(pick[t])
  /\ UNCHANGED <<queue, bill, hook, resumed, pick, review, faults, runs>>

\* The row is settled: the next one.  Else somebody else is to go on.
Check(t) ==
  /\ work[t] = "checking"
  /\ work' = [work EXCEPT ![t] = IF Outstanding(pick[t]) THEN "none" ELSE "draining"]
  /\ pick' = [pick EXCEPT ![t] = "none"]
  /\ UNCHANGED <<queue, bill, hook, resumed, review, faults, runs>>
-----------------------------------------------------------------------------
(* Everybody else *)

\* compensate_unstarted_review: an outcome for what never began.
Unstarted(d) == op[d] = "open" /\ d \notin called \cup owned

\* cancel_pending_for_pr: the request was closed.
CancelPending ==
  /\ \E d \in Deliveries : Outstanding(d)
  /\ op' = [d \in Deliveries |-> IF Outstanding(d) /\ Unstarted(d) THEN "ended" ELSE op[d]]
  /\ row' = [d \in Deliveries |-> IF Outstanding(d) THEN "settled" ELSE row[d]]
  /\ UNCHANGED <<order, token, dispatched, expired, called, owned, process, review, faults, runs>>

\* Mutated form: a row that was being run is reset as well.
ResettableRunning(d) == row[d] = "running" \/ (row[d] = "dispatching" /\ d \in expired)
\* recover_increment_dispatch of an operator: a row of an ended operation is
\* settled; an expired hand-over nobody started goes back to the queue.
Resettable(d) == row[d] = "dispatching" /\ d \in expired
RecoverRow(d) ==
  /\ \/ d \in Ended /\ Outstanding(d) /\ row' = [row EXCEPT ![d] = "settled"]
     \/ Unstarted(d) /\ Resettable(d) /\ row' = [row EXCEPT ![d] = "pending"]
  /\ token' = [token EXCEPT ![d] = 0] /\ expired' = expired \ {d}
  /\ UNCHANGED <<order, dispatched, bill, process, review, faults, runs>>

\* The drain that follows, for this row alone.
ResumeRow(d) ==
  /\ HandOver(d)
  /\ work' = [work EXCEPT ![<<d, dispatched[d] + 1>>] = "submitted"]
  /\ resumed' = resumed \cup {<<d, dispatched[d] + 1>>}
  /\ UNCHANGED <<bill, hook, pick, review, faults, runs>>

\* has_recoverable_incremental_carrier
Carried(d) == row[d] \in {"pending", "dispatching"} /\ d \notin called
\* recover_operations gives an expired operation up.
RecoverOperation(d) ==
  /\ op[d] = "open" /\ d \notin owned /\ ~Carried(d)
  /\ op' = [op EXCEPT ![d] = "ended"]
  /\ UNCHANGED <<queue, called, owned, process, review, faults, runs>>

HandOverExpires(d) ==
  /\ row[d] = "dispatching" /\ d \notin expired
  /\ faults < MaxFaults /\ faults' = faults + 1
  /\ expired' = expired \cup {d}
  /\ UNCHANGED <<row, order, token, dispatched, bill, process, review, runs>>

OwnershipLapses(d) ==
  /\ d \in owned
  /\ faults < MaxFaults /\ faults' = faults + 1
  /\ owned' = owned \ {d}
  /\ UNCHANGED <<queue, op, called, process, review, runs>>

\* Tasks and handlers die; rows, bills and PRReview rows stay.
Crash ==
  /\ faults < MaxFaults /\ faults' = faults + 1
  /\ hook' = [d \in Deliveries |-> IF hook[d] = "unused" THEN "unused" ELSE "answered"]
  /\ work' = [t \in Tasks |-> "none"]
  /\ pick' = [t \in Tasks |-> "none"]
  /\ UNCHANGED <<queue, bill, resumed, review, runs>>
-----------------------------------------------------------------------------
Handle(d) == Insert(d) \/ FindActive(d) \/ ReviewInFull(d)
Proceed(t) ==
  \/ Start(t) \/ StartRefused(t) \/ Review(t) \/ Leave(t) \/ LeaveEarly(t)
  \/ EndOperation(t) \/ Converge(t)
  \/ List(t) \/ Finalize(t) \/ Claim(t) \/ ClaimRefused(t) \/ Check(t)

Next ==
  \/ \E d \in Deliveries :
       \/ Admit(d) \/ Handle(d) \/ RecoverRow(d) \/ ResumeRow(d) \/ RecoverOperation(d)
       \/ HandOverExpires(d) \/ OwnershipLapses(d)
  \/ \E t \in Tasks : Proceed(t) \/ CallAI(t) \/ Consume(t)
  \/ CancelPending \/ Crash

Spec == Init /\ [][Next]_vars
-----------------------------------------------------------------------------
Stages == {"none", "submitted", "running", "reviewing", "closing", "ending",
           "draining", "listed", "claiming", "checking"}

Types ==
  /\ row \in [Deliveries -> {"none", "pending", "dispatching", "running", "settled"}]
  /\ order \in Seq(Deliveries)
  /\ token \in [Deliveries -> 0..MaxDispatch] /\ dispatched \in [Deliveries -> 0..MaxDispatch]
  /\ expired \subseteq Deliveries
  /\ op \in [Deliveries -> {"absent", "open", "ended"}]
  /\ called \subseteq Deliveries /\ owned \subseteq Deliveries
  /\ hook \in [Deliveries -> {"unused", "admitted", "found", "answered"}]
  /\ work \in [Tasks -> Stages]
  /\ resumed \subseteq Tasks
  /\ pick \in [Tasks -> Deliveries \cup {"none"}]
  /\ review \subseteq Tasks
  /\ faults \in 0..MaxFaults
  /\ runs \in [Deliveries -> Nat]

\* Who lists a row forgets it before anything else.
Drains == \A t \in Tasks : work[t] \in {"listed", "claiming", "checking"} <=> pick[t] # "none"

\* Nothing is queued without its admission.
TypeOK == Types /\ Drains /\ \A d \in Deliveries : row[d] # "none" => op[d] # "absent"

Promise == INSTANCE IncrementPromise WITH ended <- Ended

\* Late workers, expired and repeated hand-overs, two drains at once, an
\* operator's resets, closed requests and crashes: a push is run at most once.
RunsOnce == Promise!PSpec

\* e was queued before d.
Before(e, d) == \E i, j \in DOMAIN order : i < j /\ order[i] = e /\ order[j] = d

\* Only rows that are settled, or the drainer's own, are overtaken by a drain,
\* whatever happened between its listing and its claim.
DrainedInOrder ==
  [][\A t \in Tasks : Claim(t) =>
       \A e \in Deliveries : Before(e, pick[t]) => ~Outstanding(e) \/ e \in OwnRow(t)]_vars
=============================================================================

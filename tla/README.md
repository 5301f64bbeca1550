# Sakura-AI: specifications, model checking and proofs

Sakura-AI reviews pull requests, analyses issues, scans repositories and runs
coding agents with AI models on behalf of GitHub users. One or more backend
processes (`src/backend`) share a MySQL database and Redis; a separate daemon
(`src/updater`) replaces the running images, another (`src/sandboxer`) runs the
commands of agents in containers. What is hard to get right in it is not the
prompts: it is that work is admitted, queued, billed, reported and cleaned up
exactly once while processes run side by side, die and are restarted, and while
providers answer late or not at all. That part is what these modules are about.

- [The system](#the-system)
- [What is modelled](#what-is-modelled)
- [Runs](#runs)
- [Proofs](#proofs)
- [Findings](#findings)
- [What is not modelled, and the plan](#what-is-not-modelled-and-the-plan)

## The system

Paths are below `src/backend/services` unless they say otherwise. "Modelled"
components have a module here; the others are listed with their state because
the plan below works from this inventory.

| Component | State it keeps | Operations | What is hard, and what makes it correct |
|---|---|---|---|
| **Service execution capacity** `service_execution_capacity.py` (modelled) | gate, lease and ownership rows with an expiry; two heartbeats per task | `slot()`: own, poll, acquire, activate, renew, release | Expiry against slow heartbeats; cancellation between a commit and its answer; reductions of the maximum. Never more work than slots, no leaked row, no slot taken from a live owner |
| **Activity outbox** `activity_observability/outbox_service.py` (modelled) | session counter, events, outbox rows with claim tokens | append with the caller's transaction; claim, authorise, publish, settle | Concurrent writers, crashed or slow dispatchers. Ordered events without gaps, at-least-once delivery, one settlement |
| **Billing ledger** `billing_service.py` (modelled) | wallet, transactions, lots, allocations, debts, fundings, refund holds | grant, spend, return, refund, hold, revoke, reserve | Long sequences of legal calls. The wallet reconciles and each unit has exactly one place |
| **Billed operations** `billing_service.py`, `ai_usage_service.py`, `billing_reconciliation_service.py` (modelled) | operations, attempts, usage records, charges | register, start and finish calls, finish, resume, recover, reconcile | Results after the end of their operation, lost results, parallel calls. Charged once, only what the frozen policy allows, nothing forgotten |
| **Webhook receipts** `webhook_execution_service.py`, `webhook_execution_reconciliation.py` (modelled) | receipt per delivery: status, owner token, carrier | reserve, mark effects, acknowledge, resolve by an operator | Redeliveries, crash inside the uncertain window. A delivery's effects happen once or are put before an operator |
| **Durable review dispatch** `webhook_review_dispatch.py` (modelled) | queued carriers inside the receipts | queue, claim, run, cancel, resume at start | Worker, redelivery and restart race for one carrier |
| **Incremental queue** `pr_review_incremental_queue.py`, `pr_review_incremental_recovery.py`, `backend/workers/review_worker.py` (modelled) | increments of a pull request under review | enqueue, claim, start, consume, skip, cancel, recover, drain | A review ends while an increment is added; each admitted increment runs once |
| **Agent tool scheduler** `agent_team/tool_scheduler.py`, `agent_team/tools/base.py` (modelled) | reader/writer barrier per workspace, file lock, markers of a batch | enter, leave, run a batch | Cancelled waiters, preference of writers across processes; a write is alone and never repeated |
| **Agent runtime** `agent_team/`, `backend/workers/agent_team_worker.py` (partly) | sessions, messages and the ledger of tool calls, subagents, git worktrees | run, checkpoint, cancel, resume, spawn, wait, close | Resuming what was already done; a child that outlives its parent; results that tell what happened |
| **Payments and refunds** `payment_service.py`, `payment_event_service.py` (partly) | orders, attempts, holds, receipts | create, pay, refund, callbacks | Callbacks before the answer, twice, in any order; a refund is counted once and its hold is always resolved |
| **Updater jobs** `src/updater` (modelled) | the job file, gates, the deployment's files and containers | preflight, pull, activate, check, finalise, roll back, reconcile | Crash and cancellation at every stage; one of two deployments runs afterwards, complete, and the record says which |
| Notifications `notification_service.py`, `notification_dispatch.py` | publications, deliveries with leases | publish, claim, heartbeat, finish | Lease expiry during the provider's call, changed publications |
| Issue analysis `issues/`, `backend/workers/issue_worker.py` | analyses, relations, reanalysis carriers | admit, dispatch, store | Lost acknowledgement of a submitted reanalysis |
| Multi-factor lockout `mfa_lockout_service.py` | counters in Redis, fallback in memory | record, check, clear | Outages of Redis in between |
| Sandbox daemon `src/sandboxer` | request ledger, workspace leases, containers | execute, cancel, shut down, recover | Cancellation before execution, a full ledger, orphans |
| Review pipeline, AI protocol, retrieval, scans, star aid, CI, quotas, accounts, configuration, API, WebUI, frontend, Telegram, deployment | see `PROJECT.json` | | Data transformations, presentation and I/O without a protocol of their own |

How they interact: a webhook or an API call leaves a *receipt* and a queued
*carrier*, and registers a *billed operation* whose reserve is taken from the
*ledger*. A worker picks the carrier, enters `slot()` of the *capacity*, whose
*ownership* row tells the recovery of bills that the operation is alive, and
runs AI calls as attempts of the operation. What it does is appended to the
*activity session*, whose *outbox* notifies recipients. When `slot()` ends it
releases the lease, hands over to the settlement, and releases the ownership
last. Payments and refunds move credits of the same ledger.

## What is modelled

| Module | Models | Uses |
|---|---|---|
| `ServiceExecutionCapacity` | `slot()` with its rows and heartbeats | |
| `ActivityDelivery` | what the outbox promises (abstract) | |
| `ActivityOutbox` | writers, outbox rows and dispatchers | implements `ActivityDelivery` |
| `BillingLedger` | one wallet and the provenance of its credits | |
| `BillingOperation` | operations and calls that reserve and debit a wallet | |
| `DeliveryPromise` | what the receipt of a delivery promises (abstract) | |
| `WebhookDelivery` | one delivery: receipt, carrier, worker, queue row, operation | implements `DeliveryPromise` |
| `IncrementPromise` | what the queue of increments promises (abstract) | |
| `IncrementQueue` | the pushes to a pull request under review | implements `IncrementPromise` |
| `UpdateJob` | the updater daemon and a deployment of three images | |
| `PaymentRefund` | the refunds of an order, the provider and its callbacks | |
| `AgentTools` | the tool calls of an Agent and its child over one workspace | |
| `MC...` | the small instances TLC checks | the module of their name |
| `..._proofs` | theorems and their proofs | the module of their name; `Billing_proofs`: `BillingOperation` and `PaymentRefund`, with the lemmas about sums of `BillingLedger_proofs` |

The modules meet where the code does. The ownership of
`ServiceExecutionCapacity` is `owned` in `WebhookDelivery` and `IncrementQueue`
and part of `spared` in `BillingOperation`; the row of a push in
`IncrementQueue` is `row` in `WebhookDelivery`; their operations end as
`BillingOperation` lets them; the holds and revocations of `PaymentRefund` are
those of `BillingLedger`.

**ServiceExecutionCapacity.** A task is one call of `slot()`; `pc` is its place
in it (`entering` before the ownership row, `owned` and `granted` between a
commit and the moment the task learns of it, `polling`, `running`, `joining`
while the heartbeats are joined, `handoff` between the two releases). Every
transaction begins by writing the gate row of the feature and is therefore one
step; the client's cancellation, crash or lost answer are steps of their own
(`Cancel`, `Crash`, `AcquisitionFails`, the failing branches of the releases).
A heartbeat is `HeartbeatDue`, `RenewCommit`, then `RenewReturn` or
`RenewFails`: a renewal may reach the database after its client stopped
waiting for nothing. Time is the remaining life of rows and timers, decreased
by `Tick`; a third of the lease is the unit in which the code computes period
and timeout. In `Spec` the event loop may be arbitrarily late; `PromptSpec`
lets no time pass while a timer of a heartbeat is due or a row's owner has
waited a third of the lease to learn of it. Features do not interact, so there
is one. The reentrant slot of a task adds no state and is left out.

**ActivityOutbox.** Writers stand for every service that appends to the
session: `Load` is their earlier unlocked read, `Append_` locks the row and
counts from the object the unit of work already has, `AppendRefused` is the
broken unique key. A dispatcher is one `run()` loop: `Claim` commits a batch
with fresh tokens, `Authorise`, `Publish` and the failing alternatives happen
outside transactions, `FinishSuccess`, `FinishFailure` and
`CancelUnauthorised` record a result if the row is still claimed under the
token. Delays are `BecomesDue` at any moment. A claim that times out while its
dispatcher still handles it is a fault of its own (`Overruns`), remembered in
`overrun`: `SoleHandler` speaks of the behaviours without one, the other
properties of all. A database error in `_claim` or while a result is recorded
leaves `run()`; its documented end is `stop()`, and nothing supervises the task
(`outbox_service.py:622`), so the dispatcher is then idle until its process
starts again.

**BillingLedger.** One wallet. `Grant` funds outstanding debts, then opens a
lot. `Spend` draws lots in the order of their transactions and leaves the rest
as debt. `ReturnUsage` (`reverse()` of usage) and `RefundGrant` have no caller
outside tests at this commit but are public operations of the service;
`HoldPurchaseRefund`, `ReleasePurchaseRefund`, `FinalizePurchaseRefund` and
`Revoke` are what payments use. `RestoreSource` and `RestoreDebt` are
`_restore_source` and `_restore_debt`, which call each other; each turn takes units
from a funding, so `Restorer[n]` is what n turns make of the tables and `Turns(b)`
are enough. Their loops over rows are `Walk`s. `ok` in the tables says that none of
the code's own consistency checks has raised; an operation that ends without it is
rolled back, so it is no step. The row lock of the wallet serialises the operations,
so each is one. A hold that is released after its purchase was revoked returns units
to the lot: `NotResurrected` therefore speaks of lots none of whose holds was
resolved. `ReturnsComplete` says that no check raises in any part of a return; it
speaks of tables in which no debt is paid by units older than itself, for the reason
told under *Observations*.

**BillingOperation.** `Settle` is `settle_operation`, which almost every other
operation ends with; it reads the calls as its caller leaves them (the primed
variables). Costs count fractions of a unit (`Scale` of them) because the code
keeps exact decimals and rounds the total up once. A price profile is reduced
to whether the call has one; usage is a cost or `Unknown`; a record whose
provider did not report usage but which the code quotes is a known one. The
`status` column follows from the other state and is left out. `spared` merges
the two reasons for which recovery leaves an expired operation alone (a live
ownership, a recoverable carrier). A worker that dies keeps its attempt without
a result (`CallLost`); results may arrive after every other step
(`FinishCall` of an operation that ended, was recovered or was reviewed).
`recover_operations` and `resolve_billing_call` are started by an administrator
(`src/scripts/billing_maintenance.py`), so no liveness is claimed for them. The
daily limit of scans at admission is left out.

**WebhookDelivery.** One verified pull request event. Every arrival and every
startup pass over the queued receipts is an attempt with its token; `pc` is its
place in the handler (`handling`, `admitted`, `effects`, `prepared`, `handed`,
then `acknowledging`), `task` the worker task it submitted. The receipt names the
attempt that owns it, so an attempt whose token was rotated away finds that each
of its conditional updates matches nothing. Against the handler run the worker
(`StartWork` to `RecordEnd`), redeliveries (`ClaimRetry`, `ClaimQueued`), the
closing of the pull request (`CancelQueued`, `CancelRow`), the recovery of bills
(`Recover`), a lost ownership, the reconciliation of operators (`Resolve...`)
and the end of the process (`Crash(p)`, after which pass `p` scans the receipts).
`recover_operations` is started by an administrator, so nothing assumes that it
comes: `AcknowledgedIsSettled` says that a delivery which does not end by itself
stays for ever one that it may end (`[]Abandoned`), as after a crash in the middle
of a review, and is not out of its reach, too. Whether the administrator comes is
not the program's.
`CloseAdmission` is a database reset, after which no background work is
submitted. `AtMostOnce` is the refinement of `DeliveryPromise`.

**IncrementQueue.** The pushes to one pull request. `hook` is the handler of a
push, which looks for an active review in one transaction and inserts its row in
another (`pr_review_incremental_queue.py:131`), so that a row may be inserted
after the review that was to drain it has gone; `work` is a worker task: a
review in full (`<<d, 0>>`) or the n-th hand-over of a row. `dispatched` counts
what the code distinguishes by tokens. `RecoverRow` and `ResumeRow` are an
operator's resets, `HandOverExpires` the expiry of a hand-over, `Crash` the death
of the process. A drain lists the rows, decides on the first and claims it in
another transaction; it stops at an incomplete row of an earlier task, though
the comment at `review_worker.py:2728` has it go past, and nobody returns to a
row whose drain stopped there before the next review of the pull request ends.
Liveness is therefore not claimed. `RunsOnce` is the refinement of
`IncrementPromise`.

**UpdateJob.** A deployment is three images; of each the model keeps the
version it belongs to. Actor 0 is the start of the daemon, the others are jobs;
`pc` is the stage. Files and containers change one step at a time, so a crash,
a failing write and a cancellation come between any two. `Torn` is a container
an interrupted command had removed. A cancelled task whose file is being written
by a thread leaves the write to it (`late`, `LateWrite`). Health and image checks
are what they compare (`Healthy`, `Recheck`, `Ready`). `unguarded` remembers
that a rollback ran without a journal of its own, which `Recoverable` and
`OutcomeMatches` except; how that happens is told under *Observations*.
`StartRefused` is the start that fails because the copy is missing.

**PaymentRefund.** One order with two kinds of refund keys, those of users'
requests and those of an administrator, and a provider that also makes refunds of
its own. `Send`, `Approve` and `RefundDirectly` stage an attempt with its hold
and commit it before the provider is asked; `handler` is what the request waits
for since. `Begin`, `Execute`, `Decline` and `Decide` are the provider.
`Receive` handles the receipt of an outcome, `Pending` that of a refund announced
as pending, with its replay in steps because two replays skip what the other has
locked. The webhook answers 200 once a receipt is stored, even as
`pending_reconciliation` (`backend/api/webhook.py:3144`): the provider does not
redeliver it, and only an administrator replays it. No fairness is assumed of that.
`RefundsStayCountable` promises instead that a replay, whenever it comes, can count
the refund. An operator reconciles an attempt either way. The credits are those
`BillingLedger` promises: a hold may be refused, a release and a revocation are
not. The provider answers truthfully, in the order's currency; the purchase is
credits only; partial refunds are proportional; a callback reports one refund.
A transaction is one step because it locks the order first; the model assumes that
what it then reads is fresh. Some of it is read by plain selects
(`payment_service.py:1445`, `1466`) after an earlier read of the same transaction
(`2343`): see *Observations*.

**AgentTools.** A call is a place in a session; `plan` says of which kind the
calls are that the models may ask for. `pc` is the place of an agent's run
(`recover`, `loop`, `run`, `record`, `skip`, `abort`, `close`, `finish`),
`stage` that of a call's task: marked, due, waiting for the barrier (`wait`), for
the lock other processes share (`lock`), at work, or `drain` when it was
cancelled while a shielded write or what a search has begun goes on. A read is
`read_file`; a search is `grep` or `detect_project`, which wait for what they have
begun before they let a cancellation out of the barrier (`grep_tool.py:155`,
`project_detect_tool.py:198`). `read_file` does not: its task is gone at once
(`Dropped`) and its thread stays in `threads` (`LeftBehind`) until `ThreadEnds`,
while the barrier is free for others. `WorkspaceAlone` excepts exactly that thread.
`state` and `result` are the ledger,
the only thing a resumed run sees, next to the workspace (`effects`). `Interrupt`
is the cancellation of a run anywhere, after which the store it was waiting for
may have been committed (`InFlight`). The parent may have one child at a time,
whose slot is `Take` and `Finish`; `Dismiss` is `cancel_agent` and the end of the
parent. Left out: hooks, guidance, skills, compaction, the rounds in which the
repository's instructions are sent back, answers without a call, MCP tools and
children of children, none of which touches the ledger, the barrier or the end
of a run otherwise; the search for the repository's instructions, which is part of
the repository context, leaves a thread behind as `read_file` does
(`tools/base.py:511`, `649`). A second cancellation of a batch that is being resolved
leaves the calls as they are; a child whose end could not be stored is taken up
by the closing of its parent.

## Runs

| Run | Instance | What it shows |
|---|---|---|
| `CapacitySlots` | two tasks, one billed, one slot; a prompt event loop, lost commits and crashes | No live slot is taken from its task; a body without a reported failure holds its lease and ownership, so the bodies fit the maximum; every call ends, and what it leaves is only what it could not release, and stops counting |
| `OutboxDelivery` | two writers, two events, two dispatchers, batches of two, two attempts, one fault | Events become visible as 1, 2, 3, ...; the outbox implements `ActivityDelivery`; no row is handled by two dispatchers unless a claim timed out; rows fail only after all attempts; every committed row settles |
| `Ledger` | five transactions of one or two units, one hold | The wallet reconciles (`Consistent`), each unit of each credit and debt has one place (`AccountedFor`), nothing refunded is spent again, and what was not returned yet can be, in any parts (`ReturnsComplete`) |
| `OperationCharges` | one operation, two calls, costs of 1 and 3 halves, every policy, a refund that holds units | What is owed is charged, once (`ChargedExactly`); nothing forgotten; policies respected; no reserve after the end; no reserve grows by units the refund holds |
| `WebhookDelivery` | two deliveries of one event, two restarts | One window of effects and one execution; safe retries; cancellations are final; what is queued or acknowledged is settled, or stays what an administrator's recovery of bills ends |
| `IncrementQueue` | three pushes, one review in full, two hand-overs of a row, one fault | No push is reviewed twice or after its bill has ended; a drain overtakes no push that waits |
| `UpdateJob` | two clients, two jobs, three deployments, one without a sandbox, two faults | One update at a time; a deployment that can be restored at every moment; records that match what runs; an end for every update |
| `PaymentRefund` | a requested and a direct refund of three cents, two refunds at the provider | Money and credits are taken once per refund and by its amount; outcomes are final; requests show them; every refund stays countable |
| `AgentTools` | five plans of at most three calls, one fault, one resumed run | One writer in the workspace, beside whom only the thread of a cancelled `read_file` may linger; no write twice; results are true; no child outlives its parent's run; every run ends |
| `OutboxStaleRead`, `UpdateCopyLost`, `RefundUnheld` | minimal instances | The three findings below |

**Bounds.** *Capacity.* Two tasks are needed for a slot to be contended and
enough for each pair of steps to interleave; a lease of one third per time unit
already has the instants before, at and after each timer. The run has one maximum.
A maximum that is lowered while bodies run is covered by proofs alone: that the rows
fit the largest one (`RowsFit`) and every admission the one of the moment
(`AdmissionsFit`), for every set of maxima and durations. *Outbox.* Three claim tokens let
a row be claimed twice while
a stale claim of it is still held; two attempts separate a retry from the last
one; one fault is one crash, one database error or one claim that times out
while it is handled, and restarting is not bounded. *Ledger.* Five transactions
reach the longest chain the provenance code distinguishes (credit, use, credit
that funds the debt, return, use again) with a hold alive across it. *Operation.*
Costs of 1 and 3 halves make one call cheaper than a unit, two of them rounded
together cheaper than rounded apart, and one call alone more expensive than its
reserve. *Delivery.* Two arrivals are a delivery and its redelivery, and with
two restarts each finds what the other left; a third would meet only states the
second has met. *Increments.* Three pushes let two rows wait behind a review in
full, so that order and two concurrent drains matter; two hand-overs are the
expired and the repeated one. *Updates.* Two jobs let the second meet what a
failed first one left; three versions tell the version before, the target and the
next one apart; two faults are a failure and a crash in its rollback. *Refunds.*
Three cents of three units divide into parts that round; one attempt by a user
and one by an administrator with two refunds are what it takes to bind a
callback to the wrong one. *Tools.* The plans have each kind of call beside a
write: before a finish_task, between the two ends of a child and as a read and a search
that enter together; one fault is one crash, cancellation of the task, failing store
or foreign lock, while requests to stop are not bounded.
Bounded instances stop when the bounds are used up, so deadlock is checked only
where the system can always go on (`OutboxDelivery`, `UpdateJob`).

**Fairness.** *Capacity:* the event loop lets a task or heartbeat that can take a
step take one, bodies end, and time passes whenever a prompt loop lets it;
nothing is assumed of the environment, which may fail every renewal. *Outbox:* some
dispatcher that can work does, a stopped one is started again with its process,
and delays end; publications that succeed and authorisation are not assumed,
and that a claim times out while it is handled happens finitely often.
*Delivery:* a live process goes on with the handler and the task it began, and a
lost ownership runs out; nothing is assumed of the recovery of bills. *Updates:* the
daemon is started again, and tasks, threads and requests end. Its unit has
`Restart=on-failure` with a limit of starts in an interval
(`src/updater/src/sakura_ai_updater/systemd.py:236`), so this is right for crashes,
of which there are finitely many; a start that fails each time for the same reason is
the finding about the copy below. *Refunds:* none. *Tools:* one condition for all steps of
the system, which suffices
because a run has finitely many of them: the loop runs its tasks, models answer,
tools end, and a lock another process holds is released; that the thread of a
cancelled read ends is not needed. Crashes, cancellations,
operators and users are nobody's duty in any of them.

Each property also has at least one mutant: an operator beside the one it
replaces, marked *Mutated form*, that changes the definition as a plausible
bug of the code would and makes the property fail in its run.

## Proofs

The theorems hold for every value of the constants, from the assumptions named
in the modules (finite sets of tasks, positive durations and maxima, natural
bounds, non-negative costs and so on; sums are over finite sets of operations,
calls and refunds, which the tables of the code are at every moment).

*ServiceExecutionCapacity_proofs.* `RowsFit` needs the types and one fact about
the steps (`RowsStep`): a row is only added by the step that purged and counted
under the gate. That a *body* holds its slot (`PromptHoldsSlot`,
`PromptWorkingFits`) needs the margins of the heartbeat: `Margin` relates, for
each phase of the lease's loop, the remaining life of the row to the loop's
timer. While the loop sleeps the row outlives the timer by a third of the
lease; while it waits for an answer, by nothing, which is just enough; when a
row was just granted or renewed, by two thirds. Each step of a loop preserves
its margin, a step of another task cannot purge a row with life left, and the
prompt clock stops for a timer that is due. A body at work with no failure has
a loop that is not off, therefore a live row, and with `RowsFit` the bodies fit
the maximum. `OwnMargin` is the same for the ownership, whose loop already runs
while the task polls (`PromptIsOwned`). What cleanup leaves (`NoLeak`,
`OwnershipGoesLast`) follows from `Accounted`: without a database fault a row in
the tables is one whose token the task knows, and the task has not passed the
step that releases it. `AdmissionsFit` and `LiveSlotsAreKept` are facts about
single steps from the type invariant and the purge.

*ActivityOutbox_proofs.* `OrderedWithoutGaps` rests on an invariant of the
writers: the lock has one owner, only its owner has an open transaction, and
the sequences of that transaction continue the committed counter.
`OutboxDelivers` is the refinement of `ActivityDelivery` under the mapping that
hides claims (`Outcome`); its invariant says that a claim someone still handles
refers to a committed row, and that a dispatcher about to record a success has
delivered. `HandledAlone` needs that every claim a dispatcher holds is the row's
current one and is not due (`SoleInv`): then only rows nobody holds can be claimed,
and a result touches only its own row. `NothingGivenUpEarly` holds because only an
exhausted row is failed and a failed row is not claimed again.

Two theorems are about what `EveryRowSettles` rests on. `RowsAreServed`: an open row
becomes due by the passing of time alone, or some dispatcher has a step, whatever was
lost. Its invariant `Posts` says what a dispatcher holds at each stage; that it holds
one claim of a row at most gives `TokensSuffice`, by a pigeonhole over the dispatchers:
with more tokens than dispatchers (`TokensAssumption`; the code draws 24 random bytes
each time) an idle dispatcher finds a fresh one for every row, so the finite set of tokens
never keeps a claim from happening. `RetriesEnd` (`LastClaimLost`): every claim is counted
and a row that waits has an attempt left (`Budget`), so at the limit only a claim that
was lost in a crash or timed out is taken over.

*BillingLedger_proofs*, sums. `SumFunctionOnSet` is a recursive definition, and the
library's induction theorems take an operator, which the provers cannot instantiate.
A fact about a sum needs no operator, though: it is the equality of two values for every
finite set, and the numbers n for which it holds for all subsets of n elements are
a set. `NatSetInduction` is induction over a *set* of numbers, from
`NatLessThanWellFounded`, and `SubsetInduction` the same over the subsets of a
finite set. From them follow the existence and uniqueness of the unfolding
(`UnfoldingUnfolds`, `UnfoldingUnique`) and the lemmas the billing proofs cite: the
sum without an element (`SumRemoves`), of equal functions (`SumEqual`), of a part
(`SumSubset`), after a change of one value (`SumChange`).

*BillingLedger_proofs*, ledger. A `Walk` and the `Restorer` are recursive functions
of numbers, so the same induction reaches them. What a chain of returns does is one relation,
`Restored(b, r, units, ...)`, between the tables before and after: the worth of the
tables (lots less debts) grows by the units; what a credit has in its lot and in
fundings less what its revocations owe (`Place`) grows by its portion; what usage owes
(`Owing`, outstanding and funded) shrinks by its portion and what a revocation owes
never grows; no debt or funding grows, and the lot of a refunded purchase grows only
once its revocations are paid up. `RestoresDebt` shows that
a turn keeps it if the turns below do (`Restores`), loop by loop; `RestorerRestores`
is the induction over the turns. It is conditional on `ok`: a chain that meets a
failing check posts nothing. `GaveBack` is the same for a whole return.

`LedgerInv` is the inductive invariant. `Consistent` and `AccountedFor` do not stand
alone: that a credit's units have one place through a *revocation* needs to know what
its debt still owes, that a transaction was never returned beyond its units
(`NotOverReversed`), which kind of row each reference, allocation, debt and funding
belongs to (the `WellFormed...` parts), and, for `NotResurrected`, that a credit whose
revocations owe something has an empty lot and never paid for them itself, unless one
of its holds was resolved (`RefundsFirst`). Each operation is reduced to the accounts it
changes: `PostKeeps` for
one that appends a transaction, `UnpostedKeeps` for a hold or its release; what is left
of each is arithmetic about `Place`, `Worth` and `Owing`. `WalletConsistent`,
`CreditsAccounted` and `RefundsStay` follow for any number of transactions, holds and
units.

That a return also *succeeds* (`ReturnsGoThrough`, for tables in which a debt is paid
by later credits only, as the property says) needs an order: from a debt to the
source that paid it, and from the source to its own revocations, which are later
still, identifiers only grow, so a chain of returns never comes back to a debt it is
in the middle of (`Completed`: the fundings of all earlier debts are as they were).
Each turn takes back a unit of funding, and none is added behind it (`FundingsFall`);
hence the turns of the bound, one more than there are fundings, are enough
(`CompletesDebt`, `CompletesSource`, by induction over them). What a return may give
back is there to be given: `UsageAllocated` says that usage is allocated in full.

*Billing_proofs*, operations. The invariant `IInv` is the conjunction of `Shape`
(a call has a state exactly when it has an operation, no record before its
result, a record once known), `ClosedHoldsNothing` and `NothingForgotten`.
`Shape` is what makes a late result visible to the settlement that follows it: it
rules out a call that is known without a record to quote.
`DebitsRespectPolicy` and `ReopensOnlySettled` are action properties from the
same invariant. The money needs more (`MoneyInv`): the wallet's balance and
reserve are the sums over its operations (`Totals`), a quote stands once it is made
(`QuotesStand`), which is why an operation that was settled cannot have paid for
more than it owes later (`NotTooMuch`), and one that is closed without a
pending_reason has paid for everything (`NotTooLittle`). Each handler is reduced to what
it does to these parts: it leaves them (`Leaves`), moves units of the wallet beside
them, or settles one operation after a change of its calls. `ChargesAreExact`,
`ReservesAddUp` and `ReservesAreFree` follow for any finite number of operations
and calls, any costs, scale and policies.

*Billing_proofs*, refunds. `Books` is the inductive invariant: one unresolved
attempt at most (`OneActive`), no trace of an attempt or a refund that is not made
(`Blank`, `Unmade`), one refund of an attempt and of its amount (`AskedOnce`), none
but its own named by an unresolved one (`NamesItsOwn`), no confirmation of what
was not made (`Made`), no refund shared by two attempts that may count
(`Distinct`), and no unresolved attempt whose refund is counted already (`Taken`).
`RefundsSettleOnce` (its parts `CountedOnce` and `OutcomeIsFinal` are theorems of
their own), `RequestsTellTruth` and `PendingIsClosed` follow for any number of attempts,
refunds and cents. `OrdersAgree` is `BooksAgree`:
every step counts nothing or one refund the provider made and the order had not
counted (`StepCountsOnce`), so the money is the sum of the counted ones (`Money`);
these are among what the provider returned, and it returns no more than the price.
For the credits, where cents are whole units, `Proportional` adds that every staged
attempt and every sum is the same multiple (`Rate`) of its cents. `RefundsInReach`
(`RefundsStayCountable`) adds that a processed outcome was refused or counted
(`ClosedWithCause`), so that the receipt of an uncounted refund is still open; that it
passes the checks follows from the sums: what the provider returned beside the counted
refunds still fits under the price (`UncountedFits`), therefore its units fit what is
left to reverse (`UnitsFit`), and an unresolved attempt it belongs to has its hold or is
among the excepted. The two models share
one module of proofs because both rest on the sums; therefore the names of
`PaymentRefund` that `BillingOperation` has as well begin with `Refund`.

*WebhookDelivery_proofs.* `TypeCorrect`, `RetrySafe`, `CancellationIsFinal` and the
refinement `OnceAtMost` come from one inductive invariant. Its parts: there is one
window of effects, and the owner of a receipt without a carrier opened it or nobody
did (`OneWindow`); before it is open nothing of the work exists (`Quiet`) and inside
it the review is still in the handler's hands (`Window`); a receipt that can be
claimed has no window (`Claimable`); the review goes to the carrier or to the queue,
and has not begun while it waits (`OneWay`); a task comes with a carrier (`Handed`);
nothing holds a cancelled receipt (`Cancelled`).

`NeverLost` is what `AcknowledgedIsSettled` rests on: a delivery that was queued or
acknowledged has ended, was vouched for by an operator or waits for the next start of
a closed process, or it is pursued by an attempt, the queue of increments or a live
execution, or left to the recovery of bills (`Abandoned`). The heart of its invariant
(`Pursuit`) is `Carried`:
a queued carrier of an open operation belongs to a handler or a task that is about
to go on, or a startup pass has still to look for it. A worker that finds the receipt
in other hands leaves it to those, and a crash, which takes all of them, brings a pass.

*IncrementQueue_proofs.* `RunOnce` rests on `Unrun`: what may still be started,
a pending or dispatching row or a submitted review in full, was not run; a push
has one or the other (`OneKind`), and only hand-overs make tasks (`Handed`).
`InOrder` needs `Picked`: what precedes the row a drain has listed is settled or
the drainer's own, and stays so, because a row is queued once (`Queued`) and a
settled one never returns.

*AgentTools_proofs.* `IInv` is the conjunction of `TypeOK`, `Placed` (where the run
is whose task a call has), `Accounted` (the changes a call has made against its
state, result and task: before a write runs it is marked and has changed nothing, and
outside of its batch only a write that was never marked may run), `Sessions` (a batch
is one call or shared calls only, and a run succeeds exactly with a finish_task),
`Barrier` (an exclusive call is alone inside), `Readers` (a thread that was left behind
is a read's) and `Nested` (the child's run lies within its
parent's). A cancellation may strike anywhere, so `Interrupt` is the step with
most cases; they hold because a cancelled call that goes on (`drain`) still counts
as inside and at work. `Alone` is `WorkspaceAlone` with its exception: it does not say
that a cancelled `read_file` has left the workspace, because it has not.

That every run ends (`RunEnds`) is liveness, but what it rests on is proved for all
plans and bounds. `RunsMoveOn`: every step lowers, in this order, what is left of the
bounds, the phases the two runs have before them (`Phases`), the calls without a
state or a result, the stages of a task (`Rank`), or the threads left behind, so none can
be taken for ever.
`NeverStuck`: while the parent's run is not over, the guard of some step holds
(`Goes`, the guards of the actions of `System`). Its invariant `Timely` says what
there is left to wait for: a batch that is being marked has a call without a mark, a
running one a task that is not out, and the parent cannot be in a batch without a
manager that starts its child. The proof follows who waits for whom: a call that is
due for one inside the barrier or waiting for it, that one for a holder which works,
a `wait_agent` for the child, and the child's run for nobody but the barrier. What
fairness adds, that a step which stays possible is taken, is left to TLC. The proof
needs that a plan has no gap (`ListsAssumption`), as a list of calls has none.

*UpdateJob_proofs.* Three layers, each inductive with those before it. `Serial` adds
to `GatedUpdates` what the daemon knows while it is down or starting; it gives
`OneActor`: one job, or the start of the daemon, is at work at most. `Safe` says what
the transaction is worth at each stage of a job (`Stage`) and of a rollback
(`Rollback`), that a daemon without a transaction of its own has left no journal
(`NoJournal`, `Fresh`), and that a deployment without a sandbox has none until one is
installed (`NoSandbox`), on which the removal of a new sidecar rests; `Recoverable` is
its first conjunct. `Traced` follows the version a job started from through snapshot,
copy and deployment (`Origin`), which makes the records true (`OutcomeMatches`). A
rollback without a journal of its own (`unguarded`) is excepted, as in the properties.

Two more theorems are about the end of an update (`UpdateEnds`). `UpdatesMoveOn`: `Left`,
the number of stages a job or a start can still pass, falls with each step of its own,
and no other step raises it but the one that begins it. A rollback is entered from
`activate`, from the handler of a failure or from a cancellation, and after the first
of these it may be entered once more from the second or the third, each time with
less behind it, which is why the cause of a rollback is part of the measure and of
its invariant (`Reasoned`). `GatesHaveTasks`: the exception `UpdateEnds` makes,
a serving daemon whose gate has no task, occurs only after a fault; a cancelled task
keeps its gate too, but its daemon is stopping. Since each stage of a job has a step
that nothing but the job's own state enables, fairness is what is left to TLC.

**Only model-checked.** Liveness (`EverySlotEnds`, `CapacityReturns`,
`EveryRowSettles`, `AcknowledgedIsSettled`, `UpdateEnds`, `RunEnds`), since the prover has
no rule for fairness, and with it that an action is
enabled: `NeverStuck` speaks of the guards as they are written. Every invariant and
action property of the passing runs is a theorem.

## Findings

Three runs expect a violation, each of what the code's own documentation says.

- `OutboxStaleRead`: the sequence of an event is documented to be allocated
  atomically; the locking select does not refresh a session row the unit of
  work has already loaded, so two writers can count from the same value and the
  second transaction is lost (`outbox_service.py:263`).
- `UpdateCopyLost`: the clean-up of a deployment transaction is documented to
  preserve its files on any failure; it removes the copy before the journal, so
  that a crash between the two, or a journal written late by the thread of a
  cancelled task, leaves a prepared journal without its copy, and the daemon
  does not start any more (`adapters/image.py:791`).
- `RefundUnheld`: the intent of a refund and its hold are documented to be
  committed together; an approval whose hold is refused commits the attempt
  without it, and that attempt blocks every other refund of its order
  (`payment_service.py:2420`).

**Observations.** What the models show beside the properties, or what modelling
showed, without a sentence in the repository that says otherwise:

- *Outbox.* A database error in `_claim` or while a result is recorded ends `run()`,
  and nothing supervises its task (`outbox_service.py:622`).
- *Ledger.* `_restore_debt` can come back to the debt it is refunding and then raise
  "Debt refund exceeds attributable funding" (`billing_service.py:339`), although the
  tables hold every unit: a release of a refund hold funds the debts that arose
  meanwhile, so that a purchase may pay a debt younger than itself. With a hold of one
  unit on a purchase of three: spend two, revoke two,
  buy one and revoke it, buy one again, release the hold; the return of the two used
  units is then refused. Without such a funding returns are complete
  (`ReturnsComplete`). No caller but the tests returns usage at this commit.
- *Operations.* With `billing_charge_failed_calls` on, a result that arrives while
  a parallel call is on its way marks the operation as pending, and its next call
  is refused until the parallel one has answered (`billing_service.py:1408`).
- *Increments.* A row inserted after the review it found has ended waits for the
  next review of the pull request; a drain stops at an incomplete row of an
  earlier task although its comment says otherwise (`review_worker.py:2728`).
- *Updates.* A rollback after the transaction was committed, or when its copy or
  journal could not be written, runs without a journal; a crash in it leaves a mixed
  deployment that is reported as interrupted. After a rollback that failed, the
  next job meets the open transaction ("another deployment transaction is already
  active") and its clean-up deletes the older copy; the note that a sidecar was
  installed has then been reset, so in a deployment without a sandbox a new
  sidecar stays. The version read by an unlocked preflight may be stale, so
  that a correct rollback is reported as failed. The record of a rollback may be
  saved with the success that was set in memory. These are the behaviours
  `unguarded` marks.
- *Refunds.* A partial refund by the order and one at the provider each round down,
  so that a fully refunded order can keep a unit. The answer of a refund that comes after
  its request was rejected shows it as failed. A key whose refund failed is never
  sent again. A receipt that cannot be counted yet is answered with 200 and waits for an
  administrator's replay (`backend/api/webhook.py:3144`). Where cents are not whole
  units, overlapping partial refunds can reverse more than their share, and a further
  receipt is then refused as a mismatch of credits until somebody reviews it: at a price
  of six for two units, count two cents, stage one, count one made elsewhere, finalise
  the staged one; the next cent made elsewhere is refused. The database's isolation level
  is not set. With MySQL's default a plain select sees the transaction's first read, so
  an approval that waited for the order's lock behind the receipt of a refund made
  elsewhere may take the reversals from before it (`payment_service.py:1466`) beside the
  order's fresh money, and hold too many units. `reconcile_refund` locks the attempt
  before the order, everyone
  else the order first: the database resolves the deadlock by an abort.
- *Tools.* The thread of a cancelled `read_file` (`tools/read_tool.py:91`) outlives the
  barrier, because only exclusive calls are shielded (`tools/base.py:441`): after
  `cancel_agent` it may read a file while the parent's next write changes it. Its result
  is lost, so nothing false is recorded; `grep_tool.py:155` waits for its own thread to
  avoid just this. The thread that looks for the repository's instructions is left
  behind in the same way (`tools/base.py:649`). A cancellation after `record_tool_result`
  has committed, while it
  publishes, makes `mark_tool_call_cancelled` overwrite "completed": of a
  finish_task the next recovery then says `checkpoint_inconsistent`. A request to
  cancel a task that no worker runs leaves a set event, and the next resumption is
  cancelled at once (`agent_team_worker.py:1861`).

## What is not modelled, and the plan

`PROJECT.json` lists every component with its status and the reason, and the
hazards with the properties that cover them. Hazards without a property: a
queued increment that no later review drains (`review_worker.py:2791`, no
fairness of the code justifies a promise), the lease of a notification, and a
cancellation that overtakes its execution in the sandbox.

Left out of the modelled parts: in payments the creation, payment and
fulfilment of orders, orders without a provider, conversion of currencies and the
rounding of gateways, the identities Alipay gives, mixed entitlements and the
policy that rejects a refund, receipts of several refunds, deduplication of the
inbox by the provider's event key, and the editing of evidence by `resolve()`; in
billing the daily limit of scans; in the agent runtime the worker's git and pull
request steps; in the updater the release registry and the adapters of Docker and
systemd, which are pure I/O seen from the job.

In order, what the plan has left:

1. A measure for the outbox and the receipts, as for the runs of the agents and the
   updates: who goes on is proved for all four, that it ends for two.
2. The composition of the recovery of bills with the ownerships of
   `ServiceExecutionCapacity` and the carriers, in place of `spared`: recovery
   never fails an operation whose body still works.
3. `PaymentRefund` over the full ledger in place of what it promises.
4. `NotificationLease`, `SandboxLedger`, `MfaLockout`: small modules.
5. The fulfilment of orders beside their refunds.

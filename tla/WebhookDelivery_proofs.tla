----------------------- MODULE WebhookDelivery_proofs -----------------------
(***************************************************************************)
(* For any number of deliveries, redeliveries and restarts of the process: *)
(* one delivery has one window of effects and one execution, is run again  *)
(* only while it did nothing, stays cancelled, and is never left without   *)
(* somebody to settle it.                                                  *)
(***************************************************************************)
EXTENDS WebhookDelivery, TLAPS

\* Before the window of effects is open there is nothing to find of the work.
Quiet ==
  acted = {} =>
    /\ carrier = "none" /\ row = "none" /\ started = {}
    /\ \A k \in Attempts :
         /\ task[k] = "none"
         /\ pc[k] \in {"unused", "scanning", "handling", "admitted", "failing", "gone"}

\* Nobody opens a window without a registered operation.
Registers ==
  /\ acted # {} => op # "absent"
  /\ \A k \in Attempts : pc[k] = "admitted" => op # "absent"

\* There is one window, and the owner of a receipt without a carrier opened it
\* or nobody did.
OneWindow ==
  /\ \A h, k \in acted : h = k
  /\ owner # Nobody /\ carrier = "none" => acted \subseteq {owner}
  /\ \A k \in Attempts : owner = k /\ pc[k] \in {"handling", "admitted"} => acted = {}

\* A receipt that can still be claimed for the handler has no window.
Claimable == status \in {"absent", "retryable"} => acted = {}

\* Inside the window the review is still in the handler's hands.
Window ==
  \A k \in Attempts :
    pc[k] = "effects" => k \in acted /\ carrier = "none" /\ row = "none" /\ started = {}

\* The review went one of two ways, and has not begun while it waits.
OneWay ==
  /\ row # "none" => carrier = "none"
  /\ op = "open" /\ (carrier = "queued" \/ row = "pending") => started = {}

\* Nothing holds a cancelled receipt, and nothing is left to begin.
Cancelled ==
  response = "cancelled" =>
    /\ status = "accepted" /\ owner = Nobody
    /\ carrier \in {"none", "terminal"}
    /\ Ended \/ acted = {}

\* A startup pass is no handler.
Roles == \A p \in Passes : pc[p] \in {"unused", "scanning", "resuming", "gone"}

\* A worker task, and whoever creates one, comes with a carrier.
Handed ==
  \A k \in Attempts :
    task[k] # "none" \/ pc[k] \in {"prepared", "restoring", "resuming"} => carrier # "none"

IInv ==
  /\ TypeOK /\ Roles /\ Handed /\ Quiet /\ Registers /\ OneWindow /\ Claimable /\ Window /\ OneWay /\ Cancelled

\* The invariant holds before the first arrival.
LEMMA InitIInv == Init => IInv
BY TokensAssumption DEF Init, IInv, TypeOK, Quiet, Registers, OneWindow, Claimable, Window,
  OneWay, Cancelled, Roles, Handed, Attempts, Stages, Ended

\* The claims of a delivery or a redelivery.
LEMMA ClaimKeeps ==
  ASSUME IInv, NEW k \in Deliveries,
         ClaimNew(k) \/ ClaimRetry(k) \/ ClaimQueued(k) \/ HandlerFails(k)
  PROVE  IInv'
<1> USE TokensAssumption DEF IInv, TypeOK, Quiet, Registers, OneWindow, Claimable, Window,
      OneWay, Cancelled, Roles, Handed, Attempts, Stages, Ended, Go, Turn, receipt, business, history
<1>1. CASE ClaimNew(k)
  BY <1>1 DEF ClaimNew
<1>2. CASE ClaimRetry(k)
  BY <1>2 DEF ClaimRetry, Proof, InQueue
<1>3. CASE ClaimQueued(k)
  BY <1>3 DEF ClaimQueued, TakeCarrier, MayDispatch
<1>4. CASE HandlerFails(k)
  BY <1>4 DEF HandlerFails, Compensated, Unstarted
<1> QED BY <1>1, <1>2, <1>3, <1>4

\* The handler and what it hands over, and the startup pass.
LEMMA HandlerKeeps ==
  ASSUME IInv, NEW k \in Attempts,
         Reject(k) \/ Admit(k) \/ BeginEffects(k) \/ Enqueue(k) \/
         Prepare(k) \/ Submit(k) \/ FinishFailed(k) \/ FinishAccepted(k) \/
         Restore(k) \/ ResumeQueued(k) \/ PassEnds(k)
  PROVE  IInv'
<1> USE TokensAssumption DEF IInv, TypeOK, Quiet, Registers, OneWindow, Claimable, Window,
      OneWay, Cancelled, Roles, Handed, Attempts, Stages, Ended, Go, Turn, receipt, business, history
<1>1. CASE Reject(k)
  BY <1>1 DEF Reject
<1>2. CASE Admit(k)
  BY <1>2 DEF Admit, Registered
<1>3. CASE BeginEffects(k)
  BY <1>3 DEF BeginEffects, MayAct
<1>4. CASE Enqueue(k)
  BY <1>4 DEF Enqueue
<1>5. CASE Prepare(k)
  BY <1>5 DEF Prepare, Registered, MayPrepare
<1>6. CASE Submit(k)
  BY <1>6 DEF Submit, Compensated, Unstarted
<1>7. CASE FinishFailed(k)
  BY <1>7 DEF FinishFailed, Uncertain
<1>8. CASE FinishAccepted(k)
  BY <1>8 DEF FinishAccepted, Acknowledges, Proof, InQueue
<1>9. CASE Restore(k)
  BY <1>9 DEF Restore
<1>10. CASE ResumeQueued(k)
  BY <1>10 DEF ResumeQueued, TakeCarrier, MayDispatch
<1>11. CASE PassEnds(k)
  BY <1>11 DEF PassEnds, MayDispatch
<1> QED BY <1>1, <1>2, <1>3, <1>4, <1>5, <1>6, <1>7, <1>8, <1>9, <1>10, <1>11

\* The worker of a carrier.
LEMMA WorkerKeeps ==
  ASSUME IInv, NEW k \in Attempts,
         StartWork(k) \/ Acquire(k) \/ CallAI(k) \/ Leave(k) \/
         EndOperation(k) \/ RecordEnd(k)
  PROVE  IInv'
<1> USE TokensAssumption DEF IInv, TypeOK, Quiet, Registers, OneWindow, Claimable, Window,
      OneWay, Cancelled, Roles, Handed, Attempts, Stages, Ended, Go, Turn, receipt, business, history
<1>1. CASE StartWork(k)
  BY <1>1 DEF StartWork, MayStart
<1>2. CASE Acquire(k)
  BY <1>2 DEF Acquire
<1>3. CASE CallAI(k)
  BY <1>3 DEF CallAI
<1>4. CASE Leave(k)
  <2>1. CASE task[k] = "working"
    BY <1>4, <2>1 DEF Leave
  <2>2. CASE task[k] # "working"
    <3>1. owned' = owned
      BY <1>4, <2>2 DEF Leave
    <3> QED BY <1>4, <2>2, <3>1 DEF Leave
  <2> QED BY <2>1, <2>2
<1>5. CASE EndOperation(k)
  BY <1>5 DEF EndOperation
<1>6. CASE RecordEnd(k)
  <2>1. CASE owner = k /\ Ended
    BY <1>6, <2>1 DEF RecordEnd
  <2>2. CASE ~(owner = k /\ Ended)
    BY <1>6, <2>2 DEF RecordEnd
  <2> QED BY <2>1, <2>2
<1> QED BY <1>1, <1>2, <1>3, <1>4, <1>5, <1>6

\* The queue, the redeliveries' corrections, cancellations, recovery and the operator.
LEMMA OthersKeep ==
  ASSUME IInv,
         Downgrade \/ Converge \/ RowStarts \/ RowEnds \/ CancelQueued \/
         CancelRow \/ Recover \/ OwnershipLapses \/ CloseAdmission \/
         ResolveTerminal \/ ResolveAccepted \/ ResolveUnstarted
  PROVE  IInv'
<1> USE TokensAssumption DEF IInv, TypeOK, Quiet, Registers, OneWindow, Claimable, Window,
      OneWay, Cancelled, Roles, Handed, Attempts, Stages, Ended, Go, Turn, receipt, business, history
<1>1. CASE Downgrade
  BY <1>1 DEF Downgrade
<1>2. CASE Converge
  BY <1>2 DEF Converge
<1>3. CASE RowStarts
  BY <1>3 DEF RowStarts
<1>4. CASE RowEnds
  BY <1>4 DEF RowEnds
<1>5. CASE CancelQueued
  BY <1>5 DEF CancelQueued, MayDispatch
<1>6. CASE CancelRow
  BY <1>6 DEF CancelRow, Compensated, Unstarted
<1>7. CASE Recover
  BY <1>7 DEF Recover, Abandoned
<1>8. CASE OwnershipLapses
  <2>1. owned' \in BOOLEAN
    BY <1>8 DEF OwnershipLapses
  <2> QED BY <1>8, <2>1 DEF OwnershipLapses
<1>9. CASE CloseAdmission
  BY <1>9 DEF CloseAdmission
<1>10. CASE ResolveTerminal
  BY <1>10 DEF ResolveTerminal, Resolvable, Resolve
<1>11. CASE ResolveAccepted
  BY <1>11 DEF ResolveAccepted, Resolvable, Resolve
<1>12. CASE ResolveUnstarted
  BY <1>12 DEF ResolveUnstarted, Unstarted, Resolvable, Resolve
<1> QED BY <1>1, <1>2, <1>3, <1>4, <1>5, <1>6, <1>7, <1>8, <1>9, <1>10, <1>11, <1>12

\* A crash with the startup pass that follows it.
LEMMA CrashKeeps ==
  ASSUME IInv, NEW p \in Passes, Crash(p)
  PROVE  IInv'
<1>1. /\ \A k \in Attempts : task'[k] = "none"
      /\ \A k \in Attempts : pc'[k] \in {"scanning", "unused", "gone"}
      /\ UNCHANGED <<status, owner, carrier, response, op, called, owned, row, acted, started>>
  BY DEF Crash, receipt, business, history
<1>2. TypeOK'
  <2>1. pc' \in [Attempts -> Stages] /\ task' \in [Attempts -> {"none", "queued", "running", "working", "leaving", "recording"}]
    BY DEF Crash, Stages
  <2>2. closed' \in BOOLEAN
    BY DEF Crash
  <2> QED BY <1>1, <2>1, <2>2 DEF IInv, TypeOK
<1>3. (Quiet /\ Registers /\ OneWindow /\ Claimable)'
  BY <1>1 DEF IInv, Quiet, Registers, OneWindow, Claimable
<1>4. (Window /\ OneWay /\ Cancelled /\ Handed)'
  BY <1>1 DEF IInv, Window, OneWay, Cancelled, Handed, Ended
<1>5. Roles'
  BY <1>1 DEF Roles, Attempts
<1> QED BY <1>2, <1>3, <1>4, <1>5 DEF IInv

\* A stuttering step keeps the invariant.
LEMMA StutterKeeps == ASSUME IInv, UNCHANGED vars PROVE IInv'
BY DEF vars, IInv, TypeOK, Quiet, Registers, OneWindow, Claimable, Window,
  OneWay, Cancelled, Roles, Handed, Attempts, Stages, Ended, receipt, business, history

\* Every step of attempts, workers, operators and crashes keeps the
\* invariant.
LEMMA StepKeeps == ASSUME IInv, [Next]_vars PROVE IInv'
<1>1. ASSUME NEW k \in Deliveries,
             ClaimNew(k) \/ ClaimRetry(k) \/ ClaimQueued(k) \/ HandlerFails(k)
      PROVE  IInv'
  BY <1>1, ClaimKeeps
<1>2. ASSUME NEW k \in Attempts, Handle(k) PROVE IInv'
  BY <1>2, HandlerKeeps DEF Handle
<1>3. ASSUME NEW k \in Attempts, Work(k) PROVE IInv'
  BY <1>3, WorkerKeeps DEF Work
<1> QED BY <1>1, <1>2, <1>3, OthersKeep, CrashKeeps, StutterKeeps DEF Next

\* The inductive invariant, which relates receipt, carrier, task and window
\* of effects.
THEOREM Invariance == Spec => []IInv
<1> QED BY InitIInv, StepKeeps, PTL DEF Spec

\* Every variable keeps its type, and what was handed over was registered.
THEOREM TypeCorrect == Spec => []TypeOK
<1>1. IInv => TypeOK
  BY DEF IInv
<1> QED BY <1>1, Invariance, PTL

\* _finish leaves a receipt to be run again only while nothing was done.
THEOREM RetrySafe == Spec => []RetryIsSafe
<1>1. IInv => RetryIsSafe
  BY DEF IInv, Claimable, Quiet, RetryIsSafe
<1> QED BY <1>1, Invariance, PTL
-----------------------------------------------------------------------------
\* No step touches a cancelled delivery or starts its work.
LEMMA CancelledStep ==
  ASSUME IInv, [Next]_vars, response = "cancelled"
  PROVE  UNCHANGED <<receipt, started>>
<1>0. /\ status = "accepted" /\ owner = Nobody /\ carrier \in {"none", "terminal"}
      /\ Ended \/ row = "none"
  BY DEF IInv, Cancelled, Quiet
<1> USE <1>0, TokensAssumption DEF receipt, business, history, Attempts
<1>1. ASSUME NEW k \in Deliveries,
             ClaimNew(k) \/ ClaimRetry(k) \/ ClaimQueued(k) \/ HandlerFails(k)
      PROVE  UNCHANGED <<receipt, started>>
  BY <1>1 DEF ClaimNew, ClaimRetry, ClaimQueued, HandlerFails, TakeCarrier, MayDispatch
<1>2. ASSUME NEW k \in Attempts, Handle(k) PROVE UNCHANGED <<receipt, started>>
  <2>1. CASE Reject(k) \/ Admit(k) \/ BeginEffects(k) \/ Enqueue(k) \/ Prepare(k) \/ Submit(k)
    BY <2>1 DEF Reject, Admit, BeginEffects, MayAct, Enqueue, Prepare, MayPrepare, Submit
  <2>2. CASE FinishFailed(k) \/ FinishAccepted(k) \/ Restore(k)
    BY <2>2 DEF FinishFailed, FinishAccepted, Acknowledges, Restore
  <2>3. CASE ResumeQueued(k) \/ PassEnds(k)
    BY <2>3 DEF ResumeQueued, TakeCarrier, MayDispatch, PassEnds
  <2> QED BY <1>2, <2>1, <2>2, <2>3 DEF Handle
<1>3. ASSUME NEW k \in Attempts, Work(k) PROVE UNCHANGED <<receipt, started>>
  BY <1>3 DEF Work, StartWork, MayStart, Acquire, CallAI, Leave, EndOperation, RecordEnd
<1>4. CASE Downgrade \/ Converge \/ RowStarts \/ RowEnds \/ CancelQueued \/ CancelRow
  BY <1>4 DEF Downgrade, Converge, RowStarts, RowEnds, CancelQueued, MayDispatch, CancelRow, Ended
<1>5. CASE Recover \/ OwnershipLapses \/ CloseAdmission \/ \E p \in Passes : Crash(p)
  BY <1>5 DEF Recover, Abandoned, OwnershipLapses, CloseAdmission, Crash
<1>6. CASE ResolveTerminal \/ ResolveAccepted \/ ResolveUnstarted
  BY <1>6 DEF ResolveTerminal, ResolveAccepted, ResolveUnstarted, Resolvable
<1>7. CASE UNCHANGED vars
  BY <1>7 DEF vars
<1> QED BY <1>1, <1>2, <1>3, <1>4, <1>5, <1>6, <1>7 DEF Next

\* The rotated owner token keeps every late handler, worker and pass away from
\* a cancelled delivery.
THEOREM CancellationIsFinal == Spec => CancelledIsFinal
<1>1. IInv /\ [Next]_vars => [response = "cancelled" => UNCHANGED <<receipt, started>>]_vars
  BY CancelledStep
<1> QED BY <1>1, Invariance, PTL DEF Spec, CancelledIsFinal
-----------------------------------------------------------------------------
\* A delivery begins as DeliveryPromise does.
LEMMA Begins == Init => Promise!PInit
BY DEF Init, Promise!PInit, Ended

\* Every step is one of DeliveryPromise or leaves what it speaks of.
LEMMA StepPromised ==
  ASSUME IInv, [Next]_vars
  PROVE  [Promise!PNext]_(Promise!pvars)
<1> SUFFICES Promise!Act \/ Promise!Begin \/ Promise!End
             \/ UNCHANGED <<acted, started, Ended>>
  BY DEF Promise!PNext, Promise!pvars
<1> USE DEF receipt, business, history, Attempts, Ended
<1>1. ASSUME NEW k \in Deliveries,
             ClaimNew(k) \/ ClaimRetry(k) \/ ClaimQueued(k) \/ HandlerFails(k)
      PROVE  Promise!End \/ UNCHANGED <<acted, started, Ended>>
  BY <1>1 DEF ClaimNew, ClaimRetry, ClaimQueued, HandlerFails, TakeCarrier, Compensated, Promise!End
<1>2. ASSUME NEW k \in Attempts, Handle(k), ~BeginEffects(k)
      PROVE  Promise!End \/ UNCHANGED <<acted, started, Ended>>
  <2>1. CASE Reject(k) \/ Admit(k) \/ Enqueue(k) \/ Prepare(k) \/ Submit(k)
    BY <2>1 DEF Reject, Admit, Registered, Enqueue, Prepare, Submit, Compensated, Promise!End
  <2>2. CASE FinishFailed(k) \/ FinishAccepted(k) \/ Restore(k)
    BY <2>2 DEF FinishFailed, FinishAccepted, Restore
  <2>3. CASE ResumeQueued(k) \/ PassEnds(k)
    BY <2>3 DEF ResumeQueued, TakeCarrier, PassEnds
  <2> QED BY <1>2, <2>1, <2>2, <2>3 DEF Handle
<1>3. ASSUME NEW k \in Attempts, BeginEffects(k)
      PROVE  Promise!Act \/ UNCHANGED <<acted, started, Ended>>
  <2>1. CASE MayAct(k)
    <3>1. acted = {} /\ k \in Deliveries
      BY <1>3, <2>1 DEF BeginEffects, MayAct, IInv, OneWindow, Roles
    <3> QED BY <1>3, <2>1, <3>1 DEF BeginEffects, Promise!Act
  <2>2. CASE ~MayAct(k)
    BY <1>3, <2>2 DEF BeginEffects
  <2> QED BY <2>1, <2>2
<1>4. ASSUME NEW k \in Attempts, StartWork(k)
      PROVE  Promise!Begin \/ UNCHANGED <<acted, started, Ended>>
  <2>1. CASE MayStart(k) /\ ~closed
    <3>1. started = {}
      BY <2>1 DEF MayStart, IInv, OneWay
    <3> QED BY <1>4, <2>1, <3>1 DEF StartWork, MayStart, Promise!Begin
  <2>2. CASE ~(MayStart(k) /\ ~closed)
    BY <1>4, <2>2 DEF StartWork
  <2> QED BY <2>1, <2>2
<1>5. ASSUME NEW k \in Attempts, Work(k), ~StartWork(k)
      PROVE  Promise!End \/ UNCHANGED <<acted, started, Ended>>
  BY <1>5 DEF Work, Acquire, CallAI, Leave, EndOperation, RecordEnd, Promise!End
<1>6. CASE RowStarts
  <2>1. started = {}
    BY <1>6 DEF RowStarts, IInv, OneWay
  <2> QED BY <1>6, <2>1 DEF RowStarts, Promise!Begin
<1>7. CASE Downgrade \/ Converge \/ RowEnds \/ CancelQueued \/ CancelRow \/ Recover
  BY <1>7 DEF Downgrade, Converge, RowEnds, CancelQueued, CancelRow, Compensated, Recover, Abandoned, Promise!End
<1>8. CASE OwnershipLapses \/ CloseAdmission \/ \E p \in Passes : Crash(p)
  BY <1>8 DEF OwnershipLapses, CloseAdmission, Crash
<1>9. CASE ResolveTerminal \/ ResolveAccepted \/ ResolveUnstarted
  BY <1>9 DEF ResolveTerminal, ResolveAccepted, ResolveUnstarted, Resolve, Promise!End
<1>10. CASE UNCHANGED vars
  BY <1>10 DEF vars
<1> QED BY <1>1, <1>2, <1>3, <1>4, <1>5, <1>6, <1>7, <1>8, <1>9, <1>10 DEF Next

\* The receipts implement their promise: one window, one execution, none after
\* the end.
THEOREM OnceAtMost == Spec => AtMostOnce
<1> QED BY Begins, StepPromised, Invariance, PTL DEF Spec, AtMostOnce, Promise!PSpec
-----------------------------------------------------------------------------
\* What `AcknowledgedIsSettled` rests on: somebody is always left who settles
\* what was queued or acknowledged.

\* Nothing has run, or holds an ownership, of a review that never began.
Unbegun ==
  started = {} =>
    /\ ~called /\ ~owned
    /\ \A k \in Attempts : task[k] \notin {"running", "working"}

\* The owner of a receipt an operator vouched for came after the operator.
Vouched ==
  response = "handoff" =>
    /\ status # "absent"
    /\ \A k \in Attempts :
         owner = k => pc[k] \in {"restoring", "resuming", "acknowledging", "gone"}

\* What was handed over or acknowledged is registered.
Acknowledged ==
  /\ response = "accepted" => op # "absent"
  /\ \A k \in Attempts : pc[k] = "handed" => op # "absent"

\* The attempt k will take a queued carrier on: its pass has still to look, or
\* the receipt is its own and its handler or its worker is about to go on.
Carries(k) ==
  \/ pc[k] = "scanning"
  \/ owner = k /\ (pc[k] \in {"prepared", "restoring", "resuming"} \/ task[k] = "queued")

\* A queued carrier has somebody to take it on.
Carried ==
  carrier = "queued" /\ op = "open" /\ ~closed /\ response # "handoff"
    => \E k \in Attempts : Carries(k)

Pursuit == Unbegun /\ Vouched /\ Acknowledged /\ Carried

\* A delivery that was queued or acknowledged is settled, was vouched for by an
\* operator or waits for the next start of the process, or it is pursued: by an
\* attempt, the queue of increments or a live execution, or it is abandoned, which
\* is what the recovery of bills looks for when an administrator runs it.
Pursued ==
  carrier = "queued" \/ (status = "accepted" /\ response = "accepted") =>
    \/ Ended \/ response = "handoff" \/ closed
    \/ \E k \in Attempts : Carries(k)
    \/ row # "none" \/ owned \/ Abandoned

\* Nobody has anything to pursue before the first arrival.
LEMMA InitPursuit == Init => Pursuit
BY DEF Init, Pursuit, Unbegun, Vouched, Acknowledged, Carried

\* The claims of a delivery or a redelivery keep the pursuit.
LEMMA ClaimPursues ==
  ASSUME IInv, Pursuit, NEW k \in Deliveries,
         ClaimNew(k) \/ ClaimRetry(k) \/ ClaimQueued(k) \/ HandlerFails(k)
  PROVE  Pursuit'
<1> USE TokensAssumption DEF Pursuit, Unbegun, Vouched, Acknowledged, Carried, Carries,
      IInv, TypeOK, Attempts, Ended, Go, Turn, receipt, business, history
<1>1. CASE ClaimNew(k)
  BY <1>1 DEF ClaimNew, Quiet, Claimable
<1>2. CASE ClaimRetry(k)
  BY <1>2 DEF ClaimRetry, Quiet, Claimable
<1>3. CASE ClaimQueued(k)
  BY <1>3 DEF ClaimQueued, TakeCarrier, MayDispatch
<1>4. CASE HandlerFails(k)
  BY <1>4 DEF HandlerFails, Compensated, Unstarted
<1> QED BY <1>1, <1>2, <1>3, <1>4

\* The handler hands a carrier from one to the next, and a pass leaves only
\* when there is none.
LEMMA HandlerPursues ==
  ASSUME IInv, Pursuit, NEW k \in Attempts, Handle(k)
  PROVE  Pursuit'
<1> USE TokensAssumption DEF Pursuit, Unbegun, Vouched, Acknowledged, Carried, Carries,
      IInv, TypeOK, Attempts, Ended, Go, Turn, receipt, business, history
<1>1. CASE Reject(k)
  BY <1>1 DEF Reject, Quiet, OneWindow
<1>2. CASE Admit(k)
  BY <1>2 DEF Admit, Registered, Quiet, OneWindow
<1>3. CASE BeginEffects(k)
  BY <1>3 DEF BeginEffects, MayAct
<1>4. CASE Enqueue(k)
  BY <1>4 DEF Enqueue, Registers, Window
<1>5. CASE Prepare(k)
  BY <1>5 DEF Prepare, Registered, MayPrepare
<1>6. CASE Submit(k)
  BY <1>6 DEF Submit, Compensated, Unstarted, Handed
<1>7. CASE FinishFailed(k)
  BY <1>7 DEF FinishFailed
<1>8. CASE FinishAccepted(k)
  BY <1>8 DEF FinishAccepted, Acknowledges
<1>9. CASE Restore(k)
  BY <1>9 DEF Restore
<1>10. CASE ResumeQueued(k)
  BY <1>10 DEF ResumeQueued, TakeCarrier, MayDispatch
<1>11. CASE PassEnds(k)
  BY <1>11 DEF PassEnds, MayDispatch, OneWay
<1> QED BY <1>1, <1>2, <1>3, <1>4, <1>5, <1>6, <1>7, <1>8, <1>9, <1>10, <1>11 DEF Handle

\* A worker leaves a queued carrier only to the one who took it over.
LEMMA WorkerPursues ==
  ASSUME IInv, Pursuit, NEW k \in Attempts, Work(k)
  PROVE  Pursuit'
<1> USE TokensAssumption DEF Pursuit, Unbegun, Vouched, Acknowledged, Carried, Carries,
      IInv, TypeOK, Attempts, Ended, Go, Turn, receipt, business, history
<1>1. CASE StartWork(k)
  BY <1>1 DEF StartWork, MayStart
<1>2. CASE Acquire(k)
  BY <1>2 DEF Acquire
<1>3. CASE CallAI(k)
  BY <1>3 DEF CallAI
<1>4. CASE Leave(k)
  BY <1>4 DEF Leave
<1>5. CASE EndOperation(k)
  BY <1>5 DEF EndOperation
<1>6. CASE RecordEnd(k)
  BY <1>6 DEF RecordEnd
<1> QED BY <1>1, <1>2, <1>3, <1>4, <1>5, <1>6 DEF Work

\* So do the queue, the corrections, cancellations, recovery and the operator.
LEMMA OthersPursue ==
  ASSUME IInv, Pursuit,
         Downgrade \/ Converge \/ RowStarts \/ RowEnds \/ CancelQueued \/
         CancelRow \/ Recover \/ OwnershipLapses \/ CloseAdmission \/
         ResolveTerminal \/ ResolveAccepted \/ ResolveUnstarted
  PROVE  Pursuit'
<1> USE TokensAssumption DEF Pursuit, Unbegun, Vouched, Acknowledged, Carried, Carries,
      IInv, TypeOK, Attempts, Ended, receipt, business, history
<1>1. CASE Downgrade
  BY <1>1 DEF Downgrade
<1>2. CASE Converge
  BY <1>2 DEF Converge
<1>3. CASE RowStarts
  BY <1>3 DEF RowStarts
<1>4. CASE RowEnds
  BY <1>4 DEF RowEnds
<1>5. CASE CancelQueued
  BY <1>5 DEF CancelQueued, MayDispatch
<1>6. CASE CancelRow
  BY <1>6 DEF CancelRow, Compensated, Unstarted
<1>7. CASE Recover
  BY <1>7 DEF Recover, Abandoned
<1>8. CASE OwnershipLapses
  BY <1>8 DEF OwnershipLapses
<1>9. CASE CloseAdmission
  BY <1>9 DEF CloseAdmission
<1>10. CASE ResolveTerminal
  BY <1>10 DEF ResolveTerminal, Resolvable, Resolve
<1>11. CASE ResolveAccepted
  BY <1>11 DEF ResolveAccepted, Resolvable, Resolve
<1>12. CASE ResolveUnstarted
  BY <1>12 DEF ResolveUnstarted, Unstarted, Resolvable, Resolve
<1> QED BY <1>1, <1>2, <1>3, <1>4, <1>5, <1>6, <1>7, <1>8, <1>9, <1>10, <1>11, <1>12

\* A crash loses every task and handler; the pass of the next start looks for
\* the carriers they leave.
LEMMA CrashPursues ==
  ASSUME IInv, Pursuit, NEW p \in Passes, Crash(p)
  PROVE  Pursuit'
<1>1. /\ pc'[p] = "scanning" /\ p \in Attempts
      /\ \A k \in Attempts : task'[k] = "none"
      /\ \A k \in Attempts : pc'[k] \in {"scanning", "unused", "gone"}
      /\ UNCHANGED <<status, owner, carrier, response, op, called, owned, row, acted, started>>
  BY DEF Crash, receipt, business, history, Attempts
<1>2. Carried'
  BY <1>1 DEF Carried, Carries
<1>3. (Unbegun /\ Acknowledged)'
  BY <1>1 DEF Pursuit, Unbegun, Acknowledged
<1>4. Vouched'
  <2> SUFFICES ASSUME response = "handoff", NEW k \in Attempts, owner = k
               PROVE  pc'[k] = "gone"
    BY <1>1 DEF Pursuit, Vouched
  <2>1. pc[k] \in {"restoring", "resuming", "acknowledging", "gone"}
    BY DEF Pursuit, Vouched
  <2>2. k # p
    BY <2>1 DEF Crash
  <2> QED BY <2>1, <2>2 DEF Crash
<1> QED BY <1>2, <1>3, <1>4 DEF Pursuit

\* Every step keeps the pursuit.
LEMMA StepPursues == ASSUME IInv, Pursuit, [Next]_vars PROVE Pursuit'
<1>1. ASSUME NEW k \in Deliveries,
             ClaimNew(k) \/ ClaimRetry(k) \/ ClaimQueued(k) \/ HandlerFails(k)
      PROVE  Pursuit'
  BY <1>1, ClaimPursues
<1>2. ASSUME NEW k \in Attempts, Handle(k) \/ Work(k) PROVE Pursuit'
  BY <1>2, HandlerPursues, WorkerPursues
<1>3. CASE UNCHANGED vars
  BY <1>3 DEF vars, Pursuit, Unbegun, Vouched, Acknowledged, Carried, Carries, receipt, business, history
<1> QED BY <1>1, <1>2, <1>3, OthersPursue, CrashPursues DEF Next

\* At no moment is a queued or acknowledged delivery without somebody who
\* settles it, whatever was cancelled, taken over or lost in a crash.
THEOREM NeverLost == Spec => []Pursued
<1>1. IInv /\ Pursuit => Pursued
  BY DEF IInv, TypeOK, Pursuit, Acknowledged, Carried, Pursued, Abandoned, Ended
<1>2. Spec => []Pursuit
  BY InitPursuit, StepPursues, Invariance, PTL DEF Spec
<1> QED BY <1>1, <1>2, Invariance, PTL
=============================================================================

---------------------------- MODULE Billing_proofs ----------------------------
(***************************************************************************)
(* Proofs about BillingOperation, for any number of operations and calls,  *)
(* any costs and any funds, and about PaymentRefund, for every set of      *)
(* attempts and refunds and every price.  Of the operations first the      *)
(* attempts, where results, reviews and policies decide, then the money:   *)
(* what is charged, reserved and left in the wallet.  Of the refunds first *)
(* which refund is whose, then what was paid back and what is shown.       *)
(***************************************************************************)
EXTENDS BillingOperation, PaymentRefund, BillingLedger_proofs

\* What the attempts look like: a call has a state when it has an operation, and
\* no record before it has a result, and one when it is known.
Shape ==
  /\ outcome \in [Operations -> {"absent", "open"} \cup Terminal]
  /\ policy \in [Operations -> Policies]
  /\ DOMAIN reserve = Operations /\ DOMAIN settled = Operations
  /\ callOf \in [Calls -> Operations \cup {"none"}]
  /\ state \in [Calls -> {"none", "started", "pending", "known"}]
  /\ record \in [Calls -> Kinds \cup {"none"}]
  /\ inflight \subseteq Calls
  /\ \A c \in Calls :
       /\ callOf[c] = "none" <=> state[c] = "none"
       /\ state[c] \in {"none", "started"} => record[c] = "none"
       /\ state[c] = "known" => record[c] # "none"
  /\ \A c \in inflight : callOf[c] # "none"

IInv == Shape /\ ClosedHoldsNothing /\ NothingForgotten

-----------------------------------------------------------------------------
\* What every settlement guarantees of the operation it settles.
LEMMA Settled ==
  ASSUME NEW o \in Operations, Shape, Shape', Settle(o), policy' = policy
  PROVE  /\ \A p \in Operations : p # o => reserve'[p] = reserve[p] /\ settled'[p] = settled[p]
         /\ \A p \in Operations : p # o => (p \in pending <=> p \in pending')
         /\ quoted \subseteq quoted'
         /\ outcome'[o] # "open" => reserve'[o] = 0
         /\ settled'[o] # settled[o] =>
              policy[o].charging /\ (outcome'[o] = "completed" \/ policy[o].failed)
         /\ o \notin pending' =>
              \A c \in CallsOf(o)' : state'[c] = "known" /\ <<c, record'[c]>> \in quoted'
<1> DEFINE total == SumOf(o, Quotes(o), usage')
           due == IF outcome'[o] # "open" THEN Due(o, total) ELSE settled[o]
<1>1. /\ reserve' = [reserve EXCEPT ![o] = Kept(o, total)]
      /\ settled' = [settled EXCEPT ![o] = due]
      /\ pending' = IF Uncertain(o) THEN pending \cup {o} ELSE pending \ {o}
      /\ quoted' = quoted \cup Quotes(o)
  BY DEF Settle
<1>2. DOMAIN reserve = Operations /\ DOMAIN settled = Operations
  BY DEF Shape
<1>3. \A p \in Operations : p # o => reserve'[p] = reserve[p] /\ settled'[p] = settled[p]
  <2> HIDE DEF total, due
  <2> QED BY <1>1, <1>2
<1>4. \A p \in Operations : p # o => (p \in pending <=> p \in pending')
  BY <1>1
<1>5. outcome'[o] # "open" => reserve'[o] = 0
  <2>1. reserve'[o] = Kept(o, total)
    <3> HIDE DEF total
    <3> QED BY <1>1, <1>2
  <2>2. outcome'[o] # "open" => Kept(o, total) = 0
    <3> HIDE DEF total
    <3> QED BY DEF Kept
  <2> QED BY <2>1, <2>2
<1>6. settled'[o] # settled[o] => policy[o].charging /\ (outcome'[o] = "completed" \/ policy[o].failed)
  <2>1. settled'[o] = due
    <3> HIDE DEF due
    <3> QED BY <1>1, <1>2
  <2>2. due # settled[o] => Due(o, total) # settled[o]
    OBVIOUS
  <2>3. Due(o, total) # settled[o] => policy[o].charging /\ (outcome'[o] = "completed" \/ policy[o].failed)
    <3> HIDE DEF total
    <3> QED BY DEF Due
  <2> QED BY <2>1, <2>2, <2>3
<1>7. ASSUME o \notin pending', NEW c \in CallsOf(o)'
      PROVE  state'[c] = "known" /\ <<c, record'[c]>> \in quoted'
  <2>1. ~Uncertain(o)
    BY <1>1, <1>7
  <2>2. state'[c] \notin Unresolved /\ Selected(o)' \subseteq quoted'
    BY <2>1, <1>1, <1>7 DEF Uncertain
  <2>3. c \in Calls /\ callOf'[c] = o
    BY <1>7 DEF CallsOf
  <2>4. state'[c] \in {"none", "started", "pending", "known"} /\ state'[c] # "none"
    BY <2>3, OperationAssumption DEF Shape
  <2>5. state'[c] = "known"
    BY <2>2, <2>4 DEF Unresolved
  <2>6. record'[c] \in Kinds
    BY <2>3, <2>5 DEF Shape
  <2>7. <<c, record'[c]>> \in Selected(o)'
    BY <2>3, <2>6 DEF Selected, Records
  <2> QED BY <2>2, <2>5, <2>7
<1> QED BY <1>1, <1>3, <1>4, <1>5, <1>6, <1>7

-----------------------------------------------------------------------------
\* The invariant holds before any operation is registered.
LEMMA Initially == Init => IInv
<1> SUFFICES ASSUME Init PROVE IInv
  OBVIOUS
<1>1. Shape
  BY DEF Init, Shape, Terminal, Kinds
<1>2. Closed = {}
  BY DEF Init, Closed, Terminal
<1> QED BY <1>1, <1>2 DEF IInv, ClosedHoldsNothing, NothingForgotten

\* One step of the calls: the shape is kept whatever the amounts are.
LEMMA ShapeKept == Shape /\ [Next]_vars => Shape'
<1> SUFFICES ASSUME Shape, [Next]_vars PROVE Shape'
  OBVIOUS
<1> USE OperationAssumption
<1>0. ASSUME NEW o \in Operations, Settle(o)
      PROVE  DOMAIN reserve' = Operations /\ DOMAIN settled' = Operations
  BY <1>0 DEF Settle, Shape
<1>1. ASSUME NEW o \in Operations, Register(o) PROVE Shape'
  BY <1>1 DEF Register, Shape, calls, Terminal
<1>2. ASSUME NEW o \in Operations, Resume(o) PROVE Shape'
  BY <1>2 DEF Resume, Shape, calls, money, Terminal
<1>3. ASSUME NEW o \in Operations, Recover(o) PROVE Shape'
  <2>1. Settle(o)
    BY <1>3 DEF Recover
  <2> QED BY <1>3, <2>1, <1>0 DEF Recover, Shape, Terminal
<1>4. ASSUME NEW o \in Operations, Expire(o) \/ Refresh(o) \/ Spare(o) PROVE Shape'
  BY <1>4 DEF Expire, Refresh, Spare, Shape, calls, money
<1>5. ASSUME NEW o \in Operations, NEW out \in Terminal, FinishOperation(o, out) PROVE Shape'
  <2>1. Settle(o)
    BY <1>5 DEF FinishOperation
  <2> QED BY <1>5, <2>1, <1>0 DEF FinishOperation, Shape, calls
<1>6. ASSUME NEW o \in Operations, NEW c \in Calls, StartCall(c, o) PROVE Shape'
  <2>1. record[c] = "none"
    BY <1>6 DEF StartCall, Shape
  <2> QED BY <1>6, <2>1 DEF StartCall, Shape, money
<1>7. ASSUME NEW c \in Calls, CallLost(c) PROVE Shape'
  BY <1>7 DEF CallLost, Shape, money, closing
<1>11. CASE HoldRefund \/ ReleaseRefund
  BY <1>11 DEF HoldRefund, ReleaseRefund, Shape, closing, calls
<1>8. ASSUME NEW c \in Calls, NEW cost, NEW result, FinishCall(c, cost, result) PROVE Shape'
  <2>1. callOf[c] \in Operations /\ Settle(callOf[c])
    BY <1>8 DEF FinishCall, Shape
  <2>2. DOMAIN reserve' = Operations /\ DOMAIN settled' = Operations
    BY <2>1, <1>0
  <2>3. CASE record[c] = "reviewed"
    BY <1>8, <2>2, <2>3 DEF FinishCall, Shape, closing
  <2>4. CASE record[c] # "reviewed"
    BY <1>8, <2>2, <2>4 DEF FinishCall, Shape, closing, Kinds
  <2> QED BY <2>3, <2>4
<1>9. ASSUME NEW c \in Calls, NEW cost, NEW result, Reconcile(c, cost, result) PROVE Shape'
  <2>1. callOf[c] \in Operations /\ Settle(callOf[c])
    BY <1>9 DEF Reconcile, Shape, Closed
  <2>2. DOMAIN reserve' = Operations /\ DOMAIN settled' = Operations
    BY <2>1, <1>0
  <2> QED BY <1>9, <2>1, <2>2 DEF Reconcile, Shape, closing, Kinds
<1>10. CASE UNCHANGED vars
  BY <1>10 DEF vars, money, closing, calls, Shape
<1> QED BY <1>1, <1>2, <1>3, <1>4, <1>5, <1>6, <1>7, <1>8, <1>9, <1>10, <1>11 DEF Next

-----------------------------------------------------------------------------
\* The four properties concern ended operations; a step that settles o leaves
\* the others alone.
LEMMA SettledKeeps ==
  ASSUME NEW o \in Operations, IInv, Shape', Settle(o), policy' = policy,
         outcome' = [outcome EXCEPT ![o] = outcome'[o]], callOf' = callOf,
         \A c \in Calls : callOf[c] # o => state'[c] = state[c] /\ record'[c] = record[c]
  PROVE  ClosedHoldsNothing' /\ NothingForgotten'
<1>1. /\ \A p \in Operations : p # o => reserve'[p] = reserve[p]
      /\ \A p \in Operations : p # o => (p \in pending <=> p \in pending')
      /\ quoted \subseteq quoted'
      /\ outcome'[o] # "open" => reserve'[o] = 0
      /\ o \notin pending' =>
           \A c \in CallsOf(o)' : state'[c] = "known" /\ <<c, record'[c]>> \in quoted'
  BY Settled DEF IInv
<1>2. \A p \in Operations : p # o => (p \in Closed <=> p \in Closed')
  BY DEF Closed, IInv, Shape
<1>3. o \in Closed' => outcome'[o] # "open"
  BY DEF Closed, Terminal
<1>4. ClosedHoldsNothing'
  BY <1>1, <1>2, <1>3 DEF ClosedHoldsNothing, IInv, Closed
<1>5. ASSUME NEW p \in Closed', p \notin pending', NEW c \in CallsOf(p)'
      PROVE  state'[c] = "known" /\ <<c, record'[c]>> \in quoted'
  <2>1. CASE p = o
    BY <1>1, <1>5, <2>1
  <2>2. CASE p # o
    <3>1. p \in Closed /\ p \notin pending
      BY <1>1, <1>2, <1>5, <2>2 DEF Closed
    <3>2. c \in Calls /\ callOf[c] = p /\ c \in CallsOf(p)
      BY <1>5 DEF CallsOf
    <3>3. state[c] = "known" /\ <<c, record[c]>> \in quoted
      BY <3>1, <3>2 DEF IInv, NothingForgotten
    <3> QED BY <3>2, <3>3, <2>2, <1>1
  <2> QED BY <2>1, <2>2
<1> QED BY <1>4, <1>5 DEF NothingForgotten

\* A step that settles nothing and ends no operation: what was closed and is
\* still closed has the calls and the reserve it had.
LEMMA UnsettledKeeps ==
  ASSUME IInv, pending' = pending, quoted' = quoted,
         \A p \in Closed' : /\ p \in Closed
                            /\ reserve'[p] = reserve[p]
                            /\ CallsOf(p)' = CallsOf(p)
                            /\ \A c \in CallsOf(p) : state'[c] = state[c] /\ record'[c] = record[c]
  PROVE  ClosedHoldsNothing' /\ NothingForgotten'
<1>1. ClosedHoldsNothing'
  BY DEF IInv, ClosedHoldsNothing
<1>2. NothingForgotten'
  BY DEF IInv, NothingForgotten
<1> QED BY <1>1, <1>2

\* Every handler, settlement and recovery keeps the invariant.
LEMMA Preserved == IInv /\ [Next]_vars => IInv'
<1> SUFFICES ASSUME IInv, [Next]_vars PROVE ClosedHoldsNothing' /\ NothingForgotten'
  BY ShapeKept DEF IInv
<1> USE OperationAssumption
<1>s. Shape /\ Shape'
  BY ShapeKept DEF IInv
<1>1. ASSUME NEW o \in Operations, Register(o) PROVE ClosedHoldsNothing' /\ NothingForgotten'
  <2>1. pending' = pending /\ quoted' = quoted
    BY <1>1 DEF Register
  <2>2. \A p \in Closed' : p \in Closed /\ p # o
    BY <1>1, <1>s DEF Register, Closed, Terminal, Shape
  <2>3. \A p \in Closed' : reserve'[p] = reserve[p]
    <3> DEFINE units == IF policy[o].charging THEN InitialReserve ELSE 0
    <3>1. reserve' = [reserve EXCEPT ![o] = units]
      BY <1>1 DEF Register
    <3> HIDE DEF units
    <3> QED BY <3>1, <2>2, <1>s DEF Shape, Closed
  <2>4. callOf' = callOf /\ state' = state /\ record' = record
    BY <1>1 DEF Register, calls
  <2> QED BY <2>1, <2>2, <2>3, <2>4, UnsettledKeeps DEF CallsOf
<1>2. ASSUME NEW o \in Operations, Resume(o) PROVE ClosedHoldsNothing' /\ NothingForgotten'
  <2>1. UNCHANGED <<pending, quoted, reserve, callOf, state, record>>
    BY <1>2 DEF Resume, calls, money
  <2>2. \A p \in Closed' : p \in Closed
    BY <1>2, <1>s DEF Resume, Closed, Terminal, Shape
  <2> QED BY <2>1, <2>2, UnsettledKeeps DEF CallsOf
<1>3. ASSUME NEW o \in Operations, Recover(o) PROVE ClosedHoldsNothing' /\ NothingForgotten'
  <2>1. Settle(o) /\ policy' = policy /\ callOf' = callOf /\ record' = record
    BY <1>3 DEF Recover
  <2>2. outcome' = [outcome EXCEPT ![o] = outcome'[o]]
    BY <1>3, <1>s DEF Recover, Shape
  <2>3. \A c \in Calls : callOf[c] # o => state'[c] = state[c]
    BY <1>3 DEF Recover
  <2> QED BY <2>1, <2>2, <2>3, <1>s, SettledKeeps
<1>4. ASSUME NEW o \in Operations, Expire(o) \/ Refresh(o) \/ Spare(o)
      PROVE  ClosedHoldsNothing' /\ NothingForgotten'
  <2>1. UNCHANGED <<pending, quoted, reserve, outcome, callOf, state, record>>
    BY <1>4 DEF Expire, Refresh, Spare, calls, money
  <2>2. \A p \in Closed' : p \in Closed
    BY <2>1 DEF Closed
  <2> QED BY <2>1, <2>2, UnsettledKeeps DEF CallsOf
<1>5. ASSUME NEW o \in Operations, NEW out \in Terminal, FinishOperation(o, out)
      PROVE  ClosedHoldsNothing' /\ NothingForgotten'
  <2>1. Settle(o) /\ policy' = policy /\ UNCHANGED <<callOf, state, record>>
    BY <1>5 DEF FinishOperation, calls
  <2>2. outcome' = [outcome EXCEPT ![o] = outcome'[o]]
    BY <1>5, <1>s DEF FinishOperation, Shape
  <2> QED BY <2>1, <2>2, <1>s, SettledKeeps
<1>6. ASSUME NEW o \in Operations, NEW c \in Calls, StartCall(c, o)
      PROVE  ClosedHoldsNothing' /\ NothingForgotten'
  <2>1. UNCHANGED <<pending, quoted, reserve, outcome, record>>
    BY <1>6 DEF StartCall, money
  <2>2. \A p \in Closed' : p \in Closed /\ p # o /\ p # "none"
    BY <1>6, <2>1 DEF StartCall, Closed, Terminal
  <2>3. callOf[c] = "none" /\ callOf' = [callOf EXCEPT ![c] = o] /\ state' = [state EXCEPT ![c] = "started"]
    BY <1>6 DEF StartCall
  <2>4. \A p \in Closed' : CallsOf(p)' = CallsOf(p)
    BY <2>2, <2>3, <1>s DEF CallsOf, Shape
  <2>5. \A p \in Closed' : \A d \in CallsOf(p) : state'[d] = state[d]
    BY <2>2, <2>3, <1>s DEF CallsOf, Shape
  <2> QED BY <2>1, <2>2, <2>4, <2>5, UnsettledKeeps
<1>7. ASSUME NEW c \in Calls, CallLost(c) PROVE ClosedHoldsNothing' /\ NothingForgotten'
  <2>1. UNCHANGED <<pending, quoted, reserve, outcome, callOf, state, record>>
    BY <1>7 DEF CallLost, money, closing
  <2>2. \A p \in Closed' : p \in Closed
    BY <2>1 DEF Closed
  <2> QED BY <2>1, <2>2, UnsettledKeeps DEF CallsOf
<1>8. ASSUME NEW c \in Calls, NEW cost, NEW result, FinishCall(c, cost, result)
      PROVE  ClosedHoldsNothing' /\ NothingForgotten'
  <2>1. callOf[c] \in Operations /\ Settle(callOf[c]) /\ UNCHANGED <<policy, outcome, callOf>>
    BY <1>8, <1>s DEF FinishCall, Shape, closing
  <2>2. outcome' = [outcome EXCEPT ![callOf[c]] = outcome'[callOf[c]]]
    BY <2>1, <1>s DEF Shape
  <2>3. \A d \in Calls : d # c => state'[d] = state[d] /\ record'[d] = record[d]
    BY <1>8, <1>s DEF FinishCall, Shape
  <2> QED BY <2>1, <2>2, <2>3, <1>s, SettledKeeps
<1>9. ASSUME NEW c \in Calls, NEW cost, NEW result, Reconcile(c, cost, result)
      PROVE  ClosedHoldsNothing' /\ NothingForgotten'
  <2>1. callOf[c] \in Operations /\ Settle(callOf[c]) /\ UNCHANGED <<policy, outcome, callOf>>
    BY <1>9 DEF Reconcile, Closed, closing
  <2>2. outcome' = [outcome EXCEPT ![callOf[c]] = outcome'[callOf[c]]]
    BY <2>1, <1>s DEF Shape
  <2>3. \A d \in Calls : d # c => state'[d] = state[d] /\ record'[d] = record[d]
    BY <1>9, <1>s DEF Reconcile, Shape
  <2> QED BY <2>1, <2>2, <2>3, <1>s, SettledKeeps
<1>11. CASE HoldRefund \/ ReleaseRefund
  <2>1. UNCHANGED <<pending, quoted, reserve, outcome, callOf, state, record>>
    BY <1>11 DEF HoldRefund, ReleaseRefund, closing, calls
  <2>2. \A p \in Closed' : p \in Closed
    BY <2>1 DEF Closed
  <2> QED BY <2>1, <2>2, UnsettledKeeps DEF CallsOf
<1>10. CASE UNCHANGED vars
  BY <1>10 DEF vars, money, closing, calls, IInv, ClosedHoldsNothing, NothingForgotten, Closed, CallsOf
<1> QED BY <1>1, <1>2, <1>3, <1>4, <1>5, <1>6, <1>7, <1>8, <1>9, <1>10, <1>11 DEF Next

-----------------------------------------------------------------------------
\* What the attempts look like stays so in every order of starts, results,
\* losses, recoveries and reviews.
THEOREM AttemptsKeepShape == Spec => []Shape
<1>1. IInv => Shape
  BY DEF IInv
<1> QED BY Initially, Preserved, <1>1, PTL DEF Spec

\* An ended operation keeps no reserve (settle_operation, recover_operations).
THEOREM EndedHoldsNothing == Spec => []ClosedHoldsNothing
<1>1. IInv => ClosedHoldsNothing
  BY DEF IInv
<1> QED BY Initially, Preserved, <1>1, PTL DEF Spec

\* Without a pending_reason an ended operation has a quoted result of every
\* request it ever sent: a lost, late or unpriced one never goes unnoticed.
THEOREM ResultsAreNotForgotten == Spec => []NothingForgotten
<1>1. IInv => NothingForgotten
  BY DEF IInv
<1> QED BY Initially, Preserved, <1>1, PTL DEF Spec

-----------------------------------------------------------------------------
\* Only a settlement changes what is settled, and it asks the policies.
LEMMA StepRespectsPolicy ==
  ASSUME Shape, [Next]_vars, NEW p \in Operations, settled'[p] # settled[p]
  PROVE  policy[p].charging /\ (outcome'[p] = "completed" \/ policy[p].failed)
<1>s. Shape'
  BY ShapeKept
<1>1. ASSUME NEW o \in Operations, Settle(o), policy' = policy
      PROVE  policy[p].charging /\ (outcome'[p] = "completed" \/ policy[p].failed)
  BY <1>1, <1>s, Settled
<1>2. CASE settled' = settled
  BY <1>2
<1>3. ASSUME NEW o \in Operations,
             Register(o) \/ Resume(o) \/ Expire(o) \/ Refresh(o) \/ Spare(o)
      PROVE  settled' = settled
  BY <1>3 DEF Register, Resume, Expire, Refresh, Spare, money
<1>4. ASSUME NEW o \in Operations, NEW c \in Calls, StartCall(c, o) \/ CallLost(c)
      PROVE  settled' = settled
  BY <1>4 DEF StartCall, CallLost, money
<1>5. ASSUME NEW o \in Operations, Recover(o) \/ \E out \in Terminal : FinishOperation(o, out)
      PROVE  Settle(o) /\ policy' = policy
  BY <1>5 DEF Recover, FinishOperation
<1>6. ASSUME NEW c \in Calls, NEW cost, NEW result,
             FinishCall(c, cost, result) \/ Reconcile(c, cost, result)
      PROVE  callOf[c] \in Operations /\ Settle(callOf[c]) /\ policy' = policy
  <2>1. CASE FinishCall(c, cost, result)
    BY <2>1 DEF FinishCall, closing, Shape
  <2>2. CASE Reconcile(c, cost, result)
    BY <2>2 DEF Reconcile, closing, Closed
  <2> QED BY <1>6, <2>1, <2>2
<1>7. CASE UNCHANGED vars \/ HoldRefund \/ ReleaseRefund
  BY <1>7 DEF vars, money, HoldRefund, ReleaseRefund
<1>8. CASE \E o \in Operations :
             \/ Register(o) \/ Resume(o) \/ Recover(o)
             \/ Expire(o) \/ Refresh(o) \/ Spare(o)
             \/ \E out \in Terminal : FinishOperation(o, out)
             \/ \E c \in Calls : StartCall(c, o)
  <2>1. PICK o \in Operations :
             \/ Register(o) \/ Resume(o) \/ Recover(o)
             \/ Expire(o) \/ Refresh(o) \/ Spare(o)
             \/ \E out \in Terminal : FinishOperation(o, out)
             \/ \E c \in Calls : StartCall(c, o)
    BY <1>8
  <2>2. settled' = settled \/ (Settle(o) /\ policy' = policy)
    BY <2>1, <1>3, <1>4, <1>5
  <2> QED BY <2>2, <1>1, <1>2
<1>9. CASE \E c \in Calls :
             \/ CallLost(c)
             \/ \E cost \in Costs, result \in Results : FinishCall(c, cost, result) \/ Reconcile(c, cost, result)
             \/ \E result \in Results : FinishCall(c, Unknown, result)
  <2>1. PICK c \in Calls :
             \/ CallLost(c)
             \/ \E cost, result : FinishCall(c, cost, result) \/ Reconcile(c, cost, result)
    BY <1>9
  <2>2. CASE CallLost(c)
    BY <2>2, <1>4
  <2>3. CASE \E cost, result : FinishCall(c, cost, result) \/ Reconcile(c, cost, result)
    BY <2>3, <1>6, <1>1
  <2> QED BY <2>1, <2>2, <2>3
<1> QED BY <1>7, <1>8, <1>9 DEF Next

\* No credit is debited against the policies frozen at the registration,
\* whichever handler runs the settlement.
THEOREM DebitsRespectPolicy == Spec => PolicyRespected
<1>1. IInv /\ [Next]_vars =>
        [\A o \in Operations : settled'[o] # settled[o] =>
           policy[o].charging /\ (outcome'[o] = "completed" \/ policy[o].failed)]_vars
  BY StepRespectsPolicy DEF IInv
<1> QED BY Initially, Preserved, <1>1, PTL DEF Spec, PolicyRespected

-----------------------------------------------------------------------------
\* What the guards of resume_operation leave of the calls of o.
LEMMA ResumedIsSettled ==
  ASSUME IInv, NEW o \in Operations, Resume(o), policy[o].charging, NEW c \in CallsOf(o)
  PROVE  /\ state[c] # "started" /\ record[c] # "none"
         /\ Payable(o, usage[<<c, record[c]>>].outcome) => <<c, record[c]>> \in quoted
<1>1. c \in Calls /\ callOf[c] = o /\ o \in Closed
  BY DEF CallsOf, Resume, Closed
<1>2. CASE o \notin pending
  <2>1. state[c] = "known" /\ <<c, record[c]>> \in quoted
    BY <1>1, <1>2 DEF IInv, NothingForgotten
  <2> QED BY <1>1, <2>1 DEF IInv, Shape
<1>3. CASE o \in pending
  <2>1. ~PayablePending(o)
    BY <1>3 DEF Resume
  <2>2. /\ state[c] \in Unresolved => <<c, record[c]>> \in Exempt(o)
        /\ ~UnknownPayable(o)
    BY <2>1 DEF PayablePending
  <2>3. <<c, record[c]>> \in Exempt(o) => record[c] \in Kinds
    BY DEF Exempt, Selected, Records
  <2>4. record[c] = "none" => record[c] \notin Kinds
    BY DEF Kinds
  <2>5. state[c] # "started" /\ record[c] # "none"
    <3>1. state[c] \in {"started", "pending", "known"}
      BY <1>1, OperationAssumption DEF IInv, Shape
    <3>2. state[c] = "known" => record[c] # "none"
      BY <1>1 DEF IInv, Shape
    <3>3. state[c] = "started" => record[c] = "none"
      BY <1>1 DEF IInv, Shape
    <3> QED BY <2>2, <2>3, <2>4, <3>1, <3>2, <3>3 DEF Unresolved
  <2>6. <<c, record[c]>> \in Selected(o)
    <3>1. record[c] \in Kinds
      BY <1>1, <2>5 DEF IInv, Shape
    <3> QED BY <1>1, <3>1 DEF Selected, Records
  <2>7. Payable(o, usage[<<c, record[c]>>].outcome) => <<c, record[c]>> \in quoted
    BY <2>2, <2>6 DEF UnknownPayable
  <2> QED BY <2>5, <2>7
<1> QED BY <1>2, <1>3

\* No step but resume_operation opens an ended operation again.
LEMMA OnlyResumeReopens ==
  ASSUME Shape, [Next]_vars, NEW o \in Closed, outcome'[o] = "open"
  PROVE  o \in Operations /\ Resume(o)
<1>1. o \in Operations /\ outcome[o] \in Terminal /\ outcome[o] # "open" /\ outcome[o] # "absent"
  BY DEF Closed, Terminal
<1>2. ASSUME NEW p \in Operations, Register(p) \/ Recover(p) \/ Expire(p) \/ Refresh(p) \/ Spare(p)
      PROVE  outcome'[o] # "open"
  BY <1>1, <1>2 DEF Register, Recover, Expire, Refresh, Spare, Shape
<1>3. ASSUME NEW p \in Operations, NEW out \in Terminal, FinishOperation(p, out)
      PROVE  outcome'[o] # "open"
  BY <1>1, <1>3 DEF FinishOperation, Shape, Terminal
<1>4. ASSUME NEW p \in Operations, p # o, Resume(p) PROVE outcome'[o] # "open"
  BY <1>1, <1>4 DEF Resume, Shape
<1>5. ASSUME NEW p, NEW c \in Calls, NEW cost, NEW result,
             StartCall(c, p) \/ CallLost(c) \/ FinishCall(c, cost, result) \/ Reconcile(c, cost, result)
      PROVE  outcome'[o] # "open"
  BY <1>1, <1>5 DEF StartCall, CallLost, FinishCall, Reconcile, closing
<1>6. CASE UNCHANGED vars \/ HoldRefund \/ ReleaseRefund
  BY <1>1, <1>6 DEF vars, closing, HoldRefund, ReleaseRefund
<1> QED BY <1>1, <1>2, <1>3, <1>4, <1>5, <1>6 DEF Next

\* resume_operation never reopens an operation of which something may still
\* be charged: neither a request without a result nor a payable usage without
\* a quote.
THEOREM ReopensOnlySettled == Spec => ReopenedSettled
<1>1. IInv /\ [Next]_vars =>
        [\A o \in Closed : outcome'[o] = "open" /\ policy[o].charging =>
           \A c \in CallsOf(o) :
             /\ state[c] # "started" /\ record[c] # "none"
             /\ Payable(o, usage[<<c, record[c]>>].outcome) => <<c, record[c]>> \in quoted]_vars
  BY OnlyResumeReopens, ResumedIsSettled DEF IInv
<1> QED BY Initially, Preserved, <1>1, PTL DEF Spec, ReopenedSettled

-----------------------------------------------------------------------------
\* What the amounts range over.  That nothing negative is reserved follows later.
Numbers ==
  /\ balance \in Int /\ reserved \in Int /\ held \in Nat
  /\ reserve \in [Operations -> Nat] /\ settled \in [Operations -> Nat]
  /\ known \in [Operations -> Nat]
  /\ usage \in [Records -> [cost : Costs \cup {Unknown}, outcome : Results \cup {"none"}]]
  /\ quoted \subseteq Records

\* The debits are the settled units, and every reserved unit is an operation's
\* or the refund's.
Totals ==
  /\ balance = Funds - SumFunctionOnSet(settled, Operations)
  /\ reserved = held + SumFunctionOnSet(reserve, Operations)

\* A quoted record is selected by its call and stays so, and a call whose result
\* may still come has none of its own yet: nothing that is quoted is replaced.
QuotesStand ==
  /\ \A r \in quoted : callOf[r[1]] # "none" /\ record[r[1]] = r[2] /\ usage[r].cost # Unknown
  /\ \A c \in inflight : record[c] # "own"

\* The two bounds of ChargedExactly.  The upper one concerns every operation, so
\* that a settlement finds it of an operation that was reopened.
NotTooMuch ==
  \A o \in Operations : settled[o] <= RoundUp(SumOf(o, Selected(o) \cap quoted, usage))
NotTooLittle ==
  \A o \in Closed \ pending :
    outcome[o] = "completed" /\ policy[o].charging =>
      settled[o] >= RoundUp(SumOf(o, Selected(o), usage))

\* An operation reserves nothing before its registration.
Untouched == \A o \in Operations : outcome[o] = "absent" => reserve[o] = 0

\* The inductive invariant of the amounts.
MoneyInv == IInv /\ Numbers /\ Untouched /\ Totals /\ QuotesStand /\ NotTooMuch /\ NotTooLittle

\* Rounding up a larger amount gives no less.
LEMMA RoundUpGrows ==
  ASSUME NEW a \in Nat, NEW b \in Nat, a <= b
  PROVE  RoundUp(a) \in Nat /\ RoundUp(a) <= RoundUp(b)
<1>1. Scale \in Nat \ {0}
  BY OperationAssumption
<1>2. /\ a + Scale - 1 \in Nat /\ b + Scale - 1 \in Nat
      /\ a + Scale - 1 <= b + Scale - 1
  BY <1>1
<1>3. \A x \in Nat, y \in Nat : x <= y => x \div Scale \in Nat /\ x \div Scale <= y \div Scale
  BY <1>1
<1> QED BY <1>2, <1>3 DEF RoundUp

\* Each call has at most two usage records.
LEMMA RecordsAreFinite == IsFiniteSet(Records)
<1>1. IsFiniteSet({"own"}) /\ IsFiniteSet({"reviewed"})
  BY FS_Singleton
<1>2. Kinds = {"own"} \cup {"reviewed"}
  BY DEF Kinds
<1>3. IsFiniteSet(Kinds)
  BY <1>1, <1>2, FS_Union
<1> QED BY <1>3, FiniteAssumption, FS_Product DEF Records

\* Rows of known usage.
Priced(rows, u) == rows \subseteq Records /\ \A r \in rows : u[r].cost \in Nat

\* What priced rows cost together.
LEMMA SumOfNatural ==
  ASSUME NEW o, NEW rows, NEW u, Priced(rows, u)
  PROVE  SumOf(o, rows, u) \in Nat
<1> DEFINE f == [r \in rows |-> IF Payable(o, u[r].outcome) THEN u[r].cost ELSE 0]
<1>1. \A r \in rows : f[r] \in Nat
  BY DEF Priced
<1>2. IsFiniteSet(rows)
  BY RecordsAreFinite, FS_Subset DEF Priced
<1> HIDE DEF f
<1>3. \A r \in rows : f[r] \in Int
  BY <1>1
<1>4. SumFunctionOnSet(f, rows) \in Int
  BY <1>2, <1>3, SumType
<1>5. SumFunctionOnSet(f, {}) <= SumFunctionOnSet(f, rows)
  BY <1>1, <1>2, SumSubset
<1>6. SumFunctionOnSet(f, {}) = 0
  BY SumEmpty
<1>7. SumFunctionOnSet(f, rows) \in Nat
  BY <1>4, <1>5, <1>6
<1> QED BY <1>7 DEF SumOf, f

\* More rows, of which the first agree, cost no less.
LEMMA SumOfGrows ==
  ASSUME NEW o, NEW R, NEW S, NEW u, NEW v, R \subseteq S, Priced(S, v), \A r \in R : u[r] = v[r]
  PROVE  SumOf(o, R, u) <= SumOf(o, S, v)
<1> DEFINE f == [r \in R |-> IF Payable(o, u[r].outcome) THEN u[r].cost ELSE 0]
           g == [r \in S |-> IF Payable(o, v[r].outcome) THEN v[r].cost ELSE 0]
<1>1. \A r \in S : g[r] \in Nat
  BY DEF Priced
<1>2. \A r \in R : f[r] = g[r]
  OBVIOUS
<1>3. IsFiniteSet(S) /\ IsFiniteSet(R)
  BY RecordsAreFinite, FS_Subset DEF Priced
<1> HIDE DEF f, g
<1>4. \A r \in R : f[r] \in Int
  BY <1>1, <1>2
<1>5. SumFunctionOnSet(f, R) = SumFunctionOnSet(g, R)
  BY <1>2, <1>3, <1>4, SumEqual
<1>6. SumFunctionOnSet(g, R) <= SumFunctionOnSet(g, S)
  BY <1>1, <1>3, SumSubset
<1> QED BY <1>5, <1>6 DEF SumOf, f, g

-----------------------------------------------------------------------------
\* What a settlement does to the money of its operation and of the wallet.
LEMMA SettledMoney ==
  ASSUME NEW o \in Operations, Shape, Numbers, Settle(o), policy' = policy,
         usage' \in [Records -> [cost : Costs \cup {Unknown}, outcome : Results \cup {"none"}]]
  PROVE  LET total == SumOf(o, Quotes(o), usage')
         IN  /\ Priced(Quotes(o), usage') /\ total \in Nat
             /\ quoted' = quoted \cup Quotes(o) /\ Quotes(o) \subseteq Selected(o)'
             /\ known' = [known EXCEPT ![o] = total]
             /\ held' = held
             /\ reserve'[o] \in Nat /\ settled'[o] \in Nat
             /\ reserve' = [reserve EXCEPT ![o] = reserve'[o]]
             /\ settled' = [settled EXCEPT ![o] = settled'[o]]
             /\ reserved' = reserved - reserve[o] + reserve'[o]
             /\ balance' = balance - (settled'[o] - settled[o])
             /\ settled'[o] \in {settled[o], RoundUp(total)}
             /\ outcome'[o] = "open" => settled'[o] = settled[o]
             /\ outcome'[o] = "completed" /\ policy[o].charging => settled'[o] >= RoundUp(total)
             /\ reserve'[o] > reserve[o] =>
                  outcome'[o] = "open" /\ reserve'[o] <= balance - reserved + reserve[o]
             /\ o \notin pending' => Selected(o)' = Quotes(o)
<1> DEFINE total == SumOf(o, Quotes(o), usage')
           due == IF outcome'[o] # "open" THEN Due(o, total) ELSE settled[o]
<1>1. Quotes(o) \subseteq Selected(o)' /\ Quotes(o) \subseteq Records
  BY DEF Quotes, Selected
<1>2. Priced(Quotes(o), usage')
  <2>1. \A r \in Quotes(o) : usage'[r].cost \in Costs
    BY <1>1 DEF Quotes
  <2> QED BY <1>1, <2>1, OperationAssumption DEF Priced
<1>3. total \in Nat
  BY <1>2, SumOfNatural
<1> HIDE DEF total
<1>4. /\ reserve' = [reserve EXCEPT ![o] = Kept(o, total)]
      /\ settled' = [settled EXCEPT ![o] = due]
      /\ known' = [known EXCEPT ![o] = total]
      /\ pending' = IF Uncertain(o) THEN pending \cup {o} ELSE pending \ {o}
      /\ quoted' = quoted \cup Quotes(o)
      /\ reserved' = reserved - reserve[o] + Kept(o, total)
      /\ balance' = balance - (due - settled[o])
      /\ held' = held
  BY DEF Settle, total
<1>5. reserve[o] \in Nat /\ settled[o] \in Nat /\ balance \in Int /\ reserved \in Int
  BY DEF Numbers
<1>6. RoundUp(total) \in Nat
  BY <1>3, RoundUpGrows
<1>7. /\ reserve'[o] = Kept(o, total) /\ reserve' = [reserve EXCEPT ![o] = reserve'[o]]
      /\ settled'[o] = due /\ settled' = [settled EXCEPT ![o] = settled'[o]]
  <2> HIDE DEF due
  <2> QED BY <1>4 DEF Numbers
<1>8. /\ Kept(o, total) \in Nat
      /\ Kept(o, total) > reserve[o] =>
           outcome'[o] = "open" /\ Kept(o, total) <= balance - reserved + reserve[o]
  BY <1>5, <1>6 DEF Kept, Larger, Smaller
<1>9. /\ due \in Nat /\ due \in {settled[o], RoundUp(total)}
      /\ outcome'[o] = "open" => due = settled[o]
      /\ outcome'[o] = "completed" /\ policy[o].charging => due >= RoundUp(total)
  BY <1>5, <1>6 DEF Due
<1>10. ASSUME o \notin pending' PROVE Selected(o)' = Quotes(o)
  <2>1. ~Uncertain(o)
    BY <1>4, <1>10
  <2> QED BY <2>1, <1>1 DEF Uncertain
<1> HIDE DEF due
<1> QED BY <1>1, <1>2, <1>3, <1>4, <1>7, <1>8, <1>9, <1>10 DEF total

-----------------------------------------------------------------------------
\* A step that settles o: whatever changed before, only the calls of o and no
\* usage record that is quoted.
Settles(o) ==
  /\ Settle(o) /\ UNCHANGED <<policy, callOf>>
  /\ outcome' = [outcome EXCEPT ![o] = outcome'[o]]
  /\ \A c \in Calls : callOf[c] # o => record'[c] = record[c]
  /\ \A r \in quoted : record'[r[1]] = record[r[1]] /\ usage'[r] = usage[r]
  /\ usage' \in [Records -> [cost : Costs \cup {Unknown}, outcome : Results \cup {"none"}]]
  /\ inflight' \subseteq inflight
  /\ \A c \in inflight' : record'[c] # "own"

\* A step that settles nothing and leaves every charge as it is.
Leaves ==
  /\ UNCHANGED <<balance, settled, known, pending, quoted, usage, record, policy>>
  /\ \A c \in Calls : callOf[c] # "none" => callOf'[c] = callOf[c]
  /\ \A o \in Closed' : o \in Closed /\ outcome'[o] = outcome[o]
  /\ \A c \in inflight' : c \in inflight \/ callOf[c] = "none"
  /\ \A o \in Operations : outcome'[o] = "absent" => outcome[o] = "absent" /\ reserve'[o] = reserve[o]

\* Results, outcomes, recovery and reviews all settle one operation.  That the
\* record they write was not quoted before is where QuotesStand is needed.
LEMMA SettlingSteps ==
  ASSUME Shape, Shape', Numbers, QuotesStand, NEW o \in Operations,
         \/ Recover(o)
         \/ \E out \in Terminal : FinishOperation(o, out)
         \/ \E c \in Calls : callOf[c] = o /\ \E cost \in Costs \cup {Unknown}, result \in Results : FinishCall(c, cost, result)
         \/ \E c \in Calls : callOf[c] = o /\ \E cost \in Costs, result \in Results : Reconcile(c, cost, result)
  PROVE  Settles(o)
<1>1. CASE Recover(o)
  BY <1>1 DEF Recover, Settles, Shape, Numbers, QuotesStand
<1>2. ASSUME NEW out \in Terminal, FinishOperation(o, out) PROVE Settles(o)
  BY <1>2 DEF FinishOperation, Settles, Shape, Numbers, QuotesStand, calls
<1>q. \A r \in quoted : r \in Records /\ r[1] \in Calls /\ record[r[1]] = r[2]
  BY DEF Numbers, QuotesStand, Records
<1>3. ASSUME NEW c \in Calls, callOf[c] = o, NEW cost \in Costs \cup {Unknown}, NEW result \in Results,
             FinishCall(c, cost, result)
      PROVE  Settles(o)
  <2>1. Settle(o) /\ UNCHANGED <<policy, callOf, outcome>> /\ inflight' = inflight \ {c} /\ c \in inflight
    BY <1>3 DEF FinishCall, closing
  <2>2. outcome' = [outcome EXCEPT ![o] = outcome'[o]]
    BY <2>1 DEF Shape
  <2>3. CASE record[c] = "reviewed"
    <3>1. UNCHANGED <<usage, record>>
      BY <1>3, <2>3 DEF FinishCall
    <3> QED BY <2>1, <2>2, <3>1 DEF Settles, Numbers, QuotesStand, Shape
  <2>4. CASE record[c] # "reviewed"
    <3>1. /\ usage' = [usage EXCEPT ![<<c, "own">>] = [cost |-> cost, outcome |-> result]]
          /\ record' = [record EXCEPT ![c] = "own"]
      BY <1>3, <2>4 DEF FinishCall
    <3>2. \A r \in quoted : r[1] # c
      <4>1. record[c] # "own"
        BY <2>1 DEF QuotesStand
      <4>2. \A r \in quoted : r[2] \in Kinds
        BY DEF Numbers, Records
      <4> QED BY <1>q, <2>4, <4>1, <4>2 DEF Kinds
    <3>3. \A r \in quoted : record'[r[1]] = record[r[1]] /\ usage'[r] = usage[r]
      BY <1>q, <3>1, <3>2 DEF Numbers, Shape
    <3>4. \A d \in Calls : d # c => record'[d] = record[d]
      BY <3>1 DEF Shape
    <3>5. usage' \in [Records -> [cost : Costs \cup {Unknown}, outcome : Results \cup {"none"}]]
      BY <3>1 DEF Numbers
    <3>6. \A d \in inflight' : record'[d] # "own"
      BY <2>1, <3>4 DEF QuotesStand, Shape
    <3> QED BY <1>3, <2>1, <2>2, <3>3, <3>4, <3>5, <3>6 DEF Settles
  <2> QED BY <2>3, <2>4
<1>4. ASSUME NEW c \in Calls, callOf[c] = o, NEW cost \in Costs, NEW result \in Results,
             Reconcile(c, cost, result)
      PROVE  Settles(o)
  <2>1. /\ Settle(o) /\ UNCHANGED <<policy, callOf, outcome, inflight>>
        /\ <<c, record[c]>> \notin quoted
        /\ usage' = [usage EXCEPT ![<<c, "reviewed">>] = [cost |-> cost, outcome |-> result]]
        /\ record' = [record EXCEPT ![c] = "reviewed"]
    BY <1>4 DEF Reconcile, closing
  <2>2. outcome' = [outcome EXCEPT ![o] = outcome'[o]]
    BY <2>1 DEF Shape
  <2>3. \A r \in quoted : r[1] # c
    <3>1. \A r \in quoted : r = <<r[1], r[2]>>
      BY <1>q DEF Records
    <3> QED BY <1>q, <2>1, <3>1
  <2>4. \A d \in Calls : d # c => record'[d] = record[d]
    BY <2>1 DEF Shape
  <2>5. \A r \in quoted : record'[r[1]] = record[r[1]] /\ usage'[r] = usage[r]
    BY <1>q, <2>1, <2>3 DEF Numbers, Shape
  <2>6. usage' \in [Records -> [cost : Costs \cup {Unknown}, outcome : Results \cup {"none"}]]
    BY <2>1 DEF Numbers
  <2>7. \A d \in inflight' : record'[d] # "own"
    BY <2>1, <2>4 DEF QuotesStand, Shape
  <2> QED BY <1>4, <2>1, <2>2, <2>4, <2>5, <2>6, <2>7 DEF Settles
<1> QED BY <1>1, <1>2, <1>3, <1>4

\* All other steps; only refunds and registrations change a reserve.
LEMMA OtherSteps ==
  ASSUME Shape,
         \/ UNCHANGED vars \/ HoldRefund \/ ReleaseRefund
         \/ \E o \in Operations : Register(o) \/ Resume(o) \/ Expire(o) \/ Refresh(o) \/ Spare(o)
         \/ \E c \in Calls : CallLost(c) \/ \E o \in Operations : StartCall(c, o)
  PROVE  /\ Leaves
         /\ \/ UNCHANGED <<reserve, reserved, held>>
            \/ HoldRefund \/ ReleaseRefund \/ \E o \in Operations : Register(o)
<1>1. CASE UNCHANGED vars
  BY <1>1 DEF vars, money, wallet, closing, calls, Leaves, Closed
<1>2. CASE HoldRefund \/ ReleaseRefund
  BY <1>2 DEF HoldRefund, ReleaseRefund, closing, calls, Leaves, Closed
<1>3. ASSUME NEW o \in Operations, Register(o) PROVE Leaves
  BY <1>3 DEF Register, closing, calls, Leaves, Closed, Terminal, Shape
<1>4. ASSUME NEW o \in Operations, Resume(o) PROVE Leaves /\ UNCHANGED <<reserve, reserved, held>>
  BY <1>4 DEF Resume, money, wallet, calls, Leaves, Closed, Terminal, Shape
<1>5. ASSUME NEW o \in Operations, Expire(o) \/ Refresh(o) \/ Spare(o)
      PROVE  Leaves /\ UNCHANGED <<reserve, reserved, held>>
  BY <1>5 DEF Expire, Refresh, Spare, money, wallet, calls, Leaves, Closed
<1>6. ASSUME NEW c \in Calls, CallLost(c) PROVE Leaves /\ UNCHANGED <<reserve, reserved, held>>
  BY <1>6 DEF CallLost, money, wallet, closing, Leaves, Closed
<1>7. ASSUME NEW c \in Calls, NEW o \in Operations, StartCall(c, o)
      PROVE  Leaves /\ UNCHANGED <<reserve, reserved, held>>
  BY <1>7 DEF StartCall, money, wallet, Leaves, Closed, Shape
<1> QED BY <1>1, <1>2, <1>3, <1>4, <1>5, <1>6, <1>7

-----------------------------------------------------------------------------
\* The rows that charge an operation are the same to every other settlement.
LEMMA OthersSelected ==
  ASSUME Shape, Shape', Numbers, NEW o \in Operations, Settles(o), NEW p \in Operations, p # o
  PROVE  /\ Selected(p)' = Selected(p)
         /\ Selected(p)' \cap quoted' = Selected(p) \cap quoted
<1>1. Selected(p)' = Selected(p)
  BY DEF Settles, Selected, Records
<1>2. Quotes(o) \cap Selected(p)' = {}
  BY DEF Quotes, Selected
<1>3. quoted' = quoted \cup Quotes(o)
  BY SettledMoney DEF Settles
<1> QED BY <1>1, <1>2, <1>3

\* The costs after a step, under policies that do not change.
LEMMA SumOfPrimed ==
  ASSUME policy' = policy, NEW o
  PROVE  /\ SumOf(o, Selected(o), usage)' = SumOf(o, Selected(o)', usage')
         /\ SumOf(o, Selected(o) \cap quoted, usage)' = SumOf(o, Selected(o)' \cap quoted', usage')
BY DEF SumOf, Payable

\* A settlement moves the same units in the operation and in the wallet.
LEMMA SettlesKeepsMoney ==
  ASSUME MoneyInv, Shape', NEW o \in Operations, Settles(o)
  PROVE  Numbers' /\ Totals'
<1> DEFINE total == SumOf(o, Quotes(o), usage')
<1>1. /\ total \in Nat
      /\ Quotes(o) \subseteq Selected(o)' /\ quoted' = quoted \cup Quotes(o)
      /\ known' = [known EXCEPT ![o] = total]
      /\ held' = held
      /\ reserve'[o] \in Nat /\ settled'[o] \in Nat
      /\ reserve' = [reserve EXCEPT ![o] = reserve'[o]]
      /\ settled' = [settled EXCEPT ![o] = settled'[o]]
      /\ reserved' = reserved - reserve[o] + reserve'[o]
      /\ balance' = balance - (settled'[o] - settled[o])
  BY SettledMoney DEF Settles, MoneyInv, IInv
<1> HIDE DEF total
<1>2. Numbers'
  <2>1. Selected(o)' \subseteq Records
    BY DEF Selected, Records
  <2>2. quoted' \subseteq Records
    BY <1>1, <2>1 DEF Numbers, MoneyInv
  <2>3. /\ reserve' \in [Operations -> Nat] /\ settled' \in [Operations -> Nat]
        /\ known' \in [Operations -> Nat]
    BY <1>1 DEF Numbers, MoneyInv
  <2>4. balance' \in Int /\ reserved' \in Int /\ held' \in Nat
    <3>1. /\ balance \in Int /\ reserved \in Int /\ held \in Nat
          /\ settled[o] \in Nat /\ reserve[o] \in Nat
      BY DEF Numbers, MoneyInv
    <3> QED BY <3>1, <1>1
  <2> QED BY <2>2, <2>3, <2>4 DEF Numbers, Settles, Records
<1>3. /\ \A p \in Operations : reserve[p] \in Int /\ reserve'[p] \in Int /\ settled[p] \in Int /\ settled'[p] \in Int
      /\ \A p \in Operations \ {o} : reserve'[p] = reserve[p] /\ settled'[p] = settled[p]
  BY <1>1, <1>2 DEF Numbers, MoneyInv
<1>4. /\ SumFunctionOnSet(reserve', Operations) = SumFunctionOnSet(reserve, Operations) + reserve'[o] - reserve[o]
      /\ SumFunctionOnSet(settled', Operations) = SumFunctionOnSet(settled, Operations) + settled'[o] - settled[o]
  BY <1>3, FiniteAssumption, SumChange
<1>5. SumFunctionOnSet(reserve, Operations) \in Int /\ SumFunctionOnSet(settled, Operations) \in Int
  BY <1>3, FiniteAssumption, SumType
<1>6. Totals'
  BY <1>1, <1>3, <1>4, <1>5, OperationAssumption DEF Totals, MoneyInv, Numbers
<1> QED BY <1>2, <1>6

\* A settlement charges the quoted rows, which are among the rows that are
\* quoted in the end and, without a pending_reason, all that are selected.
LEMMA SettlesKeepsCharges ==
  ASSUME MoneyInv, Shape', NEW o \in Operations, Settles(o), Numbers'
  PROVE  QuotesStand' /\ NotTooMuch' /\ NotTooLittle'
<1> DEFINE total == SumOf(o, Quotes(o), usage')
<1>s. Shape /\ Numbers /\ QuotesStand /\ Settle(o) /\ policy' = policy
  BY DEF MoneyInv, IInv, Settles
<1>1. /\ Priced(Quotes(o), usage') /\ total \in Nat
      /\ Quotes(o) \subseteq Selected(o)' /\ quoted' = quoted \cup Quotes(o)
      /\ settled' = [settled EXCEPT ![o] = settled'[o]]
      /\ settled'[o] \in {settled[o], RoundUp(total)}
      /\ outcome'[o] = "completed" /\ policy[o].charging => settled'[o] >= RoundUp(total)
      /\ o \notin pending' => Selected(o)' = Quotes(o)
  BY <1>s, SettledMoney DEF Settles
<1> HIDE DEF total
<1>2. QuotesStand'
  <2>1. ASSUME NEW r \in quoted' PROVE callOf'[r[1]] # "none" /\ record'[r[1]] = r[2] /\ usage'[r].cost # Unknown
    <3>1. CASE r \in quoted
      BY <3>1, <1>s DEF QuotesStand, Settles
    <3>2. CASE r \in Quotes(o)
      BY <3>2, <1>1, OperationAssumption DEF Quotes, Selected
    <3> QED BY <1>1, <3>1, <3>2
  <2> QED BY <2>1 DEF QuotesStand, Settles
<1>3. \A p \in Operations : Priced(Selected(p)' \cap quoted', usage')
  <2>1. ASSUME NEW r \in quoted' PROVE r \in Records /\ usage'[r].cost \in Nat
    <3>1. r \in Records /\ usage'[r].cost \in Costs \cup {Unknown} /\ usage'[r].cost # Unknown
      BY <1>2, <2>1 DEF Numbers, QuotesStand, Records
    <3> QED BY <3>1, OperationAssumption
  <2> QED BY <2>1 DEF Priced
<1>4. \A p \in Operations : Selected(p) \cap quoted \subseteq Selected(p)' \cap quoted'
  BY <1>1, <1>s DEF Settles, Selected, QuotesStand, Numbers, Records
<1>5. \A p \in Operations :
        /\ SumOf(p, Selected(p) \cap quoted, usage) <= SumOf(p, Selected(p)' \cap quoted', usage')
        /\ SumOf(p, Selected(p)' \cap quoted', usage') \in Nat
        /\ SumOf(p, Selected(p) \cap quoted, usage) \in Nat
  <2> TAKE p \in Operations
  <2>1. \A r \in Selected(p) \cap quoted : usage[r] = usage'[r]
    BY DEF Settles
  <2>2. Priced(Selected(p) \cap quoted, usage)
    BY <1>3, <1>4, <2>1 DEF Priced
  <2> QED BY <1>3, <1>4, <2>1, <2>2, SumOfGrows, SumOfNatural
<1>6. \A p \in Operations :
        RoundUp(SumOf(p, Selected(p) \cap quoted, usage)) <= RoundUp(SumOf(p, Selected(p)' \cap quoted', usage'))
  BY <1>5, RoundUpGrows
<1>7. RoundUp(total) <= RoundUp(SumOf(o, Selected(o)' \cap quoted', usage'))
  <2>1. Quotes(o) \subseteq Selected(o)' \cap quoted'
    BY <1>1
  <2>2. total <= SumOf(o, Selected(o)' \cap quoted', usage')
    BY <2>1, <1>3, SumOfGrows DEF total
  <2> QED BY <2>2, <1>1, <1>5, RoundUpGrows
<1>8. NotTooMuch'
  <2>1. ASSUME NEW p \in Operations PROVE settled'[p] <= RoundUp(SumOf(p, Selected(p)' \cap quoted', usage'))
    <3>1. settled[p] <= RoundUp(SumOf(p, Selected(p) \cap quoted, usage)) /\ settled[p] \in Nat
      BY DEF MoneyInv, NotTooMuch, Numbers
    <3>2. RoundUp(SumOf(p, Selected(p) \cap quoted, usage)) \in Nat /\ RoundUp(SumOf(p, Selected(p)' \cap quoted', usage')) \in Nat
      BY <1>5, RoundUpGrows
    <3>3. CASE p = o
      BY <1>1, <1>6, <1>7, <3>1, <3>2, <3>3
    <3>4. CASE p # o
      <4>1. settled'[p] = settled[p]
        BY <1>1, <3>4, <1>s DEF Numbers
      <4> QED BY <4>1, <1>6, <3>1, <3>2
    <3> QED BY <3>3, <3>4
  <2> QED BY <2>1, <1>s, SumOfPrimed DEF NotTooMuch, RoundUp
<1>9. NotTooLittle'
  <2>1. ASSUME NEW p \in Closed', p \notin pending', outcome'[p] = "completed", policy'[p].charging
        PROVE  settled'[p] >= RoundUp(SumOf(p, Selected(p)', usage'))
    <3>1. CASE p = o
      BY <1>1, <1>s, <2>1, <3>1 DEF total
    <3>2. CASE p # o
      <4>1. p \in Operations
        BY DEF Closed
      <4>2. p \in Closed \ pending /\ outcome[p] = "completed" /\ policy[p].charging /\ settled'[p] = settled[p]
        BY <1>1, <1>s, <2>1, <3>2, <4>1, Settled DEF Closed, Shape, Settles, Numbers
      <4>3. settled[p] >= RoundUp(SumOf(p, Selected(p), usage))
        BY <4>2 DEF MoneyInv, NotTooLittle
      <4>4. Selected(p)' = Selected(p) /\ Selected(p) \subseteq quoted
        <5>1. \A r \in Selected(p) : r[1] \in CallsOf(p) /\ record[r[1]] = r[2] /\ r = <<r[1], r[2]>>
          BY DEF Selected, CallsOf, Records
        <5>2. Selected(p) \subseteq quoted
          BY <5>1, <4>2 DEF MoneyInv, IInv, NothingForgotten
        <5> QED BY <5>2, <4>1, <1>s, <3>2, OthersSelected
      <4>5. \A r \in Selected(p) : usage'[r] = usage[r]
        BY <4>4 DEF Settles
      <4>6. SumOf(p, Selected(p)', usage') <= SumOf(p, Selected(p), usage)
        <5>1. Selected(p) = Selected(p)' \cap quoted' /\ Priced(Selected(p), usage)
          BY <4>1, <4>4, <4>5, <1>1, <1>3 DEF Priced
        <5> QED BY <4>4, <4>5, <5>1, SumOfGrows
      <4>7. Selected(p)' = Selected(p)' \cap quoted' /\ Selected(p) = Selected(p) \cap quoted
        BY <4>4, <1>1
      <4>8. SumOf(p, Selected(p)', usage') \in Nat /\ SumOf(p, Selected(p), usage) \in Nat
        BY <4>1, <4>7, <1>5
      <4>9. RoundUp(SumOf(p, Selected(p)', usage')) <= RoundUp(SumOf(p, Selected(p), usage))
        BY <4>6, <4>8, RoundUpGrows
      <4>10. /\ RoundUp(SumOf(p, Selected(p)', usage')) \in Nat /\ RoundUp(SumOf(p, Selected(p), usage)) \in Nat
             /\ settled[p] \in Nat
        BY <4>1, <4>8, <1>s, RoundUpGrows DEF Numbers
      <4> QED BY <4>2, <4>3, <4>9, <4>10
    <3> QED BY <3>1, <3>2
  <2> QED BY <2>1, <1>s, SumOfPrimed DEF NotTooLittle, RoundUp
<1> QED BY <1>2, <1>8, <1>9

\* Without a settlement the selected rows stay: a call that starts has none.
LEMMA LeavesKeepsCharges ==
  ASSUME MoneyInv, Leaves, Shape, Shape', Numbers'
  PROVE  QuotesStand' /\ NotTooMuch' /\ NotTooLittle'
<1>1. QuotesStand'
  <2>1. \A r \in quoted : callOf'[r[1]] # "none"
    BY DEF Leaves, MoneyInv, QuotesStand, Numbers, Records
  <2>2. \A c \in Calls : callOf[c] = "none" => record[c] = "none"
    BY DEF Shape
  <2>3. \A c \in inflight' : record'[c] # "own"
    BY <2>2 DEF Leaves, MoneyInv, QuotesStand, Shape
  <2> QED BY <2>1, <2>3 DEF Leaves, MoneyInv, QuotesStand
<1>2. \A p \in Operations : Selected(p)' = Selected(p)
  <2>1. \A c \in Calls : record[c] \in Kinds => callOf[c] # "none" /\ callOf'[c] = callOf[c]
    BY DEF Shape, Leaves, Kinds
  <2>2. \A c \in Calls : record'[c] = record[c]
    BY DEF Leaves
  <2> QED BY <2>1, <2>2 DEF Selected, Records
<1>3. ASSUME NEW p \in Operations
      PROVE  /\ SumOf(p, Selected(p), usage)' = SumOf(p, Selected(p), usage)
             /\ SumOf(p, Selected(p) \cap quoted, usage)' = SumOf(p, Selected(p) \cap quoted, usage)
  <2>1. Selected(p)' = Selected(p) /\ quoted' = quoted /\ usage' = usage /\ policy' = policy
    BY <1>2 DEF Leaves
  <2> QED BY <2>1, SumOfPrimed
<1>4. NotTooMuch'
  BY <1>3 DEF MoneyInv, NotTooMuch, Leaves, RoundUp
<1>5. NotTooLittle'
  <2>1. ASSUME NEW p \in Closed', p \notin pending', outcome'[p] = "completed", policy'[p].charging
        PROVE  settled'[p] >= RoundUp(SumOf(p, Selected(p), usage)')
    <3>1. p \in Operations /\ p \in Closed \ pending /\ outcome[p] = "completed" /\ policy[p].charging
      BY <2>1 DEF Leaves, Closed
    <3>2. settled[p] >= RoundUp(SumOf(p, Selected(p), usage))
      BY <3>1 DEF MoneyInv, NotTooLittle
    <3> QED BY <3>1, <3>2, <1>3 DEF Leaves
  <2> QED BY <2>1 DEF NotTooLittle, RoundUp
<1> QED BY <1>1, <1>4, <1>5

\* Holds and registrations change the wallet's reservation by their own.
LEMMA ReservesKeepMoney ==
  ASSUME MoneyInv, Leaves,
         \/ UNCHANGED <<reserve, reserved, held>>
         \/ HoldRefund \/ ReleaseRefund \/ \E o \in Operations : Register(o)
  PROVE  Numbers' /\ Totals'
<1>1. CASE UNCHANGED <<reserve, reserved, held>>
  BY <1>1 DEF MoneyInv, Leaves, Numbers, Totals, Records
<1>t. SumFunctionOnSet(reserve, Operations) \in Int
  <2>1. \A p \in Operations : reserve[p] \in Int
    BY DEF MoneyInv, Numbers
  <2> QED BY <2>1, FiniteAssumption, SumType
<1>2. CASE HoldRefund \/ ReleaseRefund
  <2>1. /\ reserve' = reserve
        /\ held \in Nat /\ held' \in Nat /\ reserved \in Int /\ reserved' = reserved - held + held'
    BY <1>2 DEF HoldRefund, ReleaseRefund, MoneyInv, Numbers
  <2>2. Numbers'
    BY <2>1 DEF MoneyInv, Leaves, Numbers, Records
  <2>3. reserved' = held' + SumFunctionOnSet(reserve, Operations)
    BY <2>1, <1>t DEF MoneyInv, Totals
  <2> QED BY <2>1, <2>2, <2>3 DEF MoneyInv, Leaves, Totals
<1>3. ASSUME NEW o \in Operations, Register(o) PROVE Numbers' /\ Totals'
  <2> DEFINE units == IF policy[o].charging THEN InitialReserve ELSE 0
  <2>1. reserve' = [reserve EXCEPT ![o] = units] /\ reserved' = reserved + units /\ held' = held
    BY <1>3 DEF Register
  <2>2. units \in Nat
    BY OperationAssumption
  <2>3. reserve[o] = 0
    BY <1>3 DEF MoneyInv, Untouched, Register
  <2> HIDE DEF units
  <2>4. Numbers'
    BY <2>1, <2>2 DEF MoneyInv, Leaves, Numbers, Records
  <2>5. SumFunctionOnSet(reserve', Operations) = SumFunctionOnSet(reserve, Operations) + reserve'[o] - reserve[o]
    <3>1. \A p \in Operations : reserve[p] \in Int /\ reserve'[p] \in Int
      BY <2>4 DEF MoneyInv, Numbers
    <3>2. \A p \in Operations \ {o} : reserve'[p] = reserve[p]
      BY <2>1 DEF MoneyInv, Numbers
    <3> QED BY <3>1, <3>2, FiniteAssumption, SumChange
  <2>6. reserved' = held' + SumFunctionOnSet(reserve', Operations)
    <3>1. reserve'[o] = units
      BY <2>1 DEF MoneyInv, Numbers
    <3> QED BY <2>1, <2>2, <2>3, <2>5, <3>1, <1>t DEF MoneyInv, Totals, Numbers
  <2> QED BY <2>4, <2>6 DEF MoneyInv, Leaves, Totals
<1> QED BY <1>1, <1>2, <1>3

\* What is not registered reserves nothing.
LEMMA UntouchedKept ==
  ASSUME MoneyInv, Shape', Leaves \/ \E o \in Operations : Settles(o)
  PROVE  Untouched'
<1>1. CASE Leaves
  BY <1>1 DEF Leaves, Untouched, MoneyInv
<1>2. ASSUME NEW o \in Operations, Settles(o) PROVE Untouched'
  <2>1. /\ \A p \in Operations : p # o => reserve'[p] = reserve[p]
        /\ outcome'[o] # "open" => reserve'[o] = 0
    BY <1>2, Settled DEF Settles, MoneyInv, IInv
  <2>2. \A p \in Operations : p # o => outcome'[p] = outcome[p]
    BY <1>2 DEF Settles, MoneyInv, IInv, Shape
  <2> QED BY <2>1, <2>2 DEF Untouched, MoneyInv
<1> QED BY <1>1, <1>2

\* Every step settles one operation or leaves all charges as they are.
LEMMA StepSettlesOrLeaves ==
  ASSUME MoneyInv, Shape', [Next]_vars
  PROVE  \/ \E o \in Operations : Settles(o)
         \/ /\ Leaves
            /\ \/ UNCHANGED <<reserve, reserved, held>>
               \/ HoldRefund \/ ReleaseRefund \/ \E o \in Operations : Register(o)
<1>s. Shape /\ Numbers /\ QuotesStand
  BY DEF MoneyInv, IInv
<1>1. ASSUME NEW c \in Calls, NEW cost \in Costs \cup {Unknown}, NEW result \in Results, FinishCall(c, cost, result)
      PROVE  \E o \in Operations : Settles(o)
  <2>1. callOf[c] \in Operations
    BY <1>s, <1>1 DEF FinishCall, Shape
  <2> QED BY <1>s, <1>1, <2>1, SettlingSteps
<1>2. ASSUME NEW c \in Calls, NEW cost \in Costs, NEW result \in Results, Reconcile(c, cost, result)
      PROVE  \E o \in Operations : Settles(o)
  <2>1. callOf[c] \in Operations
    BY <1>2 DEF Reconcile, Closed
  <2> QED BY <1>s, <1>2, <2>1, SettlingSteps
<1>3. ASSUME NEW o \in Operations, Recover(o) \/ \E out \in Terminal : FinishOperation(o, out)
      PROVE  Settles(o)
  BY <1>s, <1>3, SettlingSteps
<1>4. \/ UNCHANGED vars \/ HoldRefund \/ ReleaseRefund
      \/ \E o \in Operations : Register(o) \/ Resume(o) \/ Expire(o) \/ Refresh(o) \/ Spare(o)
      \/ \E c \in Calls : CallLost(c) \/ \E o \in Operations : StartCall(c, o)
      \/ \E o \in Operations : Recover(o) \/ \E out \in Terminal : FinishOperation(o, out)
      \/ \E c \in Calls, cost \in Costs \cup {Unknown}, result \in Results : FinishCall(c, cost, result)
      \/ \E c \in Calls, cost \in Costs, result \in Results : Reconcile(c, cost, result)
  BY DEF Next
<1>5. CASE \/ UNCHANGED vars \/ HoldRefund \/ ReleaseRefund
           \/ \E o \in Operations : Register(o) \/ Resume(o) \/ Expire(o) \/ Refresh(o) \/ Spare(o)
           \/ \E c \in Calls : CallLost(c) \/ \E o \in Operations : StartCall(c, o)
  BY <1>5, <1>s, OtherSteps
<1> QED BY <1>1, <1>2, <1>3, <1>4, <1>5

\* The wallet starts with its funds and without reservations.
LEMMA MoneyInitially == Init => MoneyInv
<1> SUFFICES ASSUME Init PROVE MoneyInv
  OBVIOUS
<1>1. IInv /\ Untouched
  BY Initially DEF Init, Untouched
<1>2. Numbers
  BY OperationAssumption DEF Init, Numbers, NoUsage, Records
<1>3. Totals
  <2>1. \A o \in Operations : reserve[o] = 0 /\ settled[o] = 0
    BY DEF Init
  <2>2. SumFunctionOnSet(reserve, Operations) = 0 /\ SumFunctionOnSet(settled, Operations) = 0
    BY <2>1, FiniteAssumption, SumZero
  <2> QED BY <2>2, OperationAssumption DEF Init, Totals
<1>4. QuotesStand
  BY DEF Init, QuotesStand
<1>5. NotTooMuch
  <2>1. ASSUME NEW o \in Operations PROVE settled[o] <= RoundUp(SumOf(o, Selected(o) \cap quoted, usage))
    <3>1. Selected(o) \cap quoted = {}
      BY DEF Init
    <3>2. SumOf(o, Selected(o) \cap quoted, usage) \in Nat
      BY <3>1, SumOfNatural DEF Priced
    <3>3. RoundUp(SumOf(o, Selected(o) \cap quoted, usage)) \in Nat /\ settled[o] = 0
      BY <3>2, RoundUpGrows DEF Init
    <3> QED BY <3>3
  <2> QED BY <2>1 DEF NotTooMuch
<1>6. NotTooLittle
  BY DEF Init, NotTooLittle, Closed, Terminal
<1> QED BY <1>1, <1>2, <1>3, <1>4, <1>5, <1>6 DEF MoneyInv

\* Every step keeps the invariant of the amounts.
LEMMA MoneyPreserved == MoneyInv /\ [Next]_vars => MoneyInv'
<1> SUFFICES ASSUME MoneyInv, [Next]_vars PROVE MoneyInv'
  OBVIOUS
<1>1. IInv' /\ Shape /\ Shape'
  BY Preserved DEF MoneyInv, IInv
<1>2. CASE \E o \in Operations : Settles(o)
  BY <1>1, <1>2, SettlesKeepsMoney, SettlesKeepsCharges, UntouchedKept DEF MoneyInv
<1>3. CASE /\ Leaves
           /\ \/ UNCHANGED <<reserve, reserved, held>>
              \/ HoldRefund \/ ReleaseRefund \/ \E o \in Operations : Register(o)
  BY <1>1, <1>3, ReservesKeepMoney, LeavesKeepsCharges, UntouchedKept DEF MoneyInv
<1> QED BY <1>1, <1>2, <1>3, StepSettlesOrLeaves

\* The wallet loses exactly what is settled, no operation is charged more than
\* its payable calls cost together, and a completed one without a pending_reason
\* no less (settle_operation, in every order of results, recoveries and reviews).
THEOREM ChargesAreExact == Spec => []ChargedExactly
<1>1. MoneyInv => ChargedExactly
  BY DEF MoneyInv, Totals, NotTooMuch, NotTooLittle, ChargedExactly
<1> QED BY MoneyInitially, MoneyPreserved, <1>1, PTL DEF Spec

\* wallet.reserved_units is what the operations and the refund under way reserve.
THEOREM ReservesAddUp == Spec => [](reserved = held + SumFunctionOnSet(reserve, Operations))
<1>1. MoneyInv => reserved = held + SumFunctionOnSet(reserve, Operations)
  BY DEF MoneyInv, Totals
<1> QED BY MoneyInitially, MoneyPreserved, <1>1, PTL DEF Spec

\* No settlement, admission or hold reserves units that something else holds
\* (settle_operation, _reserve and hold_purchase_refund under the wallet's lock).
THEOREM ReservesAreFree == Spec => ReservedIsFree
<1>1. ASSUME MoneyInv, [Next]_vars, reserved' > reserved PROVE reserved' <= balance'
  <2>1. Shape /\ Shape' /\ Numbers
    BY <1>1, Preserved DEF MoneyInv, IInv
  <2>2. balance \in Int /\ reserved \in Int
    BY <2>1 DEF Numbers
  <2>3. ASSUME NEW o \in Operations, Settles(o) PROVE reserved' <= balance'
    <3>1. /\ reserve'[o] \in Nat /\ reserve[o] \in Nat /\ settled[o] \in Nat
          /\ reserved' = reserved - reserve[o] + reserve'[o]
          /\ balance' = balance - (settled'[o] - settled[o])
          /\ outcome'[o] = "open" => settled'[o] = settled[o]
          /\ reserve'[o] > reserve[o] =>
               outcome'[o] = "open" /\ reserve'[o] <= balance - reserved + reserve[o]
      <4>1. reserve[o] \in Nat /\ settled[o] \in Nat
        BY <2>1 DEF Numbers
      <4> QED BY <4>1, <2>1, <2>3, SettledMoney DEF Settles
    <3> QED BY <1>1, <2>2, <3>1
  <2>4. CASE UNCHANGED <<reserve, reserved, held>>
    BY <1>1, <2>2, <2>4
  <2>5. CASE Leaves /\ (HoldRefund \/ ReleaseRefund)
    BY <1>1, <2>1, <2>2, <2>5 DEF HoldRefund, ReleaseRefund, Numbers
  <2>6. ASSUME NEW o \in Operations, Register(o) PROVE reserved' <= balance'
    BY <1>1, <2>2, <2>6, OperationAssumption DEF Register
  <2> QED BY <1>1, <2>1, <2>3, <2>4, <2>5, <2>6, StepSettlesOrLeaves
<1>2. MoneyInv /\ [Next]_vars => [reserved' > reserved => reserved' <= balance']_vars
  BY <1>1
<1> QED BY MoneyInitially, MoneyPreserved, <1>2, PTL DEF Spec, ReservedIsFree

\* The rest of the types.
Sets ==
  /\ {pending, expired, spared} \subseteq SUBSET Operations
  /\ priced \subseteq Calls
  /\ late \in [Calls -> Results \cup {"none"}]

\* They are kept whatever the amounts are.
LEMMA SetsKept == Shape /\ Sets /\ [Next]_vars => Sets'
<1> SUFFICES ASSUME Shape, Sets, [Next]_vars PROVE Sets'
  OBVIOUS
<1>s. ASSUME NEW o \in Operations, Settle(o) PROVE pending' \subseteq Operations
  BY <1>s DEF Settle, Sets
<1>1. ASSUME NEW o \in Operations, Register(o) PROVE Sets'
  BY <1>1 DEF Register, calls, Sets
<1>2. ASSUME NEW o \in Operations, Resume(o) PROVE Sets'
  BY <1>2 DEF Resume, money, calls, Sets
<1>3. ASSUME NEW o \in Operations, Recover(o) PROVE Sets'
  BY <1>3, <1>s DEF Recover, Sets
<1>4. ASSUME NEW o \in Operations, Expire(o) \/ Refresh(o) \/ Spare(o) PROVE Sets'
  BY <1>4 DEF Expire, Refresh, Spare, Open, money, calls, Sets
<1>5. ASSUME NEW o \in Operations, NEW out \in Terminal, FinishOperation(o, out) PROVE Sets'
  BY <1>5, <1>s DEF FinishOperation, calls, Sets
<1>6. ASSUME NEW o \in Operations, NEW c \in Calls, StartCall(c, o) PROVE Sets'
  <2>1. priced' \subseteq Calls
    BY <1>6 DEF StartCall, Sets
  <2> QED BY <1>6, <2>1 DEF StartCall, money, Sets
<1>7. ASSUME NEW c \in Calls, CallLost(c) PROVE Sets'
  BY <1>7 DEF CallLost, money, closing, Sets
<1>8. ASSUME NEW c \in Calls, NEW cost, NEW result \in Results, FinishCall(c, cost, result) PROVE Sets'
  <2>1. callOf[c] \in Operations /\ Settle(callOf[c])
    BY <1>8 DEF FinishCall, Shape
  <2>2. late' \in [Calls -> Results \cup {"none"}]
    BY <1>8 DEF FinishCall, Sets
  <2> QED BY <1>8, <2>1, <2>2, <1>s DEF FinishCall, closing, Sets
<1>9. ASSUME NEW c \in Calls, NEW cost, NEW result, Reconcile(c, cost, result) PROVE Sets'
  <2>1. callOf[c] \in Operations /\ Settle(callOf[c])
    BY <1>9 DEF Reconcile, Closed
  <2> QED BY <1>9, <2>1, <1>s DEF Reconcile, closing, Sets
<1>10. CASE UNCHANGED vars \/ HoldRefund \/ ReleaseRefund
  BY <1>10 DEF vars, money, closing, calls, HoldRefund, ReleaseRefund, Sets
<1> QED BY <1>1, <1>2, <1>3, <1>4, <1>5, <1>6, <1>7, <1>8, <1>9, <1>10 DEF Next

\* Every variable stays in its type; what is reserved is never negative.
THEOREM TypeCorrect == Spec => []TypeOK
<1>1. Init => Sets
  BY DEF Init, Sets
<1>2. MoneyInv => Shape
  BY DEF MoneyInv, IInv
<1>3. MoneyInv /\ Sets => TypeOK
  <2> SUFFICES ASSUME MoneyInv, Sets PROVE TypeOK
    OBVIOUS
  <2>1. reserved \in Nat
    <3>1. \A o \in Operations : reserve[o] \in Nat
      BY DEF MoneyInv, Numbers
    <3>2. SumFunctionOnSet(reserve, {}) <= SumFunctionOnSet(reserve, Operations)
      BY <3>1, FiniteAssumption, SumSubset
    <3>3. SumFunctionOnSet(reserve, Operations) \in Int
      <4>1. \A o \in Operations : reserve[o] \in Int
        BY <3>1
      <4> QED BY <4>1, FiniteAssumption, SumType
    <3>4. SumFunctionOnSet(reserve, {}) = 0
      BY SumEmpty
    <3> QED BY <3>2, <3>3, <3>4 DEF MoneyInv, Totals, Numbers
  <2> QED BY <2>1 DEF MoneyInv, IInv, Shape, Numbers, Sets, TypeOK
<1> QED BY MoneyInitially, MoneyPreserved, SetsKept, <1>1, <1>2, <1>3, PTL DEF Spec

-----------------------------------------------------------------------------
(* Refunds *)

\* The units due for a sum are a number.
LEMMA ShareIsInt == ASSUME NEW c \in Int PROVE Share(c) \in Int
<1>1. Credits * c \in Int
  BY RefundAssumption
<1>2. Price \in Int /\ Price > 0
  BY RefundAssumption
<1> QED BY <1>1, <1>2 DEF Share

\* An attempt that changes its status and identity keeps the rest.
LEMMA EditedRow ==
  ASSUME attempt \in [Attempts -> AttemptRows], NEW a \in Attempts,
         NEW s \in Statuses, NEW r \in Refunds \cup {None},
         attempt' = [attempt EXCEPT ![a].status = s, ![a].id = r]
  PROVE  /\ attempt' \in [Attempts -> AttemptRows]
         /\ attempt'[a].status = s /\ attempt'[a].id = r /\ attempt'[a].amount = attempt[a].amount
         /\ \A b \in Attempts \ {a} : attempt'[b] = attempt[b]
  BY DEF AttemptRows

\* A status alone.
LEMMA EditedStatus ==
  ASSUME attempt \in [Attempts -> AttemptRows], NEW a \in Attempts, NEW s \in Statuses,
         attempt' = [attempt EXCEPT ![a].status = s]
  PROVE  /\ attempt' \in [Attempts -> AttemptRows]
         /\ attempt'[a].status = s /\ attempt'[a].id = attempt[a].id
         /\ attempt'[a].amount = attempt[a].amount
         /\ \A b \in Attempts \ {a} : attempt'[b] = attempt[b]
  BY DEF AttemptRows

\* A new attempt.
LEMMA StagedRow ==
  ASSUME RefundTypeOK, NEW a \in Attempts, NEW m \in 0..Price, StageAttempt(a, m)
  PROVE  /\ attempt' \in [Attempts -> AttemptRows]
         /\ attempt'[a].status = "pending" /\ attempt'[a].id = None
         /\ \A b \in Attempts \ {a} : attempt'[b] = attempt[b]
<1>1. cash + m \in Int /\ reversed \in Int
  BY RefundAssumption DEF RefundTypeOK
<1>2. Owed(m) \in Int
  BY <1>1, ShareIsInt DEF Owed
<1> QED BY <1>2 DEF StageAttempt, AttemptRows, Statuses, OpenStatuses, RefundTypeOK

\* What a request shows is a status of requests.
LEMMA Told ==
  ASSUME RefundTypeOK, NEW a \in Attempts, NEW s, Tell(a, s)
  PROVE  request' \in [Attempts -> {"none", "pending", "approved", "failed", "rejected"}]
  BY DEF Tell, Shown, RefundTypeOK

\* Finalizing and failing edit one attempt and keep the types.
LEMMA FinalizeTyped ==
  ASSUME RefundTypeOK, NEW a \in Attempts, NEW r \in Refunds \cup {None}, Finalize(a, r)
  PROVE  /\ attempt' \in [Attempts -> AttemptRows] /\ holding' \subseteq Attempts
         /\ cash' \in Nat /\ reversed' \in Int
         /\ cash' = cash + attempt[a].amount
         /\ request' \in [Attempts -> {"none", "pending", "approved", "failed", "rejected"}]
         /\ attempt'[a].status = "succeeded" /\ attempt'[a].id = r
         /\ attempt'[a].amount = attempt[a].amount
         /\ \A b \in Attempts \ {a} : attempt'[b] = attempt[b]
         /\ r # None /\ cash' >= cash
<1>1. "succeeded" \in Statuses
  BY DEF Statuses
<1>2. /\ attempt' \in [Attempts -> AttemptRows]
      /\ attempt'[a].status = "succeeded" /\ attempt'[a].id = r
      /\ attempt'[a].amount = attempt[a].amount
      /\ \A b \in Attempts \ {a} : attempt'[b] = attempt[b]
  <2>1. attempt' = [attempt EXCEPT ![a].status = "succeeded", ![a].id = r]
    BY DEF Finalize
  <2>2. attempt \in [Attempts -> AttemptRows]
    BY DEF RefundTypeOK
  <2>3. r \in Refunds \cup {None} /\ "succeeded" \in Statuses
    BY <1>1
  <2> QED BY <2>1, <2>2, <2>3 DEF AttemptRows
<1>3. attempt[a].amount \in Nat /\ attempt[a].units \in Int
  BY RefundAssumption DEF RefundTypeOK, AttemptRows
<1>4. request' \in [Attempts -> {"none", "pending", "approved", "failed", "rejected"}]
  BY Told DEF Finalize
<1> QED BY <1>2, <1>3, <1>4 DEF Finalize, RefundTypeOK

\* What the failure of an attempt sets.
LEMMA FailTyped ==
  ASSUME RefundTypeOK, NEW a \in Attempts, Fail(a)
  PROVE  /\ attempt' \in [Attempts -> AttemptRows] /\ holding' \subseteq Attempts
         /\ request' \in [Attempts -> {"none", "pending", "approved", "failed", "rejected"}]
         /\ attempt'[a].status = "failed" /\ attempt'[a].id = attempt[a].id
         /\ attempt'[a].amount = attempt[a].amount
         /\ \A b \in Attempts \ {a} : attempt'[b] = attempt[b]
<1>1. "failed" \in Statuses
  BY DEF Statuses
<1>2. request' \in [Attempts -> {"none", "pending", "approved", "failed", "rejected"}]
  BY Told DEF Fail
<1> QED BY <1>1, <1>2, EditedStatus DEF Fail, RefundTypeOK

-----------------------------------------------------------------------------
\* Staging an attempt and sending it keeps the types.
LEMMA SendTyped ==
  ASSUME RefundTypeOK, NEW a \in Attempts, NEW m \in 0..Price, Send(a, m)
  PROVE  RefundTypeOK'
<1>1. attempt' \in [Attempts -> AttemptRows]
  BY StagedRow DEF Send
<1>2. request' \in [Attempts -> {"none", "pending", "approved", "failed", "rejected"}]
  BY Told DEF Send
<1>3. /\ holding' \subseteq Attempts /\ onWire' \subseteq Attempts
      /\ handler' \in [Attempts -> {"none", "waiting", "confirmed"}]
  BY DEF Send, RefundTypeOK
<1> QED BY <1>1, <1>2, <1>3 DEF Send, RefundTypeOK, inbox

\* What remains of the price is a sum.
LEMMA Remainder == ASSUME RefundTypeOK, NEW a, MayStage(a, Price - cash) PROVE Price - cash \in 0..Price
  BY RefundAssumption DEF RefundTypeOK, MayStage

\* Requests and their review keep the types.
LEMMA DecisionTyped ==
  ASSUME RefundTypeOK, NEW a \in Attempts, Decision(a)
  PROVE  RefundTypeOK'
<1>1. CASE Submit(a)
  BY <1>1 DEF Submit, RefundTypeOK, billing, provider, inbox
<1>2. CASE Reject(a)
  BY <1>2 DEF Reject, RefundTypeOK, billing, provider, inbox
<1>3. CASE Approve(a)
  BY <1>3, Remainder, SendTyped DEF Approve, Send
<1>4. CASE ApproveUnheld(a)
  <2>1. attempt' \in [Attempts -> AttemptRows]
    BY <1>4, Remainder, StagedRow DEF ApproveUnheld
  <2>2. request' \in [Attempts -> {"none", "pending", "approved", "failed", "rejected"}]
    BY <1>4, Told DEF ApproveUnheld
  <2> QED BY <1>4, <2>1, <2>2 DEF ApproveUnheld, RefundTypeOK, billing, provider, inbox
<1>5. CASE ApproveRefused(a)
  BY <1>5 DEF ApproveRefused, RefundTypeOK, billing, provider, inbox
<1>6. CASE ApproveAgain(a)
  <2>1. request' \in [Attempts -> {"none", "pending", "approved", "failed", "rejected"}]
    <3>1. CASE cash = Price
      BY <1>6, <3>1 DEF ApproveAgain, RefundTypeOK
    <3>2. CASE cash # Price
      BY <1>6, <3>2, Told DEF ApproveAgain
    <3> QED BY <3>1, <3>2
  <2> QED BY <1>6, <2>1 DEF ApproveAgain, RefundTypeOK, billing, provider, inbox
<1>7. CASE ResumeRefund(a)
  <2>1. attempt[a].id \in Refunds \cup {None}
    BY DEF RefundTypeOK, AttemptRows
  <2> QED BY <1>7, <2>1, FinalizeTyped DEF ResumeRefund, RefundTypeOK, provider, inbox
<1>8. ASSUME NEW m \in 1..Price, RefundDirectly(a, m) PROVE RefundTypeOK'
  <2>1. m \in 0..Price
    BY RefundAssumption
  <2> QED BY <1>8, <2>1, SendTyped DEF RefundDirectly
<1> QED BY <1>1, <1>2, <1>3, <1>4, <1>5, <1>6, <1>7, <1>8 DEF Decision

\* The answer of the call and an operator's reconciliation keep the types.
LEMMA CallTyped ==
  ASSUME RefundTypeOK, NEW a \in Attempts, Call(a) \/ Operator(a)
  PROVE  RefundTypeOK'
<1>0. attempt[a].id \in Refunds \cup {None} /\ Refunds \subseteq Refunds \cup {None}
  BY DEF RefundTypeOK, AttemptRows
<1>1. CASE HandlerLost(a)
  <2>1. request' \in [Attempts -> {"none", "pending", "approved", "failed", "rejected"}]
    BY <1>1, Told DEF HandlerLost, RefundTypeOK
  <2> QED BY <1>1, <2>1 DEF HandlerLost, RefundTypeOK, billing, provider, inbox
<1>2. CASE AnswerUnknown(a)
  <2>1. PICK r \in {None} \cup {s \in Refunds : wire[s].by = a} :
          attempt' = [attempt EXCEPT ![a].status = "unknown", ![a].id = r]
    BY <1>2 DEF AnswerUnknown
  <2>2. "unknown" \in Statuses /\ r \in Refunds \cup {None} /\ attempt \in [Attempts -> AttemptRows]
    BY <2>1 DEF Statuses, OpenStatuses, RefundTypeOK
  <2>3. attempt' \in [Attempts -> AttemptRows]
    BY <2>1, <2>2, EditedRow
  <2>4. request' \in [Attempts -> {"none", "pending", "approved", "failed", "rejected"}]
    BY <1>2, Told DEF AnswerUnknown
  <2> QED BY <1>2, <2>3, <2>4 DEF AnswerUnknown, RefundTypeOK, billing, provider, inbox
<1>3. CASE AnswerLate(a)
  <2>1. CASE Finalize(a, attempt[a].id)
    BY <1>3, <2>1, <1>0, FinalizeTyped DEF AnswerLate, RefundTypeOK, provider, inbox
  <2>2. CASE Tell(a, Status(a)) /\ UNCHANGED <<attempt, billing>>
    BY <1>3, <2>2, Told DEF AnswerLate, RefundTypeOK, billing, provider, inbox
  <2> QED BY <1>3, <2>1, <2>2 DEF AnswerLate
<1>4. ASSUME NEW r \in Refunds, AnswerConfirmed(a, r) PROVE RefundTypeOK'
  <2>1. "upstream_succeeded" \in Statuses /\ attempt \in [Attempts -> AttemptRows]
    BY DEF Statuses, OpenStatuses, RefundTypeOK
  <2>2. attempt' = [attempt EXCEPT ![a].status = "upstream_succeeded", ![a].id = r]
    BY <1>4 DEF AnswerConfirmed
  <2>3. attempt' \in [Attempts -> AttemptRows]
    BY <1>0, <2>1, <2>2, EditedRow
  <2> QED BY <1>4, <2>3 DEF AnswerConfirmed, RefundTypeOK, billing, provider, inbox
<1>5. CASE ReconcileNotRefunded(a)
  BY <1>5, FailTyped DEF ReconcileNotRefunded, RefundTypeOK, provider, inbox
<1>6. ASSUME NEW r \in Refunds, ReconcileRefunded(a, r) PROVE RefundTypeOK'
  BY <1>6, <1>0, FinalizeTyped DEF ReconcileRefunded, RefundTypeOK, provider, inbox
<1> QED BY <1>1, <1>2, <1>3, <1>4, <1>5, <1>6 DEF Call, Operator

\* The provider keeps the types of its refunds.
LEMMA ProviderTyped == ASSUME RefundTypeOK, Provider PROVE RefundTypeOK'
<1>1. ASSUME NEW r \in Refunds, NEW m \in 0..Price, NEW a \in Attempts \cup {None}, Begin(r, m, a)
      PROVE  /\ wire' \in [Refunds -> WireRefunds]
             /\ UNCHANGED <<attempt, request, handler, billing, inbox>>
  <2>1. [state |-> "pending", amount |-> m, by |-> a] \in WireRefunds
    BY DEF WireRefunds
  <2> QED BY <1>1, <2>1 DEF Begin, RefundTypeOK
<1>2. ASSUME NEW a \in Attempts, Decline(a) PROVE RefundTypeOK'
  BY <1>2 DEF Decline, RefundTypeOK, billing, inbox
<1>3. ASSUME NEW a \in Attempts, NEW r \in Refunds, Execute(a, r) PROVE RefundTypeOK'
  <2>1. attempt[a].amount \in 0..Price
    BY DEF RefundTypeOK, AttemptRows
  <2>2. /\ wire' \in [Refunds -> WireRefunds]
        /\ UNCHANGED <<attempt, request, handler, billing, inbox>>
    BY <1>1, <1>3, <2>1 DEF Execute
  <2> QED BY <1>3, <2>2 DEF Execute, RefundTypeOK, billing, inbox
<1>4. ASSUME NEW r \in Refunds, NEW m \in 1..Price, RefundElsewhere(r, m) PROVE RefundTypeOK'
  <2>1. m \in 0..Price
    BY RefundAssumption
  <2>2. /\ wire' \in [Refunds -> WireRefunds]
        /\ UNCHANGED <<attempt, request, handler, billing, inbox>>
    BY <1>1, <1>4, <2>1 DEF RefundElsewhere
  <2> QED BY <1>4, <2>2 DEF RefundElsewhere, RefundTypeOK, billing, inbox
<1>5. ASSUME NEW r \in Refunds, Decide(r) PROVE RefundTypeOK'
  <2>1. wire' \in [Refunds -> WireRefunds]
    BY <1>5 DEF Decide, RefundTypeOK, WireRefunds
  <2> QED BY <1>5, <2>1 DEF Decide, RefundTypeOK, billing, inbox
<1> QED BY <1>2, <1>3, <1>4, <1>5 DEF Provider

\* What the processed receipt of an outcome sets.
LEMMA CloseTyped ==
  ASSUME RefundTypeOK, NEW r \in Refunds, Close(r)
  PROVE  /\ final' \subseteq Refunds
         /\ waiting' \in [Refunds -> {"none", "due", "replaying", "stored", "skipped", "processed"}]
  BY DEF Close, Stored, RefundTypeOK

\* Receipts and their replay keep the types.
LEMMA ReceiveTyped ==
  ASSUME RefundTypeOK, NEW r \in Refunds, Receive(r) \/ Pending(r)
  PROVE  RefundTypeOK'
<1>1. ASSUME NEW a \in Attempts, ReceiveOwned(r, a) PROVE RefundTypeOK'
  <2>1. r \in Refunds \cup {None}
    OBVIOUS
  <2>2. CASE Status(a) = "succeeded"
    BY <1>1, <2>2, Told, CloseTyped DEF ReceiveOwned, RefundTypeOK, billing, provider
  <2>3. CASE Status(a) # "succeeded"
    BY <1>1, <2>1, <2>3, FinalizeTyped, CloseTyped DEF ReceiveOwned, RefundTypeOK, provider
  <2> QED BY <2>2, <2>3
<1>2. CASE ReceiveForeign(r)
  <2>1. wire[r].amount \in Nat
    BY RefundAssumption DEF RefundTypeOK, WireRefunds
  <2>2. Owed(wire[r].amount) \in Int
    BY <2>1, ShareIsInt DEF Owed, RefundTypeOK
  <2>3. cash' \in Nat /\ reversed' \in Int
    BY <1>2, <2>1, <2>2 DEF ReceiveForeign, RefundTypeOK
  <2> QED BY <1>2, <2>3, CloseTyped DEF ReceiveForeign, RefundTypeOK, provider
<1>3. CASE ReceiveDenied(r)
  <2>1. /\ attempt' \in [Attempts -> AttemptRows] /\ holding' \subseteq Attempts
        /\ request' \in [Attempts -> {"none", "pending", "approved", "failed", "rejected"}]
    <3>1. CASE UNCHANGED <<attempt, holding, request>>
      BY <3>1 DEF RefundTypeOK
    <3>2. ASSUME NEW a \in Attempts, Fail(a) PROVE <2>1
      BY <3>2, FailTyped
    <3>3. ASSUME NEW a \in Attempts, Tell(a, "failed"), UNCHANGED <<attempt, holding>> PROVE <2>1
      BY <3>3, Told DEF RefundTypeOK
    <3> QED BY <1>3, <3>1, <3>2, <3>3 DEF ReceiveDenied
  <2> QED BY <1>3, <2>1, CloseTyped DEF ReceiveDenied, RefundTypeOK, provider
<1>4. CASE Pending(r)
  BY <1>4 DEF Pending, ReceivePending, ReplayPending, ResolvePending, ReplayDies, Stored, RefundTypeOK,
    billing, provider
<1> QED BY <1>1, <1>2, <1>3, <1>4 DEF Receive

\* Every step keeps the types.
LEMMA RefundTypeStep == RefundTypeOK /\ [RefundNext]_refundVars => RefundTypeOK'
<1>1. SUFFICES ASSUME RefundTypeOK, [RefundNext]_refundVars PROVE RefundTypeOK'
  OBVIOUS
<1>2. CASE UNCHANGED refundVars
  BY <1>1, <1>2 DEF refundVars, RefundTypeOK, billing, provider, inbox
<1>3. CASE RefundNext
  BY <1>1, <1>3, DecisionTyped, CallTyped, ProviderTyped, ReceiveTyped DEF RefundNext
<1> QED BY <1>1, <1>2, <1>3

\* The types hold before the first refund.
LEMMA RefundTypeInit == RefundInit => RefundTypeOK
<1>1. SUFFICES ASSUME RefundInit PROVE RefundTypeOK
  OBVIOUS
<1>2. [status |-> "none", amount |-> 0, units |-> 0, id |-> None] \in AttemptRows
  BY RefundAssumption DEF AttemptRows, Statuses
<1>3. [state |-> "none", amount |-> 0, by |-> None] \in WireRefunds
  BY RefundAssumption DEF WireRefunds
<1> QED BY <1>1, <1>2, <1>3 DEF RefundInit, RefundTypeOK

\* Every variable keeps its type, for every set of keys and refunds, every
\* price and every number of credits.
THEOREM RefundTypeCorrect == RefundSpec => []RefundTypeOK
  BY RefundTypeInit, RefundTypeStep, PTL DEF RefundSpec

-----------------------------------------------------------------------------
Finished == {"succeeded", "failed"}

\* An order has at most one unresolved attempt.
OneActive == \A a, b \in Active : a = b

\* A key without an attempt has asked nothing.
Blank ==
  \A a \in Attempts : Status(a) = "none" =>
    attempt[a].id = None /\ a \notin onWire /\ \A r \in Refunds : wire[r].by # a

\* A refund that does not exist is known nowhere.
Unmade ==
  \A r \in Refunds : wire[r].state = "none" =>
    wire[r].by = None /\ r \notin references /\ \A a \in Attempts : attempt[a].id # r

\* An attempt makes one refund, of its amount.
AskedOnce ==
  \A r \in Refunds : wire[r].by # None =>
    /\ wire[r].by \notin onWire
    /\ wire[r].amount = attempt[wire[r].by].amount
    /\ \A s \in Refunds : wire[s].by = wire[r].by => s = r

\* An unresolved attempt names none but its own refund, and none that counts.
NamesItsOwn ==
  \A a \in Active : attempt[a].id # None =>
    wire[attempt[a].id].by = a /\ attempt[a].id \notin references

\* What was confirmed was made.
Made ==
  /\ \A a \in Attempts : Status(a) \in {"upstream_succeeded", "succeeded"} =>
       attempt[a].id \in Refunds /\ wire[attempt[a].id].state = "done"
  /\ \A r \in references : r \in final /\ wire[r].state = "done"

\* No two attempts that may still count share a refund.
Distinct ==
  \A a, b \in Attempts :
    a # b /\ Status(a) # "failed" /\ Status(b) # "failed" /\ attempt[a].id = attempt[b].id =>
      attempt[a].id = None

\* The attempt whose refund was counted, or given to another, is over.
Taken ==
  \A r \in Refunds :
    /\ wire[r].by # None
    /\ r \in references \/ \E a \in Attempts : a # wire[r].by /\ attempt[a].id = r /\ Status(a) # "failed"
    => Status(wire[r].by) \in Finished

Books == OneActive /\ Blank /\ Unmade /\ AskedOnce /\ NamesItsOwn /\ Made /\ Distinct /\ Taken

-----------------------------------------------------------------------------
\* What a step may do to the books.
OthersKept(a) == \A b \in Attempts \ {a} : attempt'[b] = attempt[b]

Quiet ==
  UNCHANGED <<attempt, wire, cash, references>> /\ onWire' \subseteq onWire /\ final \subseteq final'

Staging(a) ==
  /\ Status(a) = "none" /\ Active = {}
  /\ attempt'[a].status = "pending" /\ attempt'[a].id = None /\ OthersKept(a)
  /\ onWire' \subseteq onWire \cup {a}
  /\ UNCHANGED <<wire, cash, references, final>>

Learning(a) ==
  /\ Status(a) \in {"pending", "unknown"}
  /\ attempt'[a].status \in {"unknown", "upstream_succeeded"}
  /\ attempt'[a].amount = attempt[a].amount /\ OthersKept(a)
  /\ attempt'[a].id # None => attempt'[a].id \in Refunds /\ wire[attempt'[a].id].by = a
  /\ attempt'[a].status = "upstream_succeeded" =>
       attempt'[a].id # None /\ wire[attempt'[a].id].state = "done"
  /\ UNCHANGED <<onWire, wire, cash, references, final>>

Succeeding(a, r) ==
  /\ Status(a) \in OpenStatuses /\ wire[r].state = "done" /\ r \notin references
  /\ wire[r].amount = attempt[a].amount
  /\ attempt[a].id = r \/ wire[r].by = a \/ (Named(r) = {} /\ attempt[a].id = None)
  /\ attempt'[a].status = "succeeded" /\ attempt'[a].id = r
  /\ attempt'[a].amount = attempt[a].amount /\ OthersKept(a)
  /\ cash' = cash + attempt[a].amount
  /\ references' = references \/ (references' = references \cup {r} /\ r \in final')
  /\ final \subseteq final'
  /\ UNCHANGED <<onWire, wire>>

Failing(a) ==
  /\ Status(a) \in OpenStatuses
  /\ attempt'[a].status = "failed" /\ attempt'[a].id = attempt[a].id
  /\ attempt'[a].amount = attempt[a].amount /\ OthersKept(a)
  /\ final \subseteq final'
  /\ UNCHANGED <<onWire, wire, cash, references>>

Noting(a, r) ==
  /\ Status(a) = "succeeded" /\ attempt[a].id = r /\ wire[r].state = "done"
  /\ references' = references \cup {r} /\ r \in final' /\ final \subseteq final'
  /\ UNCHANGED <<attempt, onWire, wire, cash>>

Taking(r) ==
  /\ wire[r].state = "done" /\ r \notin references /\ Owner(r) = {}
  /\ cash' = cash + wire[r].amount
  /\ references' = references \cup {r} /\ r \in final' /\ final \subseteq final'
  /\ UNCHANGED <<attempt, onWire, wire>>

Making(r, a) ==
  /\ wire[r].state = "none" /\ wire'[r].state = "pending" /\ wire'[r].by = a
  /\ a # None => a \in onWire /\ a \notin onWire' /\ wire'[r].amount = attempt[a].amount
  /\ \A s \in Refunds \ {r} : wire'[s] = wire[s]
  /\ onWire' \subseteq onWire
  /\ UNCHANGED <<attempt, cash, references, final>>

Deciding(r) ==
  /\ wire[r].state = "pending" /\ wire'[r].state # "none"
  /\ wire'[r].by = wire[r].by /\ wire'[r].amount = wire[r].amount
  /\ \A s \in Refunds \ {r} : wire'[s] = wire[s]
  /\ UNCHANGED <<attempt, onWire, cash, references, final>>

Effect ==
  \/ Quiet
  \/ \E a \in Attempts : Staging(a) \/ Learning(a) \/ Failing(a)
  \/ \E a \in Attempts, r \in Refunds : Succeeding(a, r) \/ Noting(a, r)
  \/ \E r \in Refunds : Taking(r) \/ Deciding(r) \/ \E a \in Attempts \cup {None} : Making(r, a)

\* A confirmed refund of an unresolved attempt is its own and not counted yet.
LEMMA Finishable ==
  ASSUME RefundTypeOK, Books, NEW a \in Attempts, Status(a) = "upstream_succeeded", Finalize(a, attempt[a].id),
         UNCHANGED <<onWire, wire, references, final>>
  PROVE  Effect
<1>1. attempt[a].id \in Refunds /\ wire[attempt[a].id].state = "done" /\ attempt[a].id # None
  BY RefundAssumption DEF Books, Made
<1>2. a \in Active
  BY DEF Active, OpenStatuses
<1>3. wire[attempt[a].id].by = a /\ attempt[a].id \notin references
  BY <1>1, <1>2 DEF Books, NamesItsOwn
<1>4. wire[attempt[a].id].amount = attempt[a].amount
  BY <1>1, <1>3, RefundAssumption DEF Books, AskedOnce
<1>5. attempt[a].id \in Refunds \cup {None}
  BY <1>1
<1>6. Succeeding(a, attempt[a].id)
  BY <1>1, <1>2, <1>3, <1>4, <1>5, FinalizeTyped DEF Succeeding, OthersKept, Active
<1> QED BY <1>1, <1>6 DEF Effect

\* A request or its review stages an attempt, resumes one or leaves the
\* books.
LEMMA DecisionEffect ==
  ASSUME RefundTypeOK, Books, NEW a \in Attempts, Decision(a)
  PROVE  Effect
<1>1. ASSUME NEW m \in 0..Price, Send(a, m) PROVE Effect
  <2>1. Staging(a)
    BY <1>1, StagedRow DEF Send, MayStage, Staging, OthersKept, inbox
  <2> QED BY <2>1 DEF Effect
<1>2. CASE Submit(a) \/ Reject(a) \/ ApproveRefused(a) \/ ApproveAgain(a)
  <2>1. Quiet
    BY <1>2 DEF Submit, Reject, ApproveRefused, ApproveAgain, Quiet, billing, provider, inbox
  <2> QED BY <2>1 DEF Effect
<1>3. CASE Approve(a)
  BY <1>1, <1>3, Remainder DEF Approve, Send
<1>4. CASE ApproveUnheld(a)
  <2>1. Staging(a)
    BY <1>4, Remainder, StagedRow DEF ApproveUnheld, MayStage, Staging, OthersKept, billing, provider, inbox
  <2> QED BY <2>1 DEF Effect
<1>5. CASE ResumeRefund(a)
  BY <1>5, Finishable DEF ResumeRefund, provider, inbox
<1>6. ASSUME NEW m \in 1..Price, RefundDirectly(a, m) PROVE Effect
  <2>1. m \in 0..Price
    BY RefundAssumption
  <2> QED BY <1>1, <1>6, <2>1 DEF RefundDirectly
<1> QED BY <1>2, <1>3, <1>4, <1>5, <1>6 DEF Decision

\* An answer or an operator learns of an attempt, ends it or leaves the
\* books.
LEMMA CallEffect ==
  ASSUME RefundTypeOK, Books, NEW a \in Attempts, Call(a) \/ Operator(a)
  PROVE  Effect
<1>0. attempt \in [Attempts -> AttemptRows] /\ Status(a) \in Statuses
  BY DEF RefundTypeOK, AttemptRows, Status
<1>1. CASE HandlerLost(a)
  <2>1. Quiet
    BY <1>1 DEF HandlerLost, Quiet, billing, provider, inbox
  <2> QED BY <2>1 DEF Effect
<1>2. CASE AnswerUnknown(a)
  <2>1. PICK r \in {None} \cup {s \in Refunds : wire[s].by = a} :
          attempt' = [attempt EXCEPT ![a].status = "unknown", ![a].id = r]
    BY <1>2 DEF AnswerUnknown
  <2>2. "unknown" \in Statuses /\ r \in Refunds \cup {None}
    BY <2>1 DEF Statuses, OpenStatuses
  <2>3. /\ attempt'[a].status = "unknown" /\ attempt'[a].id = r
        /\ attempt'[a].amount = attempt[a].amount /\ OthersKept(a)
    BY <1>0, <2>1, <2>2 DEF OthersKept, AttemptRows
  <2>4. Learning(a)
    BY <1>2, <2>1, <2>3 DEF AnswerUnknown, Superseded, Learning, billing, provider, inbox
  <2> QED BY <2>4 DEF Effect
<1>3. CASE AnswerLate(a)
  <2>1. CASE Status(a) = "upstream_succeeded" /\ Covered(a)
    BY <1>3, <2>1, Finishable DEF AnswerLate, provider, inbox
  <2>2. CASE ~(Status(a) = "upstream_succeeded" /\ Covered(a))
    <3>1. Quiet
      BY <1>3, <2>2 DEF AnswerLate, Quiet, billing, provider, inbox
    <3> QED BY <3>1 DEF Effect
  <2> QED BY <2>1, <2>2
<1>4. ASSUME NEW r \in Refunds, AnswerConfirmed(a, r) PROVE Effect
  <2>1. "upstream_succeeded" \in Statuses /\ r \in Refunds \cup {None} /\ r # None
    BY RefundAssumption DEF Statuses, OpenStatuses
  <2>2. attempt' = [attempt EXCEPT ![a].status = "upstream_succeeded", ![a].id = r]
    BY <1>4 DEF AnswerConfirmed
  <2>3. /\ attempt'[a].status = "upstream_succeeded" /\ attempt'[a].id = r
        /\ attempt'[a].amount = attempt[a].amount /\ OthersKept(a)
    BY <1>0, <2>1, <2>2 DEF OthersKept, AttemptRows
  <2>4. Learning(a)
    BY <1>4, <2>1, <2>3 DEF AnswerConfirmed, Superseded, Learning, billing, provider, inbox
  <2> QED BY <2>4 DEF Effect
<1>5. CASE ReconcileNotRefunded(a)
  <2>1. Failing(a)
    BY <1>5, FailTyped DEF ReconcileNotRefunded, Failing, OthersKept, OpenStatuses, provider, inbox
  <2> QED BY <2>1 DEF Effect
<1>6. ASSUME NEW r \in Refunds, ReconcileRefunded(a, r) PROVE Effect
  <2>1. wire[r].amount = attempt[a].amount
    BY <1>6, RefundAssumption DEF ReconcileRefunded, Books, AskedOnce
  <2>2. r \in Refunds \cup {None}
    OBVIOUS
  <2>3. Succeeding(a, r)
    BY <1>6, <2>1, <2>2, FinalizeTyped DEF ReconcileRefunded, Succeeding, OthersKept, provider, inbox
  <2> QED BY <2>3 DEF Effect
<1> QED BY <1>1, <1>2, <1>3, <1>4, <1>5, <1>6 DEF Call, Operator

\* The provider makes a refund, decides one or leaves the books.
LEMMA ProviderEffect == ASSUME RefundTypeOK, Books, Provider PROVE Effect
<1>1. ASSUME NEW a \in Attempts, Decline(a) PROVE Effect
  <2>1. Quiet
    BY <1>1 DEF Decline, Quiet, billing, inbox
  <2> QED BY <2>1 DEF Effect
<1>2. ASSUME NEW r \in Refunds, NEW m, NEW a, Begin(r, m, a)
      PROVE  /\ wire[r].state = "none" /\ wire'[r].state = "pending"
             /\ wire'[r].by = a /\ wire'[r].amount = m
             /\ \A s \in Refunds \ {r} : wire'[s] = wire[s]
             /\ UNCHANGED <<attempt, cash, references, final>>
  BY <1>2 DEF Begin, RefundTypeOK, billing, inbox
<1>3. ASSUME NEW a \in Attempts, NEW r \in Refunds, Execute(a, r) PROVE Effect
  <2>1. Making(r, a)
    BY <1>2, <1>3 DEF Execute, Making
  <2> QED BY <2>1 DEF Effect
<1>4. ASSUME NEW r \in Refunds, NEW m \in 1..Price, RefundElsewhere(r, m) PROVE Effect
  <2>1. Making(r, None)
    BY <1>2, <1>4 DEF RefundElsewhere, Making
  <2> QED BY <2>1 DEF Effect
<1>5. ASSUME NEW r \in Refunds, Decide(r) PROVE Effect
  <2>1. PICK st \in {"done", "refused"} : wire' = [wire EXCEPT ![r].state = st]
    BY <1>5 DEF Decide
  <2>2. /\ wire'[r].state # "none" /\ wire'[r].by = wire[r].by /\ wire'[r].amount = wire[r].amount
        /\ \A s \in Refunds \ {r} : wire'[s] = wire[s]
    BY <2>1 DEF RefundTypeOK, WireRefunds
  <2>3. Deciding(r)
    BY <1>5, <2>2 DEF Decide, Deciding, billing, inbox
  <2> QED BY <2>3 DEF Effect
<1> QED BY <1>1, <1>3, <1>4, <1>5 DEF Provider

\* A receipt ends an attempt, notes its refund or takes one made elsewhere.
LEMMA ReceiveEffect ==
  ASSUME RefundTypeOK, Books, NEW r \in Refunds, Receive(r) \/ Pending(r)
  PROVE  Effect
<1>0. r \notin final => r \notin references
  BY DEF Books, Made
<1>1. ASSUME Close(r) PROVE r \in final' /\ final \subseteq final'
  BY <1>1 DEF Close
<1>2. ASSUME NEW a \in Attempts, ReceiveOwned(r, a) PROVE Effect
  <2>1. Status(a) \in OpenStatuses \/ Status(a) = "succeeded"
    <3>1. Status(a) \in Statuses
      BY DEF RefundTypeOK, AttemptRows, Status
    <3>2. Status(a) # "none"
      BY <1>2, RefundAssumption DEF ReceiveOwned, MayCount, Owner, Named, Active, OpenStatuses, Books, Blank
    <3> QED BY <1>2, <3>1, <3>2 DEF ReceiveOwned, MayCount, Statuses
  <2>2. attempt[a].id = r \/ (Named(r) = {} /\ attempt[a].id = None /\ a \in Active)
    BY <1>2 DEF ReceiveOwned, MayCount, Owner, Named
  <2>3. CASE Status(a) = "succeeded"
    <3>1. Noting(a, r)
      BY <1>1, <1>2, <2>2, <2>3 DEF ReceiveOwned, Noting, Active, OpenStatuses, billing, provider
    <3> QED BY <3>1 DEF Effect
  <2>4. CASE Status(a) # "succeeded"
    <3>1. r \in Refunds \cup {None}
      OBVIOUS
    <3>2. Finalize(a, r)
      BY <1>2, <2>4 DEF ReceiveOwned
    <3>3. Succeeding(a, r)
      BY <1>0, <1>1, <1>2, <2>1, <2>2, <2>4, <3>1, <3>2, FinalizeTyped
      DEF ReceiveOwned, MayCount, Succeeding, OthersKept, provider
    <3> QED BY <3>3 DEF Effect
  <2> QED BY <2>3, <2>4
<1>3. CASE ReceiveForeign(r)
  <2>1. Taking(r)
    BY <1>0, <1>1, <1>3 DEF ReceiveForeign, MayTake, Taking, provider
  <2> QED BY <2>1 DEF Effect
<1>4. CASE ReceiveDenied(r)
  <2>1. CASE UNCHANGED <<attempt, holding>>
    <3>1. Quiet
      BY <1>1, <1>4, <2>1 DEF ReceiveDenied, Quiet, provider
    <3> QED BY <3>1 DEF Effect
  <2>2. ASSUME NEW a \in Attempts, Status(a) \in OpenStatuses, Fail(a) PROVE Effect
    <3>1. Failing(a)
      BY <1>1, <1>4, <2>2, FailTyped DEF ReceiveDenied, Failing, OthersKept, provider
    <3> QED BY <3>1 DEF Effect
  <2> QED BY <1>4, <2>1, <2>2 DEF ReceiveDenied
<1>5. CASE Pending(r)
  <2>1. Quiet
    BY <1>5 DEF Pending, ReceivePending, ReplayPending, ResolvePending, ReplayDies, Quiet,
      billing, provider
  <2> QED BY <2>1 DEF Effect
<1> QED BY <1>2, <1>3, <1>4, <1>5 DEF Receive

\* So every step is one of the effects.
LEMMA StepEffect == ASSUME RefundTypeOK, Books, [RefundNext]_refundVars PROVE Effect
<1>1. CASE UNCHANGED refundVars
  <2>1. Quiet
    BY <1>1 DEF refundVars, Quiet, billing, provider, inbox
  <2> QED BY <2>1 DEF Effect
<1>2. CASE RefundNext
  BY <1>2, DecisionEffect, CallEffect, ProviderEffect, ReceiveEffect DEF RefundNext
<1> QED BY <1>1, <1>2

-----------------------------------------------------------------------------
\* Every effect keeps the books; one step per conjunct it can disturb.
LEMMA QuietBooks == ASSUME RefundTypeOK, Books, Quiet PROVE Books'
  BY DEF Books, OneActive, Blank, Unmade, AskedOnce, NamesItsOwn, Made, Distinct, Taken, Quiet,
    Active, Status

\* A staged attempt has no past, so the books stand.
LEMMA StagingBooks ==
  ASSUME RefundTypeOK, RefundTypeOK', Books, NEW a \in Attempts, Staging(a)
  PROVE  Books'
<1>0. /\ \A b \in Attempts \ {a} : attempt'[b] = attempt[b]
      /\ \A r \in Refunds : wire[r].by # a
      /\ attempt[a].id = None
  BY DEF Staging, OthersKept, Books, Blank
<1>1. OneActive'
  BY <1>0 DEF Staging, OneActive, Active, Status
<1>2. Blank'
  BY <1>0 DEF Staging, Books, Blank, Status
<1>3. Unmade'
  BY <1>0, RefundAssumption DEF Staging, Books, Unmade
<1>4. AskedOnce'
  <2>1. \A r \in Refunds : wire[r].by # None => wire[r].by \in Attempts \ {a}
    BY <1>0 DEF RefundTypeOK, WireRefunds
  <2> QED BY <1>0, <2>1 DEF Staging, Books, AskedOnce
<1>5. NamesItsOwn'
  BY <1>0 DEF Staging, Books, NamesItsOwn, Active, Status
<1>6. Made'
  BY <1>0 DEF Staging, Books, Made, Status
<1>7. Distinct'
  BY <1>0 DEF Staging, Books, Distinct, Status
<1>8. Taken'
  <2>1. \A r \in Refunds : wire[r].by # None => wire[r].by \in Attempts \ {a}
    BY <1>0 DEF RefundTypeOK, WireRefunds
  <2>2. \A r \in Refunds : r # None
    BY RefundAssumption
  <2> QED BY <1>0, <2>1, <2>2 DEF Staging, Books, Taken, Status
<1> QED BY <1>1, <1>2, <1>3, <1>4, <1>5, <1>6, <1>7, <1>8 DEF Books

\* The attempt that learns is the unresolved one, so nobody took its refund.
LEMMA LearningBooks ==
  ASSUME RefundTypeOK, RefundTypeOK', Books, NEW a \in Attempts, Learning(a)
  PROVE  Books'
<1>0. /\ \A b \in Attempts \ {a} : attempt'[b] = attempt[b]
      /\ a \in Active /\ Status(a) \notin Finished
  BY DEF Learning, OthersKept, Active, OpenStatuses, Finished
<1>1. attempt'[a].id # None =>
        /\ attempt'[a].id \in Refunds /\ attempt'[a].id \notin references
        /\ \A b \in Attempts \ {a} : Status(b) # "failed" => attempt[b].id # attempt'[a].id
  BY <1>0, RefundAssumption DEF Learning, Books, Taken
<1>2. OneActive'
  <2>1. Active' \subseteq Active
    BY <1>0 DEF Active, Status
  <2> QED BY <2>1 DEF Books, OneActive
<1>3. Blank'
  BY <1>0 DEF Learning, Books, Blank, Status
<1>4. Unmade'
  BY <1>0, <1>1, RefundAssumption DEF Learning, Books, Unmade
<1>5. AskedOnce'
  <2>1. \A r \in Refunds : wire[r].by # None => wire[r].by \in Attempts
    BY DEF RefundTypeOK, WireRefunds
  <2>2. \A b \in Attempts : attempt'[b].amount = attempt[b].amount
    BY <1>0 DEF Learning
  <2> QED BY <2>1, <2>2 DEF Learning, Books, AskedOnce
<1>6. NamesItsOwn'
  BY <1>0, <1>1 DEF Learning, Books, NamesItsOwn, Active, Status
<1>7. Made'
  BY <1>0, <1>1 DEF Learning, Books, Made, Status
<1>8. Distinct'
  BY <1>0, <1>1 DEF Learning, Books, Distinct, Status
<1>9. Taken'
  <2>1. \A r \in Refunds : wire[r].by # None => wire[r].by \in Attempts
    BY DEF RefundTypeOK, WireRefunds
  <2>2. ASSUME NEW r \in Refunds, wire[r].by # None,
               r \in references \/ \E c \in Attempts : c # wire[r].by /\ attempt'[c].id = r /\ attempt'[c].status # "failed"
        PROVE  attempt'[wire[r].by].status \in Finished
    <3>1. CASE r \in references
      BY <1>0, <2>1, <2>2, <3>1 DEF Books, Taken, Status
    <3>2. ASSUME NEW c \in Attempts, c # wire[r].by, attempt'[c].id = r, attempt'[c].status # "failed"
          PROVE  attempt'[wire[r].by].status \in Finished
      <4>1. c # a
        BY <2>2, <3>2, RefundAssumption DEF Learning
      <4>2. Status(wire[r].by) \in Finished
        BY <1>0, <2>2, <3>2, <4>1 DEF Books, Taken, Status
      <4> QED BY <1>0, <2>1, <2>2, <4>2 DEF Status
    <3> QED BY <2>2, <3>1, <3>2
  <2> QED BY <2>2 DEF Taken, Status, Learning, Finished
<1> QED BY <1>2, <1>3, <1>4, <1>5, <1>6, <1>7, <1>8, <1>9 DEF Books

\* The attempt that succeeds is the only one that may count its refund.
LEMMA Unshared ==
  ASSUME RefundTypeOK, Books, NEW a \in Attempts, NEW r \in Refunds, Succeeding(a, r)
  PROVE  /\ a \in Active /\ r # None
         /\ \A b \in Attempts \ {a} : Status(b) # "failed" => attempt[b].id # r
         /\ wire[r].by # a /\ wire[r].by # None => Status(wire[r].by) \in Finished
<1>0. a \in Active /\ r # None /\ Status(a) # "failed" /\ Status(a) \notin Finished
  BY RefundAssumption DEF Succeeding, Active, OpenStatuses, Finished
<1>1. wire[r].by # None => wire[r].by \in Attempts
  BY DEF RefundTypeOK, WireRefunds
<1>2. CASE attempt[a].id = r
  BY <1>0, <1>2 DEF Books, Distinct, Taken, NamesItsOwn
<1>3. CASE wire[r].by = a
  BY <1>0, <1>3, RefundAssumption DEF Books, Taken
<1>4. CASE Named(r) = {} /\ attempt[a].id = None
  <2>1. \A b \in Attempts \ {a} : Status(b) # "failed" => attempt[b].id # r
    BY <1>4 DEF Named
  <2>2. wire[r].by # a /\ wire[r].by # None => Status(wire[r].by) \in Finished
    <3>1. SUFFICES ASSUME wire[r].by # a, wire[r].by # None PROVE Status(wire[r].by) \in Finished
      OBVIOUS
    <3>2. wire[r].by \in Attempts /\ wire[r].by \notin Active
      BY <1>0, <1>1, <3>1 DEF Books, OneActive
    <3>3. Status(wire[r].by) # "none"
      BY <3>2 DEF Books, Blank
    <3>4. Status(wire[r].by) \in Statuses
      BY <3>2 DEF RefundTypeOK, AttemptRows, Status
    <3> QED BY <3>2, <3>3, <3>4 DEF Active, Statuses, Finished
  <2> QED BY <1>0, <2>1, <2>2
<1> QED BY <1>2, <1>3, <1>4 DEF Succeeding

\* An attempt that succeeds takes a refund nobody has counted.
LEMMA SucceedingBooks ==
  ASSUME RefundTypeOK, RefundTypeOK', Books, NEW a \in Attempts, NEW r \in Refunds, Succeeding(a, r)
  PROVE  Books'
<1>0. /\ \A b \in Attempts \ {a} : attempt'[b] = attempt[b]
      /\ \A b \in Attempts : attempt'[b].amount = attempt[b].amount
      /\ Active' = Active \ {a}
      /\ Status(a) \in OpenStatuses /\ Status(a) \notin Finished
  BY DEF Succeeding, OthersKept, Active, Status, OpenStatuses, Finished
<1>1. /\ a \in Active /\ r # None
      /\ \A b \in Attempts \ {a} : Status(b) # "failed" => attempt[b].id # r
      /\ wire[r].by # a /\ wire[r].by # None => Status(wire[r].by) \in Finished
  BY Unshared
<1>2. \A s \in Refunds : wire[s].by # None => wire[s].by \in Attempts
  BY DEF RefundTypeOK, WireRefunds
<1>3. OneActive'
  BY <1>0 DEF Books, OneActive
<1>4. Blank'
  BY <1>0 DEF Succeeding, Books, Blank, Status
<1>5. Unmade'
  BY <1>0, <1>1 DEF Succeeding, Books, Unmade
<1>6. AskedOnce'
  BY <1>0, <1>2 DEF Succeeding, Books, AskedOnce
<1>7. NamesItsOwn'
  <2>1. ASSUME NEW b \in Active', attempt'[b].id # None
        PROVE  wire'[attempt'[b].id].by = b /\ attempt'[b].id \notin references'
    <3>1. b \in Active /\ b # a /\ attempt'[b] = attempt[b]
      BY <1>0, <2>1 DEF Active
    <3>2. b = a
      BY <1>1, <3>1 DEF Books, OneActive
    <3> QED BY <3>1, <3>2
  <2> QED BY <2>1 DEF NamesItsOwn
<1>8. Made'
  BY <1>0, <1>1 DEF Succeeding, Books, Made, Status
<1>9. Distinct'
  BY <1>0, <1>1 DEF Succeeding, Books, Distinct, Status
<1>10. Taken'
  <2>1. ASSUME NEW s \in Refunds, wire[s].by # None,
               s \in references' \/ \E c \in Attempts : c # wire[s].by /\ attempt'[c].id = s /\ attempt'[c].status # "failed"
        PROVE  attempt'[wire[s].by].status \in Finished
    <3>1. CASE wire[s].by = a
      BY <3>1 DEF Succeeding, Finished
    <3>2. CASE wire[s].by # a
      <4>1. Status(wire[s].by) \in Finished
        <5>1. CASE s = r
          BY <1>1, <2>1, <3>2, <5>1
        <5>2. CASE s # r
          <6>1. s \in references => s \in references'
            BY DEF Succeeding
          <6>2. s \in references \/ \E c \in Attempts : c # wire[s].by /\ attempt[c].id = s /\ Status(c) # "failed"
            BY <1>0, <2>1, <5>2 DEF Succeeding, Status
          <6> QED BY <2>1, <6>2 DEF Books, Taken
        <5> QED BY <5>1, <5>2
      <4> QED BY <1>0, <1>2, <2>1, <3>2, <4>1 DEF Status
    <3> QED BY <3>1, <3>2
  <2> QED BY <2>1 DEF Taken, Status, Succeeding, Finished
<1> QED BY <1>3, <1>4, <1>5, <1>6, <1>7, <1>8, <1>9, <1>10 DEF Books

\* A failed attempt no longer counts for anything.
LEMMA FailingBooks ==
  ASSUME RefundTypeOK, RefundTypeOK', Books, NEW a \in Attempts, Failing(a)
  PROVE  Books'
<1>0. /\ \A b \in Attempts \ {a} : attempt'[b] = attempt[b]
      /\ \A b \in Attempts : attempt'[b].amount = attempt[b].amount /\ attempt'[b].id = attempt[b].id
      /\ Active' = Active \ {a}
      /\ attempt'[a].status = "failed"
  BY DEF Failing, OthersKept, Active, Status, OpenStatuses
<1>2. \A s \in Refunds : wire[s].by # None => wire[s].by \in Attempts
  BY DEF RefundTypeOK, WireRefunds
<1>3. OneActive' /\ Blank' /\ Unmade'
  BY <1>0 DEF Failing, Books, OneActive, Blank, Unmade, Status
<1>4. AskedOnce'
  BY <1>0, <1>2 DEF Failing, Books, AskedOnce
<1>5. NamesItsOwn'
  <2>1. ASSUME NEW b \in Active', attempt'[b].id # None
        PROVE  wire'[attempt'[b].id].by = b /\ attempt'[b].id \notin references'
    <3>1. b \in Active /\ b # a
      BY <1>0, <2>1
    <3>2. attempt'[b].id = attempt[b].id
      BY <1>0, <3>1 DEF Active
    <3> QED BY <2>1, <3>1, <3>2 DEF Failing, Books, NamesItsOwn
  <2> QED BY <2>1 DEF NamesItsOwn
<1>6. Made' /\ Distinct'
  BY <1>0 DEF Failing, Books, Made, Distinct, Status
<1>7. Taken'
  <2>1. ASSUME NEW s \in Refunds, wire[s].by # None,
               s \in references \/ \E c \in Attempts : c # wire[s].by /\ attempt'[c].id = s /\ attempt'[c].status # "failed"
        PROVE  attempt'[wire[s].by].status \in Finished
    <3>1. s \in references \/ \E c \in Attempts : c # wire[s].by /\ attempt[c].id = s /\ Status(c) # "failed"
      BY <1>0, <2>1 DEF Status
    <3>2. Status(wire[s].by) \in Finished
      BY <2>1, <3>1 DEF Books, Taken
    <3> QED BY <1>0, <1>2, <2>1, <3>2 DEF Status, Finished
  <2> QED BY <2>1 DEF Taken, Status, Failing, Finished
<1> QED BY <1>3, <1>4, <1>5, <1>6, <1>7 DEF Books

\* The receipt of a succeeded attempt's refund is noted as counted.
LEMMA NotingBooks ==
  ASSUME RefundTypeOK, Books, NEW a \in Attempts, NEW r \in Refunds, Noting(a, r)
  PROVE  Books'
<1>1. r # None
  BY RefundAssumption
<1>2. \A b \in Active : attempt[b].id # r
  BY <1>1 DEF Noting, Books, Distinct, Active, OpenStatuses
<1>3. wire[r].by # None => Status(wire[r].by) \in Finished
  <2>1. CASE wire[r].by = a
    BY <2>1 DEF Noting, Finished
  <2>2. CASE wire[r].by # a
    BY <2>2 DEF Noting, Books, Taken
  <2> QED BY <2>1, <2>2
<1>4. (OneActive /\ Blank /\ Unmade /\ AskedOnce /\ Made /\ Distinct)'
  BY DEF Noting, Books, OneActive, Blank, Unmade, AskedOnce, Made, Distinct, Active, Status
<1>5. NamesItsOwn'
  BY <1>2 DEF Noting, Books, NamesItsOwn, Active, Status
<1>6. Taken'
  BY <1>3 DEF Noting, Books, Taken, Status
<1> QED BY <1>4, <1>5, <1>6 DEF Books

\* A refund of nobody's is no unresolved attempt's.
LEMMA TakingBooks ==
  ASSUME RefundTypeOK, Books, NEW r \in Refunds, Taking(r)
  PROVE  Books'
<1>1. r # None /\ Named(r) = {}
      /\ {a \in Active : attempt[a].id = None /\ attempt[a].amount = wire[r].amount} = {}
  BY RefundAssumption DEF Taking, Owner
<1>2. \A b \in Active : attempt[b].id # r
  BY <1>1 DEF Named, Active, OpenStatuses
<1>3. wire[r].by # None => Status(wire[r].by) \in Finished
  <2>1. SUFFICES ASSUME wire[r].by # None PROVE Status(wire[r].by) \in Finished
    OBVIOUS
  <2>2. wire[r].by \in Attempts
    BY <2>1 DEF RefundTypeOK, WireRefunds
  <2>3. wire[r].by \notin Active
    <3>1. SUFFICES ASSUME wire[r].by \in Active PROVE FALSE
      OBVIOUS
    <3>2. wire[r].amount = attempt[wire[r].by].amount
      BY <2>1 DEF Books, AskedOnce
    <3>3. attempt[wire[r].by].id # None
      BY <1>1, <3>1, <3>2
    <3>4. wire[attempt[wire[r].by].id].by = wire[r].by
      BY <3>1, <3>3 DEF Books, NamesItsOwn
    <3>5. attempt[wire[r].by].id \in Refunds
      BY <2>2, <3>3 DEF RefundTypeOK, AttemptRows
    <3>6. attempt[wire[r].by].id = r
      BY <2>1, <3>4, <3>5 DEF Books, AskedOnce
    <3> QED BY <1>2, <3>1, <3>6
  <2>4. Status(wire[r].by) # "none"
    BY <2>2 DEF Books, Blank
  <2>5. Status(wire[r].by) \in Statuses
    BY <2>2 DEF RefundTypeOK, AttemptRows, Status
  <2> QED BY <2>2, <2>3, <2>4, <2>5 DEF Active, Statuses, Finished
<1>4. (OneActive /\ Blank /\ Unmade /\ AskedOnce /\ Made /\ Distinct)'
  BY DEF Taking, Books, OneActive, Blank, Unmade, AskedOnce, Made, Distinct, Active, Status
<1>5. NamesItsOwn'
  BY <1>2 DEF Taking, Books, NamesItsOwn, Active, Status
<1>6. Taken'
  BY <1>3 DEF Taking, Books, Taken, Status
<1> QED BY <1>4, <1>5, <1>6 DEF Books

\* A refund the provider makes is new, and the one of its attempt.
LEMMA MakingBooks ==
  ASSUME RefundTypeOK, RefundTypeOK', Books, NEW r \in Refunds, NEW a \in Attempts \cup {None}, Making(r, a)
  PROVE  Books'
<1>0. /\ \A s \in Refunds \ {r} : wire'[s] = wire[s]
      /\ wire[r].by = None /\ r \notin references /\ \A b \in Attempts : attempt[b].id # r
  BY DEF Making, Books, Unmade
<1>1. a # None => \A s \in Refunds : wire[s].by # a
  BY DEF Making, Books, AskedOnce
<1>2. OneActive'
  BY DEF Making, Books, OneActive, Active, Status
<1>3. Blank'
  BY <1>0 DEF Making, Books, Blank, Status
<1>4. Unmade'
  BY <1>0 DEF Making, Books, Unmade
<1>5. AskedOnce'
  BY <1>0, <1>1 DEF Making, Books, AskedOnce
<1>6. NamesItsOwn'
  <2>1. \A b \in Attempts : attempt[b].id # None => attempt[b].id \in Refunds \ {r}
    BY <1>0 DEF RefundTypeOK, AttemptRows
  <2> QED BY <1>0, <2>1 DEF Making, Books, NamesItsOwn, Active, Status
<1>7. Made'
  <2>1. r \notin references /\ \A b \in Attempts : attempt[b].id # r
    BY <1>0
  <2> QED BY <1>0, <2>1 DEF Making, Books, Made, Status, RefundTypeOK
<1>8. Distinct'
  BY DEF Making, Books, Distinct, Status
<1>9. Taken'
  BY <1>0 DEF Making, Books, Taken, Status
<1> QED BY <1>2, <1>3, <1>4, <1>5, <1>6, <1>7, <1>8, <1>9 DEF Books

\* The provider's decision keeps whose refund it is and its amount.
LEMMA DecidingBooks ==
  ASSUME RefundTypeOK, Books, NEW r \in Refunds, Deciding(r)
  PROVE  Books'
<1>0. /\ \A s \in Refunds : wire'[s].by = wire[s].by /\ wire'[s].amount = wire[s].amount
      /\ \A s \in Refunds : wire'[s].state = "none" <=> wire[s].state = "none"
      /\ \A s \in Refunds : wire[s].state = "done" => wire'[s].state = "done"
  BY DEF Deciding
<1>1. (OneActive /\ Blank /\ Unmade /\ AskedOnce /\ Distinct /\ Taken)'
  BY <1>0 DEF Deciding, Books, OneActive, Blank, Unmade, AskedOnce, Distinct, Taken, Active, Status
<1>2. NamesItsOwn'
  <2>1. \A b \in Attempts : attempt[b].id # None => attempt[b].id \in Refunds
    BY DEF RefundTypeOK, AttemptRows
  <2> QED BY <1>0, <2>1 DEF Deciding, Books, NamesItsOwn, Active, Status
<1>3. Made'
  BY <1>0 DEF Deciding, Books, Made, Status, RefundTypeOK
<1> QED BY <1>1, <1>2, <1>3 DEF Books

-----------------------------------------------------------------------------
\* Every effect keeps the books.
LEMMA EffectBooks == ASSUME RefundTypeOK, RefundTypeOK', Books, Effect PROVE Books'
  BY QuietBooks, StagingBooks, LearningBooks, SucceedingBooks, FailingBooks, NotingBooks,
    TakingBooks, MakingBooks, DecidingBooks DEF Effect

RefundInv == RefundTypeOK /\ Books

\* Types and books hold in every reachable state.
LEMMA RefundInductive == RefundSpec => []RefundInv
<1>1. RefundInit => RefundTypeOK
  BY RefundTypeInit
<1>2. RefundInit => Books
  BY RefundAssumption DEF RefundInit, Books, OneActive, Blank, Unmade, AskedOnce, NamesItsOwn, Made,
    Distinct, Taken, Active, OpenStatuses, Status
<1>3. RefundInv /\ [RefundNext]_refundVars => RefundInv'
  <2>1. SUFFICES ASSUME RefundTypeOK, Books, [RefundNext]_refundVars PROVE RefundTypeOK' /\ Books'
    BY DEF RefundInv
  <2>2. RefundTypeOK'
    BY <2>1, RefundTypeStep
  <2>3. Effect
    BY <2>1, StepEffect
  <2> QED BY <2>1, <2>2, <2>3, EffectBooks
<1> QED BY <1>1, <1>2, <1>3, PTL DEF RefundSpec, RefundInv

\* An order has at most one unresolved attempt, an attempt one refund, and a
\* refund one attempt, through every order of answers, callbacks, operators
\* and refunds made elsewhere.
THEOREM BooksKept == RefundSpec => []Books
  BY RefundInductive, PTL DEF RefundInv

\* What a step does to the money: nothing, or it counts one refund that was made.
CountsOnce ==
  \/ cash' = cash /\ Counted' = Counted
  \/ \E r \in Refunds \ Counted :
       /\ wire[r].state = "done"
       /\ Counted' = Counted \cup {r} /\ cash' = cash + wire[r].amount

\* No step counts a refund again or with another amount than its own.
LEMMA StepCountsOnce == ASSUME RefundTypeOK, Books, [RefundNext]_refundVars PROVE CountsOnce
<1> USE DEF CountsOnce
<1>1. Effect
  BY StepEffect
<1>2. CASE Quiet
  BY <1>2 DEF Quiet, Counted, Status
<1>3. ASSUME NEW a \in Attempts, Staging(a) PROVE CountsOnce
  <2>1. {b \in Attempts : attempt'[b].status = "succeeded"} = {b \in Attempts : Status(b) = "succeeded"}
    BY <1>3 DEF Staging, OthersKept, Status
  <2>2. \A b \in Attempts : Status(b) = "succeeded" => attempt'[b].id = attempt[b].id
    BY <1>3 DEF Staging, OthersKept, Status
  <2>3. Counted' = Counted
    BY <1>3, <2>1, <2>2 DEF Staging, Counted, Status
  <2> QED BY <1>3, <2>3 DEF Staging
<1>4. ASSUME NEW a \in Attempts, Learning(a) \/ Failing(a) PROVE CountsOnce
  <2>1. {b \in Attempts : attempt'[b].status = "succeeded"} = {b \in Attempts : Status(b) = "succeeded"}
    BY <1>4 DEF Learning, Failing, OpenStatuses, OthersKept, Status
  <2>2. \A b \in Attempts : Status(b) = "succeeded" => attempt'[b].id = attempt[b].id
    BY <1>4 DEF Learning, Failing, OpenStatuses, OthersKept, Status
  <2>3. Counted' = Counted
    BY <1>4, <2>1, <2>2 DEF Learning, Failing, Counted, Status
  <2> QED BY <1>4, <2>3 DEF Learning, Failing
<1>5. ASSUME NEW a \in Attempts, NEW r \in Refunds, Succeeding(a, r) PROVE CountsOnce
  <2>1. {b \in Attempts : attempt'[b].status = "succeeded"} = {b \in Attempts : Status(b) = "succeeded"} \cup {a}
    BY <1>5 DEF Succeeding, OthersKept, Status
  <2>2. \A b \in Attempts \ {a} : attempt'[b].id = attempt[b].id
    BY <1>5 DEF Succeeding, OthersKept
  <2>3. Status(a) # "succeeded" /\ attempt'[a].id = r
    BY <1>5 DEF Succeeding, OpenStatuses
  <2>4. Counted' = Counted \cup {r}
    BY <1>5, <2>1, <2>2, <2>3 DEF Succeeding, Counted, Status
  <2>5. r \notin Counted
    BY <1>5, <2>3, Unshared DEF Succeeding, Counted
  <2> QED BY <1>5, <2>4, <2>5 DEF Succeeding
<1>6. ASSUME NEW a \in Attempts, NEW r \in Refunds, Noting(a, r) PROVE CountsOnce
  <2>1. r \in Counted
    BY <1>6 DEF Noting, Counted
  <2> QED BY <1>6, <2>1 DEF Noting, Counted, Status
<1>7. ASSUME NEW r \in Refunds, Taking(r) PROVE CountsOnce
  <2>1. r \notin Counted
    BY <1>7 DEF Taking, Owner, Named, Counted
  <2>2. Counted' = Counted \cup {r}
    BY <1>7 DEF Taking, Counted, Status
  <2> QED BY <1>7, <2>1, <2>2 DEF Taking
<1>8. ASSUME NEW r \in Refunds, Deciding(r) \/ \E a \in Attempts \cup {None} : Making(r, a) PROVE CountsOnce
  BY <1>8 DEF Deciding, Making, Counted, Status
<1> HIDE DEF CountsOnce
<1> QED BY <1>1, <1>2, <1>3, <1>4, <1>5, <1>6, <1>7, <1>8 DEF Effect

\* Whichever attempt a callback is bound to, the order counts each refund the
\* provider made once, with its amount: for any number of attempts, refunds
\* and cents.
THEOREM RefundsCountOnce == RefundSpec => CountedOnce
<1>1. RefundInv /\ [RefundNext]_refundVars => [CountsOnce]_refundVars
  BY StepCountsOnce DEF RefundInv
<1> QED BY <1>1, RefundInductive, PTL DEF RefundSpec, CountedOnce, CountsOnce

\* The outcome of an attempt is final, for any number of attempts.
THEOREM OutcomesAreFinal == RefundSpec => OutcomeIsFinal
<1> DEFINE Final == \A a \in Attempts : Status(a) \in Finished => attempt'[a] = attempt[a]
<1>1. RefundInv /\ [RefundNext]_refundVars => [Final]_refundVars
  <2>1. SUFFICES ASSUME RefundTypeOK, Books, [RefundNext]_refundVars PROVE Final
    BY DEF RefundInv
  <2>2. Effect
    BY <2>1, StepEffect
  <2>3. CASE Quiet \/ \E r \in Refunds : Taking(r) \/ Deciding(r) \/ \E a \in Attempts \cup {None} : Making(r, a)
    BY <2>3 DEF Quiet, Taking, Deciding, Making
  <2>4. ASSUME NEW a \in Attempts, Staging(a) \/ Learning(a) \/ Failing(a) PROVE Final
    BY <2>4 DEF Staging, Learning, Failing, OthersKept, OpenStatuses, Finished
  <2>5. ASSUME NEW a \in Attempts, NEW r \in Refunds, Succeeding(a, r) \/ Noting(a, r) PROVE Final
    BY <2>5 DEF Succeeding, Noting, OthersKept, OpenStatuses, Finished
  <2> HIDE DEF Final
  <2> QED BY <2>2, <2>3, <2>4, <2>5 DEF Effect
<1> QED BY <1>1, RefundInductive, PTL DEF RefundSpec, OutcomeIsFinal, Finished

\* Answers, callbacks, receipts and operators in any order and number settle a
\* refund once: counted once, and with the outcome it first got.
THEOREM RefundsAreSettledOnce == RefundSpec => RefundsSettleOnce
  BY RefundsCountOnce, OutcomesAreFinal, PTL DEF RefundsSettleOnce

-----------------------------------------------------------------------------
\* A request that is shown the new status of its attempt tells the truth.
LEMMA TellsTruth ==
  ASSUME RefundTypeOK, RequestsTellTruth, NEW a \in Attempts, NEW s, Tell(a, s), OthersKept(a),
         attempt'[a].status = s, Status(a) = "succeeded" => s = "succeeded",
         cash \in Int, cash' \in Int, cash' >= cash
  PROVE  RequestsTellTruth'
<1>1. /\ \A b \in Requested \ {a} : request'[b] = request[b] /\ Status(b)' = Status(b)
      /\ a \in Requested => request'[a] = Shown(s)
  BY RefundAssumption DEF Tell, OthersKept, Status, RefundTypeOK
<1>2. ASSUME NEW b \in Requested PROVE
        /\ Status(b)' = "succeeded" => request'[b] = "approved"
        /\ request'[b] = "approved" => Status(b)' = "succeeded" \/ cash' >= Price
        /\ request'[b] = "rejected" => Status(b)' \in {"none", "failed"}
  <2>1. CASE b = a
    BY <1>1, <2>1 DEF Shown, Status
  <2>2. CASE b # a
    <3>1. cash >= Price => cash' >= Price
      BY RefundAssumption
    <3> QED BY <1>1, <2>2, <3>1 DEF RequestsTellTruth
  <2> QED BY <2>1, <2>2
<1> QED BY <1>2 DEF RequestsTellTruth

\* One that is left alone does, while its attempt is not started or ended.
LEMMA SilenceIsTrue ==
  ASSUME RequestsTellTruth, request' = request, cash' = cash,
         \A a \in Attempts : attempt'[a].status = Status(a)
           \/ (Status(a) \in OpenStatuses /\ attempt'[a].status \in OpenStatuses)
  PROVE  RequestsTellTruth'
  BY RefundAssumption DEF RequestsTellTruth, Status, OpenStatuses

\* A finalised attempt is shown to its user as approved.
LEMMA FinalizeTells ==
  ASSUME RefundTypeOK, RequestsTellTruth, NEW a \in Attempts, NEW r \in Refunds \cup {None}, Finalize(a, r)
  PROVE  RequestsTellTruth'
<1>1. /\ attempt'[a].status = "succeeded" /\ OthersKept(a)
      /\ cash \in Int /\ cash' \in Int /\ cash' >= cash
  BY FinalizeTyped DEF OthersKept, RefundTypeOK
<1>2. Tell(a, "succeeded")
  BY DEF Finalize
<1> QED BY <1>1, <1>2, TellsTruth

\* A failed attempt is shown to its user as failed.
LEMMA FailTells ==
  ASSUME RefundTypeOK, RequestsTellTruth, NEW a \in Attempts, Status(a) \in OpenStatuses, Fail(a), cash' = cash
  PROVE  RequestsTellTruth'
<1>1. /\ attempt'[a].status = "failed" /\ OthersKept(a) /\ Status(a) # "succeeded"
      /\ cash \in Int /\ cash' \in Int /\ cash' >= cash
  BY FailTyped DEF OthersKept, RefundTypeOK, OpenStatuses
<1>2. Tell(a, "failed")
  BY DEF Fail
<1> QED BY <1>1, <1>2, TellsTruth

\* A staged attempt is shown to its user as pending.
LEMMA StagingTells ==
  ASSUME RefundTypeOK, RequestsTellTruth, NEW a \in Attempts, NEW m \in 0..Price,
         MayStage(a, m), StageAttempt(a, m), Tell(a, "pending"), cash' = cash
  PROVE  RequestsTellTruth'
<1>1. /\ attempt'[a].status = "pending" /\ OthersKept(a) /\ Status(a) # "succeeded"
      /\ cash \in Int /\ cash' \in Int /\ cash' >= cash
  BY StagedRow DEF OthersKept, RefundTypeOK, MayStage
<1> QED BY <1>1, TellsTruth

\* Telling the present state again keeps the requests true.
LEMMA Retold ==
  ASSUME RefundTypeOK, RequestsTellTruth, NEW a \in Attempts, Tell(a, Status(a)), UNCHANGED <<attempt, cash>>
  PROVE  RequestsTellTruth'
<1>1. /\ OthersKept(a) /\ attempt'[a].status = Status(a)
      /\ cash \in Int /\ cash' \in Int /\ cash' >= cash
  BY DEF OthersKept, Status, RefundTypeOK
<1> QED BY <1>1, TellsTruth

\* Requests and their review keep the requests true.
LEMMA DecisionTells ==
  ASSUME RefundTypeOK, RequestsTellTruth, NEW a \in Attempts, Decision(a)
  PROVE  RequestsTellTruth'
<1>0. Status(a) \in Statuses /\ attempt[a].id \in Refunds \cup {None}
  BY DEF RefundTypeOK, AttemptRows, Status
<1>1. CASE Submit(a)
  BY <1>1 DEF Submit, RequestsTellTruth, Status, RefundTypeOK, billing
<1>2. CASE Reject(a)
  <2>1. Status(a) \in {"none", "failed"}
    BY <1>0, <1>2 DEF Reject, MayReject, Decidable, Active, Statuses, RequestsTellTruth
  <2> QED BY <1>2, <2>1 DEF Reject, MayReject, Decidable, RequestsTellTruth, Status, RefundTypeOK, billing
<1>3. CASE Approve(a)
  BY <1>3, Remainder, StagingTells DEF Approve, Send
<1>4. CASE ApproveUnheld(a)
  BY <1>4, Remainder, StagingTells DEF ApproveUnheld, billing
<1>5. CASE ApproveRefused(a)
  BY <1>5 DEF ApproveRefused, Decidable, RequestsTellTruth, Status, RefundTypeOK, billing
<1>6. CASE ApproveAgain(a)
  <2>1. CASE cash = Price
    BY <1>6, <2>1, RefundAssumption DEF ApproveAgain, Decidable, RequestsTellTruth, Status, RefundTypeOK, billing
  <2>2. CASE cash # Price
    BY <1>6, <2>2, Retold DEF ApproveAgain, billing
  <2> QED BY <2>1, <2>2
<1>7. CASE ResumeRefund(a)
  BY <1>0, <1>7, FinalizeTells DEF ResumeRefund
<1>8. ASSUME NEW m \in 1..Price, RefundDirectly(a, m) PROVE RequestsTellTruth'
  <2>1. m \in 0..Price
    BY RefundAssumption
  <2> QED BY <1>8, <2>1, StagingTells DEF RefundDirectly, Send
<1> QED BY <1>1, <1>2, <1>3, <1>4, <1>5, <1>6, <1>7, <1>8 DEF Decision

\* Answers and operators keep the requests true.
LEMMA CallTells ==
  ASSUME RefundTypeOK, RequestsTellTruth, NEW a \in Attempts, Call(a) \/ Operator(a)
  PROVE  RequestsTellTruth'
<1>0. /\ Status(a) \in Statuses /\ attempt[a].id \in Refunds \cup {None}
      /\ attempt \in [Attempts -> AttemptRows]
  BY DEF RefundTypeOK, AttemptRows, Status
<1>1. CASE HandlerLost(a)
  <2>1. CASE Tell(a, Status(a))
    BY <1>1, <2>1, Retold DEF HandlerLost, billing
  <2>2. CASE UNCHANGED request
    BY <1>1, <2>2, SilenceIsTrue DEF HandlerLost, billing, Status
  <2> QED BY <1>1, <2>1, <2>2 DEF HandlerLost
<1>2. CASE AnswerUnknown(a)
  <2>1. attempt'[a].status = "unknown" /\ OthersKept(a)
    BY <1>0, <1>2 DEF AnswerUnknown, OthersKept, AttemptRows
  <2>2. Status(a) # "succeeded" /\ cash' = cash /\ cash \in Int /\ cash' \in Int /\ cash' >= cash
    BY <1>2 DEF AnswerUnknown, Superseded, billing, RefundTypeOK
  <2> QED BY <1>2, <2>1, <2>2, TellsTruth DEF AnswerUnknown
<1>3. CASE AnswerLate(a)
  <2>1. CASE Finalize(a, attempt[a].id)
    BY <1>0, <2>1, FinalizeTells
  <2>2. CASE Tell(a, Status(a)) /\ UNCHANGED <<attempt, billing>>
    BY <2>2, Retold DEF billing
  <2> QED BY <1>3, <2>1, <2>2 DEF AnswerLate
<1>4. ASSUME NEW r \in Refunds, AnswerConfirmed(a, r) PROVE RequestsTellTruth'
  <2>1. \A b \in Attempts : attempt'[b].status = Status(b)
          \/ (Status(b) \in OpenStatuses /\ attempt'[b].status \in OpenStatuses)
    BY <1>0, <1>4 DEF AnswerConfirmed, Superseded, OpenStatuses, AttemptRows, Status
  <2> QED BY <1>4, <2>1, SilenceIsTrue DEF AnswerConfirmed, billing
<1>5. CASE ReconcileNotRefunded(a)
  BY <1>5, FailTells DEF ReconcileNotRefunded, OpenStatuses
<1>6. ASSUME NEW r \in Refunds, ReconcileRefunded(a, r) PROVE RequestsTellTruth'
  <2>1. r \in Refunds \cup {None}
    OBVIOUS
  <2> QED BY <1>6, <2>1, FinalizeTells DEF ReconcileRefunded
<1> QED BY <1>1, <1>2, <1>3, <1>4, <1>5, <1>6 DEF Call, Operator

\* Receipts keep the requests true.
LEMMA ReceiveTells ==
  ASSUME RefundTypeOK, RequestsTellTruth, NEW r \in Refunds, Receive(r) \/ Pending(r)
  PROVE  RequestsTellTruth'
<1>1. ASSUME NEW a \in Attempts, ReceiveOwned(r, a) PROVE RequestsTellTruth'
  <2>1. r \in Refunds \cup {None}
    OBVIOUS
  <2> QED BY <1>1, <2>1, FinalizeTells, Retold DEF ReceiveOwned, billing
<1>2. CASE ReceiveForeign(r)
  <2>1. cash \in Int /\ cash' \in Int /\ cash' >= cash
    BY <1>2, RefundAssumption DEF ReceiveForeign, RefundTypeOK, WireRefunds
  <2>2. UNCHANGED <<attempt, request>>
    BY <1>2 DEF ReceiveForeign
  <2> QED BY <2>1, <2>2, RefundAssumption DEF RequestsTellTruth, Status
<1>3. CASE ReceiveDenied(r)
  <2>1. cash' = cash
    BY <1>3 DEF ReceiveDenied
  <2>2. CASE UNCHANGED <<attempt, holding, request>>
    BY <2>1, <2>2 DEF RequestsTellTruth, Status
  <2>3. ASSUME NEW a \in Attempts, Status(a) \in OpenStatuses, Fail(a) PROVE RequestsTellTruth'
    BY <2>1, <2>3, FailTells
  <2>4. ASSUME NEW a \in Attempts, Status(a) = "failed", Tell(a, "failed"), UNCHANGED <<attempt, holding>>
        PROVE  RequestsTellTruth'
    BY <2>1, <2>4, Retold
  <2> QED BY <1>3, <2>2, <2>3, <2>4 DEF ReceiveDenied
<1>4. CASE Pending(r)
  <2>1. UNCHANGED <<attempt, request, cash>>
    BY <1>4 DEF Pending, ReceivePending, ReplayPending, ResolvePending, ReplayDies, billing
  <2> QED BY <2>1 DEF RequestsTellTruth, Status
<1> QED BY <1>1, <1>2, <1>3, <1>4 DEF Receive

\* A user's request never shows his refund otherwise than it was, for any
\* number of requests and attempts.
THEOREM RequestsAreTrue == RefundSpec => []RequestsTellTruth
<1>1. RefundInit => RequestsTellTruth
  BY RefundAssumption DEF RefundInit, RequestsTellTruth, Status
<1>2. RefundInv /\ RequestsTellTruth /\ [RefundNext]_refundVars => RequestsTellTruth'
  <2>1. SUFFICES ASSUME RefundTypeOK, RequestsTellTruth, [RefundNext]_refundVars PROVE RequestsTellTruth'
    BY DEF RefundInv
  <2>2. CASE Provider \/ UNCHANGED refundVars
    <3>1. UNCHANGED <<attempt, request, cash>>
      BY <2>2 DEF Provider, Decline, Execute, RefundElsewhere, Begin, Decide, refundVars, billing
    <3> QED BY <2>1, <3>1 DEF RequestsTellTruth, Status
  <2>3. CASE RefundNext /\ ~Provider
    BY <2>1, <2>3, DecisionTells, CallTells, ReceiveTells DEF RefundNext
  <2> QED BY <2>1, <2>2, <2>3
<1> QED BY <1>1, <1>2, RefundInductive, PTL DEF RefundSpec

\* No replay leaves a processed outcome's pending receipt behind, for any
\* number of refunds.
THEOREM PendingCloses == RefundSpec => []PendingIsClosed
<1>1. RefundInit => PendingIsClosed
  BY DEF RefundInit, PendingIsClosed
<1>2. RefundInv /\ PendingIsClosed /\ [RefundNext]_refundVars => PendingIsClosed'
  <2>1. SUFFICES ASSUME RefundTypeOK, PendingIsClosed, [RefundNext]_refundVars PROVE PendingIsClosed'
    BY DEF RefundInv
  <2>2. ASSUME NEW r \in Refunds, Close(r) PROVE PendingIsClosed'
    BY <2>1, <2>2 DEF Close, Stored, PendingIsClosed, RefundTypeOK
  <2>3. ASSUME NEW r \in Refunds, Pending(r) PROVE PendingIsClosed'
    BY <2>1, <2>3 DEF Pending, ReceivePending, ReplayPending, ResolvePending, ReplayDies, Resolves, Stored,
      PendingIsClosed, RefundTypeOK
  <2>4. ASSUME UNCHANGED <<waiting, final>> PROVE PendingIsClosed'
    BY <2>1, <2>4 DEF PendingIsClosed
  <2>5. ASSUME NEW a \in Attempts, Decision(a) \/ Call(a) \/ Operator(a) PROVE UNCHANGED <<waiting, final>>
    BY <2>5 DEF Decision, Submit, Reject, Approve, ApproveUnheld, ApproveRefused, ApproveAgain,
      ResumeRefund, RefundDirectly, Send, Call, HandlerLost, AnswerUnknown, AnswerLate, AnswerConfirmed,
      Operator, ReconcileNotRefunded, ReconcileRefunded, inbox
  <2>6. ASSUME Provider \/ UNCHANGED refundVars PROVE UNCHANGED <<waiting, final>>
    BY <2>6 DEF Provider, Decline, Execute, RefundElsewhere, Begin, Decide, refundVars, inbox
  <2>7. ASSUME NEW r \in Refunds, Receive(r) PROVE Close(r)
    BY <2>7 DEF Receive, ReceiveForeign, ReceiveDenied, ReceiveOwned
  <2> QED BY <2>1, <2>2, <2>3, <2>4, <2>5, <2>6, <2>7 DEF RefundNext
<1> QED BY <1>1, <1>2, RefundInductive, PTL DEF RefundSpec

-----------------------------------------------------------------------------
\* What the provider gave or may give back for a refund.
Charge == [r \in Refunds |-> IF wire[r].state = "refused" THEN 0 ELSE wire[r].amount]

\* The money of the order is the counted refunds', which are among those the
\* provider made of the price.
Money ==
  /\ cash = SumFunctionOnSet([r \in Counted |-> wire[r].amount], Counted)
  /\ Returned <= Price

\* The provider's refunds have natural amounts.
LEMMA WireAmounts == ASSUME RefundTypeOK PROVE \A r \in Refunds : wire[r].amount \in Nat
  BY RefundAssumption DEF RefundTypeOK, WireRefunds

\* What the order counts are refunds the provider has made.
LEMMA CountedWereMade ==
  ASSUME RefundTypeOK, Books
  PROVE  Counted \subseteq Refunds /\ \A r \in Counted : wire[r].state = "done"
  BY DEF RefundTypeOK, Books, Made, Counted

\* Of what the provider began it refuses some, and begins no more than the price.
LEMMA ReturnedBounded ==
  ASSUME RefundTypeOK, RefundTypeOK', Returned <= Price, [RefundNext]_refundVars
  PROVE  Returned' <= Price
<1> DEFINE g == [r \in Refunds |-> IF wire'[r].state = "refused" THEN 0 ELSE wire'[r].amount]
<1>0. /\ Returned = SumFunctionOnSet(Charge, Refunds) /\ Returned' = SumFunctionOnSet(g, Refunds)
      /\ Returned \in Int
      /\ \A r \in Refunds : Charge[r] \in Int /\ g[r] \in Int
  <2>1. \A r \in Refunds : Charge[r] \in Int /\ g[r] \in Int
    BY WireAmounts, RefundAssumption DEF Charge, RefundTypeOK, WireRefunds
  <2>2. SumFunctionOnSet(Charge, Refunds) \in Int
    BY <2>1, RefundsAreFinite, SumType
  <2> QED BY <2>1, <2>2 DEF Returned, Charge
<1>1. ASSUME wire' = wire PROVE Returned' <= Price
  BY <1>1 DEF Returned
<1>2. ASSUME NEW r \in Refunds, NEW m \in Nat, NEW a, Begin(r, m, a) PROVE Returned' <= Price
  <2>1. /\ wire[r].state = "none" /\ Returned + m <= Price
        /\ wire' = [wire EXCEPT ![r] = [state |-> "pending", amount |-> m, by |-> a]]
    BY <1>2 DEF Begin
  <2>2. g[r] = m /\ \A s \in Refunds \ {r} : g[s] = Charge[s]
    BY <2>1 DEF RefundTypeOK, Charge
  <2>3. Charge[r] \in Nat
    BY WireAmounts DEF Charge
  <2> HIDE DEF g
  <2>4. SumFunctionOnSet(g, Refunds) = SumFunctionOnSet(Charge, Refunds) + g[r] - Charge[r]
    BY <1>0, <2>2, RefundsAreFinite, SumChange
  <2> QED BY <1>0, <2>1, <2>2, <2>3, <2>4, RefundAssumption
<1>3. ASSUME NEW r \in Refunds, Decide(r) PROVE Returned' <= Price
  <2>1. PICK st \in {"done", "refused"} : wire' = [wire EXCEPT ![r].state = st]
    BY <1>3 DEF Decide
  <2>2. wire[r].state = "pending"
    BY <1>3 DEF Decide
  <2>3. g[r] \in {0, Charge[r]} /\ \A s \in Refunds \ {r} : g[s] = Charge[s]
    BY <2>1, <2>2 DEF RefundTypeOK, Charge, WireRefunds
  <2>4. Charge[r] \in Nat
    BY WireAmounts DEF Charge
  <2> HIDE DEF g
  <2>5. SumFunctionOnSet(g, Refunds) = SumFunctionOnSet(Charge, Refunds) + g[r] - Charge[r]
    BY <1>0, <2>3, RefundsAreFinite, SumChange
  <2> QED BY <1>0, <2>3, <2>4, <2>5, RefundAssumption
<1>4. ASSUME Provider PROVE Returned' <= Price
  <2>1. ASSUME NEW a \in Attempts, Decline(a) PROVE Returned' <= Price
    BY <2>1, <1>1 DEF Decline
  <2>2. ASSUME NEW a \in Attempts, NEW r \in Refunds, Execute(a, r) PROVE Returned' <= Price
    <3>1. attempt[a].amount \in Nat
      BY RefundAssumption DEF RefundTypeOK, AttemptRows
    <3> QED BY <2>2, <3>1, <1>2 DEF Execute
  <2>3. ASSUME NEW r \in Refunds, NEW m \in 1..Price, RefundElsewhere(r, m) PROVE Returned' <= Price
    <3>1. m \in Nat
      OBVIOUS
    <3> QED BY <2>3, <3>1, <1>2 DEF RefundElsewhere
  <2> QED BY <1>3, <1>4, <2>1, <2>2, <2>3 DEF Provider
<1>5. ASSUME NEW a \in Attempts, Decision(a) \/ Call(a) \/ Operator(a) PROVE wire' = wire
  BY <1>5 DEF Decision, Call, Operator, Submit, Reject, Approve, Send, ApproveUnheld, ApproveRefused,
     ApproveAgain, ResumeRefund, RefundDirectly, HandlerLost, AnswerUnknown, AnswerLate, AnswerConfirmed,
     ReconcileNotRefunded, ReconcileRefunded, provider
<1>6. ASSUME NEW r \in Refunds, Receive(r) \/ Pending(r) PROVE wire' = wire
  BY <1>6 DEF Receive, Pending, ReceiveForeign, ReceiveDenied, ReceiveOwned, ReceivePending, ReplayPending,
     ResolvePending, ReplayDies, provider
<1>7. CASE UNCHANGED refundVars
  BY <1>1, <1>7 DEF refundVars, provider
<1> QED BY <1>1, <1>4, <1>5, <1>6, <1>7 DEF RefundNext

\* What is counted keeps its amount.
LEMMA CountedKeepAmounts ==
  ASSUME RefundTypeOK, Books, [RefundNext]_refundVars
  PROVE  \A r \in Refunds : wire[r].state = "done" => wire'[r].amount = wire[r].amount
<1>1. Effect
  BY StepEffect
<1> QED BY <1>1 DEF Effect, Quiet, Staging, Learning, Failing, Succeeding, Noting, Taking, Deciding, Making

\* Every step keeps the order's money the sum of the refunds it counts, and
\* what the provider returned within the price.
LEMMA MoneyKept ==
  ASSUME RefundTypeOK, RefundTypeOK', Books, Money, [RefundNext]_refundVars
  PROVE  Money'
<1> DEFINE f == [r \in Counted |-> wire[r].amount]
           g == [r \in Counted' |-> wire'[r].amount]
<1>1. Returned' <= Price
  BY ReturnedBounded DEF Money
<1>2. /\ Counted \subseteq Refunds /\ \A r \in Counted : wire[r].state = "done"
      /\ IsFiniteSet(Counted)
  BY CountedWereMade, RefundsAreFinite, FS_Subset
<1>3. \A r \in Counted : f[r] \in Int
  BY <1>2, WireAmounts
<1>4. cash = SumFunctionOnSet(f, Counted)
  BY DEF Money
<1>5. \A r \in Refunds : wire[r].state = "done" => wire'[r].amount = wire[r].amount
  BY CountedKeepAmounts
<1>6. CASE cash' = cash /\ Counted' = Counted
  <2>1. \A r \in Counted : f[r] = g[r]
    BY <1>2, <1>5, <1>6
  <2> HIDE DEF f, g
  <2>2. SumFunctionOnSet(f, Counted) = SumFunctionOnSet(g, Counted)
    BY <2>1, <1>2, <1>3, SumEqual
  <2>3. cash' = SumFunctionOnSet(g, Counted')
    BY <2>2, <1>4, <1>6
  <2> QED BY <2>3, <1>1 DEF Money, g
<1>7. ASSUME NEW r \in Refunds \ Counted, wire[r].state = "done",
             Counted' = Counted \cup {r}, cash' = cash + wire[r].amount
      PROVE  Money'
  <2>1. /\ \A s \in Counted : f[s] = g[s]
        /\ g[r] = wire[r].amount /\ wire[r].amount \in Int
    BY <1>2, <1>5, <1>7, WireAmounts
  <2> HIDE DEF f, g
  <2>2. SumFunctionOnSet(f, Counted) = SumFunctionOnSet(g, Counted)
    BY <2>1, <1>2, <1>3, SumEqual
  <2>3. \A s \in Counted \cup {r} : g[s] \in Int
    BY <2>1, <1>3
  <2>4. SumFunctionOnSet(g, Counted \cup {r}) = g[r] + SumFunctionOnSet(g, Counted)
    BY <2>3, <1>2, <1>7, SumAdd
  <2>5. SumFunctionOnSet(f, Counted) \in Int
    BY <1>2, <1>3, SumType
  <2>6. cash' = SumFunctionOnSet(g, Counted')
    BY <2>1, <2>2, <2>4, <2>5, <1>4, <1>7
  <2> QED BY <2>6, <1>1 DEF Money, g
<1>8. CountsOnce
  BY StepCountsOnce
<1> QED BY <1>6, <1>7, <1>8 DEF CountsOnce

\* The provider never returned more than the price, so neither did the order.
LEMMA WithinPrice ==
  ASSUME RefundTypeOK, Books, Money
  PROVE  cash <= Price
<1> DEFINE f == [r \in Counted |-> wire[r].amount]
<1>1. /\ Counted \subseteq Refunds /\ \A r \in Counted : wire[r].state = "done"
      /\ IsFiniteSet(Counted)
  BY CountedWereMade, RefundsAreFinite, FS_Subset
<1>2. \A r \in Counted : f[r] = Charge[r] /\ f[r] \in Int
  BY <1>1, WireAmounts DEF Charge
<1>3. \A r \in Refunds : Charge[r] \in Nat
  BY WireAmounts DEF Charge
<1>4. cash = SumFunctionOnSet(f, Counted)
  BY DEF Money
<1> HIDE DEF f
<1>5. SumFunctionOnSet(f, Counted) = SumFunctionOnSet(Charge, Counted)
  BY <1>1, <1>2, SumEqual
<1>6. SumFunctionOnSet(Charge, Counted) <= SumFunctionOnSet(Charge, Refunds)
  BY <1>1, <1>3, RefundsAreFinite, SumSubset
<1>7. SumFunctionOnSet(Charge, Refunds) = Returned /\ Returned <= Price
  BY DEF Money, Returned, Charge
<1>8. SumFunctionOnSet(Charge, Refunds) \in Int
  <2>1. \A r \in Refunds : Charge[r] \in Int
    BY <1>3
  <2> QED BY <2>1, RefundsAreFinite, SumType
<1> QED BY <1>4, <1>5, <1>6, <1>7, <1>8, RefundAssumption DEF RefundTypeOK

\* Where cents are whole units, Rate of them each, what is reversed and what an
\* attempt will reverse are the units of its money.
Rate == Credits \div Price
Proportional ==
  Credits % Price = 0 =>
    /\ reversed = Rate * cash
    /\ \A a \in Attempts : attempt[a].units = Rate * attempt[a].amount

\* The share of c cents is exact where cents are whole units.
LEMMA ShareIsRate ==
  ASSUME Credits % Price = 0, NEW c \in Nat
  PROVE  Rate \in Nat /\ Share(c) = Rate * c
<1>1. Price \in Nat \ {0} /\ Credits \in Nat
  BY RefundAssumption
<1>2. Rate \in Nat /\ Credits = Rate * Price
  BY <1>1 DEF Rate
<1>3. \A k \in Nat, p \in Nat \ {0} : ((k * p) * c) \div p = k * c
  OBVIOUS
<1> QED BY <1>1, <1>2, <1>3 DEF Share

\* What leaves amounts and sums alone keeps them proportional.
LEMMA UnitsKept ==
  ASSUME Proportional, UNCHANGED <<cash, reversed>>,
         \A a \in Attempts : attempt'[a].units = attempt[a].units /\ attempt'[a].amount = attempt[a].amount
  PROVE  Proportional'
  BY DEF Proportional, Rate

\* A finalised attempt reverses the units of its money.
LEMMA FinalizeProportional ==
  ASSUME RefundTypeOK, Proportional, NEW a \in Attempts, NEW r, Finalize(a, r)
  PROVE  Proportional'
<1>1. \A b \in Attempts : attempt'[b].units = attempt[b].units /\ attempt'[b].amount = attempt[b].amount
  BY DEF Finalize, RefundTypeOK, AttemptRows
<1>2. cash' = cash + attempt[a].amount /\ reversed' = reversed + attempt[a].units
  BY DEF Finalize
<1>3. ASSUME Credits % Price = 0 PROVE reversed' = Rate * cash'
  <2>1. Rate \in Nat /\ cash \in Nat /\ attempt[a].amount \in Nat
    BY <1>3, ShareIsRate, RefundAssumption DEF RefundTypeOK, AttemptRows
  <2>2. reversed = Rate * cash /\ attempt[a].units = Rate * attempt[a].amount
    BY <1>3 DEF Proportional
  <2>3. \A k \in Nat, x \in Nat, y \in Nat : k * x + k * y = k * (x + y)
    OBVIOUS
  <2> QED BY <1>2, <2>1, <2>2, <2>3
<1> QED BY <1>1, <1>3 DEF Proportional, Rate

\* What a refund of m cents owes are the units of m cents.
LEMMA OwedIsRate ==
  ASSUME RefundTypeOK, Proportional, Credits % Price = 0, NEW m \in Nat
  PROVE  Owed(m) = Rate * m /\ Rate * (cash + m) = Rate * cash + Rate * m
<1>1. cash \in Nat /\ cash + m \in Nat
  BY DEF RefundTypeOK
<1>2. Rate \in Nat /\ Share(cash + m) = Rate * (cash + m)
  BY <1>1, ShareIsRate
<1>3. \A k \in Nat, x \in Nat, y \in Nat : k * (x + y) = k * x + k * y /\ k * (x + y) - k * x = k * y
  OBVIOUS
<1> QED BY <1>1, <1>2, <1>3 DEF Owed, Proportional

\* An attempt is staged with the units of its money.
LEMMA StagedProportional ==
  ASSUME RefundTypeOK, Proportional, NEW a \in Attempts, NEW m \in 0..Price, StageAttempt(a, m),
         UNCHANGED <<cash, reversed>>
  PROVE  Proportional'
<1>1. m \in Nat
  BY RefundAssumption
<1>2. /\ attempt'[a].units = Owed(m) /\ attempt'[a].amount = m
      /\ \A b \in Attempts \ {a} : attempt'[b] = attempt[b]
  BY DEF StageAttempt, RefundTypeOK
<1>3. Credits % Price = 0 => attempt'[a].units = Rate * attempt'[a].amount
  BY <1>1, <1>2, OwedIsRate
<1> QED BY <1>2, <1>3 DEF Proportional, Rate

\* A refund made elsewhere reverses the units of its money.
LEMMA ForeignProportional ==
  ASSUME RefundTypeOK, Proportional, NEW r \in Refunds, ReceiveForeign(r)
  PROVE  Proportional'
<1>1. wire[r].amount \in Nat
  BY WireAmounts
<1>2. /\ cash' = cash + wire[r].amount /\ reversed' = reversed + Owed(wire[r].amount)
      /\ attempt' = attempt
  BY DEF ReceiveForeign
<1>3. Credits % Price = 0 => reversed' = Rate * cash'
  BY <1>1, <1>2, OwedIsRate DEF Proportional
<1> QED BY <1>2, <1>3 DEF Proportional, Rate

\* A failure changes no amount.
LEMMA FailKeepsUnits ==
  ASSUME RefundTypeOK, NEW a \in Attempts, Fail(a)
  PROVE  \A b \in Attempts : attempt'[b].units = attempt[b].units /\ attempt'[b].amount = attempt[b].amount
  BY DEF Fail, RefundTypeOK, AttemptRows

\* Every step keeps reversed units proportional to the money.
LEMMA UnitsStep ==
  ASSUME RefundTypeOK, Proportional, [RefundNext]_refundVars
  PROVE  Proportional'
<1>1. CASE UNCHANGED <<attempt, cash, reversed>>
  BY <1>1, UnitsKept
<1>2. ASSUME NEW a \in Attempts, Decision(a) PROVE Proportional'
  <2>1. CASE Submit(a) \/ Reject(a) \/ ApproveRefused(a) \/ ApproveAgain(a)
    BY <2>1, <1>1 DEF Submit, Reject, ApproveRefused, ApproveAgain, billing
  <2>2. CASE Approve(a) \/ ApproveUnheld(a)
    <3>1. StageAttempt(a, Price - cash) /\ UNCHANGED <<cash, reversed>> /\ Price - cash \in 0..Price
      BY <2>2, Remainder DEF Approve, ApproveUnheld, Send, billing
    <3> QED BY <3>1, StagedProportional
  <2>3. ASSUME NEW m \in 1..Price, RefundDirectly(a, m) PROVE Proportional'
    <3>1. StageAttempt(a, m) /\ UNCHANGED <<cash, reversed>> /\ m \in 0..Price
      BY <2>3, RefundAssumption DEF RefundDirectly, Send
    <3> QED BY <3>1, StagedProportional
  <2>4. CASE ResumeRefund(a)
    BY <2>4, FinalizeProportional DEF ResumeRefund
  <2> QED BY <1>2, <2>1, <2>2, <2>3, <2>4 DEF Decision
<1>3. ASSUME NEW a \in Attempts, Call(a) PROVE Proportional'
  <2>1. CASE HandlerLost(a)
    BY <2>1, <1>1 DEF HandlerLost, billing
  <2>2. CASE AnswerUnknown(a) \/ \E r \in Refunds : AnswerConfirmed(a, r)
    <3>1. PICK s, r : attempt' = [attempt EXCEPT ![a].status = s, ![a].id = r] /\ UNCHANGED <<cash, reversed>>
      BY <2>2 DEF AnswerUnknown, AnswerConfirmed, billing
    <3>2. \A b \in Attempts : attempt'[b].units = attempt[b].units /\ attempt'[b].amount = attempt[b].amount
      BY <3>1 DEF RefundTypeOK, AttemptRows
    <3> QED BY <3>1, <3>2, UnitsKept
  <2>3. CASE AnswerLate(a)
    BY <2>3, <1>1, FinalizeProportional DEF AnswerLate, billing
  <2> QED BY <1>3, <2>1, <2>2, <2>3 DEF Call
<1>4. ASSUME NEW a \in Attempts, Operator(a) PROVE Proportional'
  <2>1. CASE ReconcileNotRefunded(a)
    BY <2>1, FailKeepsUnits, UnitsKept DEF ReconcileNotRefunded
  <2>2. ASSUME NEW r \in Refunds, ReconcileRefunded(a, r) PROVE Proportional'
    BY <2>2, FinalizeProportional DEF ReconcileRefunded
  <2> QED BY <1>4, <2>1, <2>2 DEF Operator
<1>5. CASE Provider
  BY <1>5, <1>1 DEF Provider, Decline, Execute, RefundElsewhere, Begin, Decide, billing
<1>6. ASSUME NEW r \in Refunds, Receive(r) PROVE Proportional'
  <2>1. CASE ReceiveForeign(r)
    BY <2>1, ForeignProportional
  <2>2. CASE ReceiveDenied(r)
    <3>1. CASE UNCHANGED attempt
      BY <2>2, <3>1, <1>1 DEF ReceiveDenied
    <3>2. ASSUME NEW a \in Attempts, Fail(a) PROVE Proportional'
      BY <2>2, <3>2, FailKeepsUnits, UnitsKept DEF ReceiveDenied
    <3> QED BY <2>2, <3>1, <3>2 DEF ReceiveDenied
  <2>3. ASSUME NEW a \in Attempts, ReceiveOwned(r, a) PROVE Proportional'
    BY <2>3, <1>1, FinalizeProportional DEF ReceiveOwned, billing
  <2> QED BY <1>6, <2>1, <2>2, <2>3 DEF Receive
<1>7. ASSUME NEW r \in Refunds, Pending(r) PROVE Proportional'
  BY <1>7, <1>1 DEF Pending, ReceivePending, ReplayPending, ResolvePending, ReplayDies, billing
<1>8. CASE UNCHANGED refundVars
  BY <1>8, <1>1 DEF refundVars, billing
<1> QED BY <1>2, <1>3, <1>4, <1>5, <1>6, <1>7, <1>8 DEF RefundNext

\* Before the first refund nothing is counted and nothing reversed.
LEMMA MoneyInit == RefundInit => Money /\ Proportional
<1> SUFFICES ASSUME RefundInit PROVE Money /\ Proportional
  OBVIOUS
<1>1. Money
  <2>1. Counted = {}
    BY DEF RefundInit, Counted, Status
  <2>2. SumFunctionOnSet([r \in Counted |-> wire[r].amount], Counted) = 0
    BY <2>1, SumEmpty
  <2>3. \A r \in Refunds : Charge[r] = 0
    BY DEF RefundInit, Charge
  <2>4. SumFunctionOnSet(Charge, Refunds) = 0
    BY <2>3, RefundsAreFinite, SumZero
  <2> QED BY <2>2, <2>4, RefundAssumption DEF RefundInit, Money, Returned, Charge
<1>2. Proportional
  <2>1. ASSUME Credits % Price = 0 PROVE Rate \in Nat
    BY <2>1, ShareIsRate
  <2> QED BY <2>1 DEF RefundInit, Proportional
<1> QED BY <1>1, <1>2

\* What the order counts as refunded is the sum of the provider's refunds it
\* has counted, never exceeds the price, and where cents are whole units the
\* credits taken back are exactly those of the money: for every price, number
\* of credits and number of refunds, whichever of answers, callbacks and
\* operators comes first.
THEOREM OrdersAgree == RefundSpec => []BooksAgree
<1>1. RefundTypeOK /\ Books /\ Money /\ Proportional => BooksAgree
  <2> SUFFICES ASSUME RefundTypeOK, Books, Money, Proportional PROVE BooksAgree
    OBVIOUS
  <2>1. Credits % Price = 0 => reversed = Share(cash)
    BY ShareIsRate DEF Proportional, RefundTypeOK
  <2> QED BY <2>1, WithinPrice DEF Money, BooksAgree
<1>2. RefundTypeOK /\ RefundTypeOK' /\ Books /\ Money /\ Proportional /\ [RefundNext]_refundVars => Money' /\ Proportional'
  BY MoneyKept, UnitsStep
<1>3. RefundInit => Money /\ Proportional
  BY MoneyInit
<1> QED BY RefundInductive, <1>1, <1>2, <1>3, PTL DEF RefundSpec, RefundInv

-----------------------------------------------------------------------------
\* The receipt of an outcome is processed only with what it reports: the refund
\* was refused, or the order counts it.
ClosedWithCause == \A r \in final : r \in Refunds /\ (wire[r].state = "refused" \/ r \in references)

\* Nothing is processed before the first refund, and every step keeps it so.
LEMMA ReceiptsClosed == RefundSpec => []ClosedWithCause
<1>1. RefundInit => ClosedWithCause
  BY DEF RefundInit, ClosedWithCause
<1>2. ASSUME RefundTypeOK, ClosedWithCause, [RefundNext]_refundVars PROVE ClosedWithCause'
  <2>1. ASSUME UNCHANGED <<wire, references, final>> PROVE ClosedWithCause'
    BY <1>2, <2>1 DEF ClosedWithCause
  <2>2. ASSUME NEW a \in Attempts, Decision(a) \/ Call(a) \/ Operator(a) PROVE ClosedWithCause'
    BY <2>1, <2>2 DEF Decision, Call, Operator, Submit, Reject, Approve, Send, ApproveUnheld, ApproveRefused,
       ApproveAgain, ResumeRefund, RefundDirectly, HandlerLost, AnswerUnknown, AnswerLate, AnswerConfirmed,
       ReconcileNotRefunded, ReconcileRefunded, provider, inbox
  <2>3. CASE Provider
    <3>1. UNCHANGED <<references, final>>
      BY <2>3 DEF Provider, Decline, Execute, RefundElsewhere, Begin, Decide, inbox
    <3>2. \A r \in Refunds : wire[r].state = "refused" => wire'[r].state = "refused"
      BY <1>2, <2>3 DEF Provider, Decline, Execute, RefundElsewhere, Begin, Decide, RefundTypeOK, WireRefunds
    <3> QED BY <1>2, <3>1, <3>2 DEF ClosedWithCause
  <2>4. ASSUME NEW r \in Refunds, Receive(r) PROVE ClosedWithCause'
    <3>1. wire' = wire /\ final' = final \cup {r} /\ references \subseteq references'
      BY <2>4 DEF Receive, ReceiveForeign, ReceiveDenied, ReceiveOwned, Close, provider
    <3>2. wire[r].state = "refused" \/ r \in references'
      BY <2>4 DEF Receive, ReceiveForeign, ReceiveDenied, ReceiveOwned
    <3> QED BY <1>2, <3>1, <3>2 DEF ClosedWithCause
  <2>5. ASSUME NEW r \in Refunds, Pending(r) PROVE ClosedWithCause'
    BY <2>1, <2>5 DEF Pending, ReceivePending, ReplayPending, ResolvePending, ReplayDies, provider
  <2>6. CASE UNCHANGED refundVars
    BY <2>1, <2>6 DEF refundVars, provider, inbox
  <2> QED BY <1>2, <2>2, <2>3, <2>4, <2>5, <2>6 DEF RefundNext
<1> QED BY <1>1, <1>2, RefundTypeCorrect, PTL DEF RefundSpec

\* What the provider gave back and the order has not counted still fits under
\* its price.
LEMMA UncountedFits ==
  ASSUME RefundTypeOK, Books, Money, NEW r \in Refunds \ Counted, wire[r].state = "done"
  PROVE  cash + wire[r].amount <= Price
<1> DEFINE f == [s \in Counted |-> wire[s].amount]
           both == Counted \cup {r}
<1>1. /\ Counted \subseteq Refunds /\ \A s \in Counted : wire[s].state = "done"
      /\ IsFiniteSet(Counted)
  BY CountedWereMade, RefundsAreFinite, FS_Subset
<1>2. \A s \in Counted : f[s] = Charge[s] /\ f[s] \in Int
  BY <1>1, WireAmounts DEF Charge
<1>3. (\A s \in Refunds : Charge[s] \in Nat /\ Charge[s] \in Int) /\ Charge[r] = wire[r].amount
  BY WireAmounts DEF Charge
<1>4. cash = SumFunctionOnSet(f, Counted)
  BY DEF Money
<1> HIDE DEF f
<1>5. SumFunctionOnSet(f, Counted) = SumFunctionOnSet(Charge, Counted)
  BY <1>1, <1>2, SumEqual
<1>6. SumFunctionOnSet(Charge, both) = Charge[r] + SumFunctionOnSet(Charge, Counted)
  <2>1. \A s \in both : Charge[s] \in Int
    BY <1>1, <1>3
  <2> QED BY <1>1, <2>1, SumAdd
<1>7. SumFunctionOnSet(Charge, both) <= SumFunctionOnSet(Charge, Refunds)
  <2>1. both \in SUBSET Refunds
    BY <1>1
  <2> HIDE DEF both
  <2> QED BY <2>1, <1>3, RefundsAreFinite, SumSubset
<1>8. SumFunctionOnSet(Charge, Refunds) = Returned /\ Returned <= Price
  BY DEF Money, Returned, Charge
<1>9. /\ SumFunctionOnSet(Charge, Refunds) \in Int /\ SumFunctionOnSet(Charge, both) \in Int
      /\ SumFunctionOnSet(Charge, Counted) \in Int
  <2>1. IsFiniteSet(both) /\ \A s \in both : Charge[s] \in Int
    BY <1>1, <1>3, FS_AddElement
  <2> QED BY <1>1, <1>3, <2>1, RefundsAreFinite, SumType
<1> QED BY <1>3, <1>4, <1>5, <1>6, <1>7, <1>8, <1>9, RefundAssumption, WireAmounts DEF RefundTypeOK

\* Where cents are whole units, the purchase still has the units of what fits.
LEMMA UnitsFit ==
  ASSUME RefundTypeOK, Proportional, Credits % Price = 0, NEW m \in Nat, cash + m <= Price
  PROVE  Owed(m) \in 0..Reversible /\ Rate * m <= Reversible
<1>1. Rate \in Nat /\ cash \in Nat /\ Price \in Nat \ {0} /\ Credits \in Nat
  BY ShareIsRate, RefundAssumption DEF RefundTypeOK
<1>2. Owed(m) = Rate * m /\ Rate * (cash + m) = Rate * cash + Rate * m
  BY OwedIsRate
<1>3. reversed = Rate * cash /\ Credits = Rate * Price
  BY <1>1 DEF Proportional, Rate
<1>4. \A k \in Nat, x \in Nat, y \in Nat : x <= y => k * x <= k * y /\ k * x \in Nat
  OBVIOUS
<1>5. Rate * (cash + m) <= Rate * Price /\ Rate * m \in Nat /\ Rate * cash \in Nat
  BY <1>1, <1>4
<1> QED BY <1>1, <1>2, <1>3, <1>5 DEF Reversible

\* Whatever callbacks, answers, decisions and operators have done to an order,
\* the receipt of a refund it has not counted can still be replayed with
\* success, for every price, number of refunds and attempts, unless the refund
\* belongs to an attempt that was left without its hold.
THEOREM RefundsInReach == RefundSpec => []RefundsStayCountable
<1>1. RefundTypeOK /\ Books /\ Money /\ Proportional /\ ClosedWithCause => RefundsStayCountable
  <2> SUFFICES ASSUME RefundTypeOK, Books, Money, Proportional, ClosedWithCause, Credits % Price = 0,
                      NEW r \in Refunds \ Counted, wire[r].state = "done", Owner(r) \cap Unheld = {}
               PROVE  r \notin final /\ (MayTake(r) \/ \E a \in Attempts : MayCount(r, a))
    BY DEF RefundsStayCountable
  <2>1. r \notin final
    BY DEF ClosedWithCause, Counted
  <2>2. wire[r].amount \in Nat /\ cash + wire[r].amount <= Price
    BY WireAmounts, UncountedFits
  <2>3. Owed(wire[r].amount) \in 0..Reversible /\ Rate * wire[r].amount <= Reversible
    BY <2>2, UnitsFit
  <2>4. CASE Owner(r) = {}
    BY <2>1, <2>2, <2>3, <2>4 DEF MayTake
  <2>5. ASSUME NEW a \in Owner(r) PROVE a \in Attempts /\ MayCount(r, a)
    <3>1. a \in Attempts /\ (a \in Named(r) \/ (a \in Active /\ attempt[a].amount = wire[r].amount))
      BY DEF Owner, Named, Active
    <3>2. a \in Active
      <4>1. SUFFICES ASSUME a \in Named(r) PROVE Status(a) \in OpenStatuses
        BY <3>1 DEF Active
      <4>2. Status(a) \in Statuses /\ attempt[a].id = r /\ Status(a) # "failed"
        BY <3>1, <4>1 DEF RefundTypeOK, AttemptRows, Status, Named
      <4>3. Status(a) # "none"
        BY <3>1, <4>2, RefundAssumption DEF Books, Blank
      <4>4. Status(a) # "succeeded"
        BY <3>1, <4>2 DEF Counted
      <4> QED BY <4>2, <4>3, <4>4 DEF Statuses
    <3>3. attempt[a].amount = wire[r].amount
      <4>1. SUFFICES ASSUME a \in Named(r) PROVE attempt[a].amount = wire[r].amount
        BY <3>1
      <4>2. attempt[a].id = r /\ r # None
        BY <4>1, RefundAssumption DEF Named
      <4>3. wire[r].by = a /\ a # None
        BY <3>1, <3>2, <4>2, RefundAssumption DEF Books, NamesItsOwn
      <4> QED BY <4>3 DEF Books, AskedOnce
    <3>4. attempt[a].units = Rate * wire[r].amount
      BY <3>1, <3>3 DEF Proportional
    <3>5. Covered(a)
      BY <2>3, <3>2, <3>4 DEF Covered, Unheld
    <3> QED BY <3>1, <3>2, <3>3, <3>5 DEF MayCount, Active, OpenStatuses
  <2> QED BY <2>1, <2>4, <2>5
<1>2. RefundTypeOK /\ RefundTypeOK' /\ Books /\ Money /\ Proportional /\ [RefundNext]_refundVars => Money' /\ Proportional'
  BY MoneyKept, UnitsStep
<1>3. RefundInit => Money /\ Proportional
  BY MoneyInit
<1> QED BY RefundInductive, ReceiptsClosed, <1>1, <1>2, <1>3, PTL DEF RefundSpec, RefundInv
=============================================================================

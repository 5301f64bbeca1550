----------------------- MODULE IncrementQueue_proofs -----------------------
(***************************************************************************)
(* For any number of pushes, hand-overs and faults: a push is run at most  *)
(* once, before its operation ends, and in the order of the queue.         *)
(***************************************************************************)
EXTENDS IncrementQueue, TLAPS

\* A delivery that was not answered left nothing behind.
Fresh ==
  \A d \in Deliveries : hook[d] \in {"unused", "admitted", "found"} =>
    runs[d] = 0 /\ row[d] = "none" /\ work[<<d, 0>>] = "none"

Admitted == \A d \in Deliveries : op[d] = "absent" <=> hook[d] = "unused"

\* What can still be started was not run.
Unrun ==
  \A d \in Deliveries :
    row[d] \in {"pending", "dispatching"} \/ work[<<d, 0>>] = "submitted" => runs[d] = 0

\* A queued push has no review in full.
OneKind == \A d \in Deliveries : row[d] # "none" => work[<<d, 0>>] = "none"

\* Only hand-overs make tasks.
Handed == \A t \in Tasks : work[t] # "none" => t[2] <= dispatched[t[1]]

\* Every row is queued once.
Queued ==
  /\ \A i \in DOMAIN order : row[order[i]] # "none"
  /\ \A i, j \in DOMAIN order : order[i] = order[j] => i = j

\* What precedes the row a drain has listed is settled or the drainer's own.
Picked ==
  \A t \in Tasks : pick[t] # "none" =>
    \E i \in DOMAIN order :
      /\ order[i] = pick[t]
      /\ \A j \in DOMAIN order : j < i => row[order[j]] = "settled" \/ order[j] \in OwnRow(t)

IInv == Types /\ Drains /\ Fresh /\ Admitted /\ Unrun /\ OneKind /\ Handed /\ Queued /\ Picked

\* A task is a delivery with the number of its hand-over.
LEMMA TaskPairs ==
  /\ \A t \in Tasks : t[1] \in Deliveries /\ t[2] \in 0..MaxDispatch /\ t = <<t[1], t[2]>>
  /\ \A d \in Deliveries, n \in 0..MaxDispatch : <<d, n>> \in Tasks
  /\ \A d \in Deliveries : <<d, 0>> \in Tasks
BY BoundsAssumption DEF Tasks

\* The invariant holds before the first push.
LEMMA InitIInv == Init => IInv
<1> SUFFICES ASSUME Init PROVE IInv
  OBVIOUS
<1>1. Types /\ Drains
  BY BoundsAssumption, NoneAssumption, TaskPairs DEF Init, Types, Drains, Stages
<1>2. Fresh /\ Admitted /\ Unrun /\ OneKind /\ Handed /\ Queued /\ Picked
  BY TaskPairs DEF Init, Fresh, Admitted, Unrun, OneKind, Handed, Queued, Picked
<1> QED BY <1>1, <1>2 DEF IInv

\* A task moves on from what it does.
Moves(t, to) == work[t] # "none" /\ to # "submitted" /\ work' = [work EXCEPT ![t] = to]

\* What the move of a task to a later stage changes.
LEMMA MovesKeep ==
  ASSUME Types, NEW t \in Tasks, NEW to \in Stages, Moves(t, to)
  PROVE  /\ work' \in [Tasks -> Stages]
         /\ work'[t] = to /\ \A u \in Tasks : u # t => work'[u] = work[u]
         /\ \A u \in Tasks : work'[u] # "none" => work[u] # "none"
         /\ \A u \in Tasks : work'[u] = "submitted" => work[u] = "submitted"
BY DEF Types, Moves

\* Rows are settled, if anything becomes of them.
Settling == \A d \in Deliveries : row'[d] = row[d] \/ (row[d] # "none" /\ row'[d] = "settled")

\* A row that is settled leaves the others.
LEMMA SettlingKeeps ==
  ASSUME Types, NEW d \in Deliveries,
         row' = row \/ (Outstanding(d) /\ row' = [row EXCEPT ![d] = "settled"])
  PROVE  Settling /\ row' \in [Deliveries -> {"none", "pending", "dispatching", "running", "settled"}]
BY DEF Types, Settling, Outstanding

\* No task is made, no row goes back and nothing is admitted or begun.
Calm ==
  /\ \A u \in Tasks : work'[u] # "none" => work[u] # "none"
  /\ \A u \in Tasks : work'[u] = "submitted" => work[u] = "submitted"
  /\ \A d \in Deliveries : op'[d] = "absent" <=> op[d] = "absent"
  /\ Settling
  /\ \A u \in Tasks : pick'[u] \in {pick[u], "none"}
  /\ UNCHANGED <<hook, order, dispatched, runs>>

\* A step that starts and inserts nothing keeps the invariant.
LEMMA CalmKeeps ==
  ASSUME IInv, Calm, Types', Drains'
  PROVE  IInv'
<1> USE TaskPairs DEF IInv, Types, Calm, Settling
<1>1. Fresh' /\ Admitted'
  BY DEF Fresh, Admitted
<1>2. Unrun' /\ OneKind'
  BY DEF Unrun, OneKind
<1>3. Handed'
  BY DEF Handed
<1>4. Queued'
  BY DEF Queued
<1>5. Picked'
  BY DEF Picked, OwnRow
<1> QED BY <1>1, <1>2, <1>3, <1>4, <1>5

\* A worker task, up to the end of its operation.
LEMMA WorkerKeeps ==
  ASSUME IInv, NEW t \in Tasks,
         Review(t) \/ CallAI(t) \/ Consume(t) \/ Leave(t) \/ LeaveEarly(t) \/
         EndOperation(t) \/ Converge(t) \/ Finalize(t) \/ ClaimRefused(t)
  PROVE  IInv'
<1>0. Types /\ Drains
  BY DEF IInv
<1> USE <1>0
<1>1. CASE Review(t)
  <2>1. Moves(t, "reviewing") /\ work[t] = "running" /\ UNCHANGED <<hook, order, dispatched, pick, runs>>
    BY <1>1 DEF Review, Step, Moves, queue, bill, process
  <2>2. /\ work' \in [Tasks -> Stages]
        /\ work'[t] = "reviewing" /\ \A u \in Tasks : u # t => work'[u] = work[u]
        /\ \A u \in Tasks : work'[u] # "none" => work[u] # "none"
        /\ \A u \in Tasks : work'[u] = "submitted" => work[u] = "submitted"
    BY <2>1, MovesKeep DEF Stages
  <2>4. Settling /\ row' = row
    BY <1>1 DEF Review, Settling, queue
  <2>5. Types'
    BY <1>1, <2>1, <2>2, <2>4, TaskPairs DEF Review, Types, queue, bill, process
  <2>6. Drains'
    BY <2>1, <2>2 DEF Drains
  <2>7. \A d \in Deliveries : op'[d] = "absent" <=> op[d] = "absent"
    BY <1>1, TaskPairs DEF Review, Types, bill
  <2> QED BY <2>1, <2>2, <2>4, <2>5, <2>6, <2>7, CalmKeeps DEF Calm
<1>2. CASE CallAI(t)
  BY <1>2, CalmKeeps, TaskPairs DEF CallAI, Calm, Settling, Types, Drains, queue, process
<1>3. CASE Consume(t)
  <2>1. Settling /\ row' \in [Deliveries -> {"none", "pending", "dispatching", "running", "settled"}]
    BY <1>3, TaskPairs, SettlingKeeps DEF Consume
  <2>2. Types' /\ Drains'
    BY <1>3, <2>1 DEF Consume, Types, Drains, bill, process
  <2> QED BY <1>3, <2>1, <2>2, CalmKeeps DEF Consume, Calm, bill, process
<1>4. CASE Leave(t)
  <2>1. Moves(t, "closing") /\ work[t] = "reviewing" /\ UNCHANGED <<hook, order, dispatched, pick, runs>>
    BY <1>4 DEF Leave, Step, Moves, queue, bill, process
  <2>2. /\ work' \in [Tasks -> Stages]
        /\ work'[t] = "closing" /\ \A u \in Tasks : u # t => work'[u] = work[u]
        /\ \A u \in Tasks : work'[u] # "none" => work[u] # "none"
        /\ \A u \in Tasks : work'[u] = "submitted" => work[u] = "submitted"
    BY <2>1, MovesKeep DEF Stages
  <2>4. Settling /\ row' = row
    BY <1>4 DEF Leave, Settling, queue
  <2>5. Types'
    BY <1>4, <2>1, <2>2, <2>4, TaskPairs DEF Leave, Types, queue, bill, process
  <2>6. Drains'
    BY <2>1, <2>2 DEF Drains
  <2>7. \A d \in Deliveries : op'[d] = "absent" <=> op[d] = "absent"
    BY <1>4, TaskPairs DEF Leave, Types, bill
  <2> QED BY <2>1, <2>2, <2>4, <2>5, <2>6, <2>7, CalmKeeps DEF Calm
<1>5. CASE LeaveEarly(t)
  <2>1. Moves(t, "closing") /\ work[t] = "running" /\ UNCHANGED <<hook, order, dispatched, pick, runs>>
    BY <1>5 DEF LeaveEarly, Step, Moves, queue, bill, process
  <2>2. /\ work' \in [Tasks -> Stages]
        /\ work'[t] = "closing" /\ \A u \in Tasks : u # t => work'[u] = work[u]
        /\ \A u \in Tasks : work'[u] # "none" => work[u] # "none"
        /\ \A u \in Tasks : work'[u] = "submitted" => work[u] = "submitted"
    BY <2>1, MovesKeep DEF Stages
  <2>3. t[1] \in Deliveries /\ (row' = row \/ (Outstanding(t[1]) /\ row' = [row EXCEPT ![t[1]] = "settled"]))
    BY <1>5, TaskPairs, <2>1 DEF LeaveEarly, Drains, Types
  <2>4. Settling /\ row' \in [Deliveries -> {"none", "pending", "dispatching", "running", "settled"}]
    BY <2>3, SettlingKeeps
  <2>5. Types'
    BY <1>5, <2>1, <2>2, <2>4, TaskPairs DEF LeaveEarly, Types, queue, bill, process
  <2>6. Drains'
    BY <2>1, <2>2 DEF Drains
  <2>7. \A d \in Deliveries : op'[d] = "absent" <=> op[d] = "absent"
    BY <1>5, TaskPairs DEF LeaveEarly, Types, bill
  <2> QED BY <2>1, <2>2, <2>4, <2>5, <2>6, <2>7, CalmKeeps DEF Calm
<1>6. CASE EndOperation(t)
  <2>1. Moves(t, "ending") /\ work[t] = "closing" /\ UNCHANGED <<hook, order, dispatched, pick, runs>>
    BY <1>6 DEF EndOperation, Step, Moves, queue, bill, process
  <2>2. /\ work' \in [Tasks -> Stages]
        /\ work'[t] = "ending" /\ \A u \in Tasks : u # t => work'[u] = work[u]
        /\ \A u \in Tasks : work'[u] # "none" => work[u] # "none"
        /\ \A u \in Tasks : work'[u] = "submitted" => work[u] = "submitted"
    BY <2>1, MovesKeep DEF Stages
  <2>4. Settling /\ row' = row
    BY <1>6 DEF EndOperation, Settling, queue
  <2>8. t[1] \in Deliveries
    BY TaskPairs
  <2>9. op' = op \/ op' = [op EXCEPT ![t[1]] = "ended"]
    BY <1>6 DEF EndOperation
  <2>3. op' \in [Deliveries -> {"absent", "open", "ended"}]
    BY <2>8, <2>9 DEF Types
  <2>5. Types'
    BY <1>6, <2>1, <2>2, <2>3, <2>4 DEF EndOperation, Types, queue, bill, process
  <2>6. Drains'
    BY <2>1, <2>2 DEF Drains
  <2>7. \A d \in Deliveries : op'[d] = "absent" <=> op[d] = "absent"
    BY <1>6, TaskPairs DEF EndOperation, Types, bill
  <2> QED BY <2>1, <2>2, <2>4, <2>5, <2>6, <2>7, CalmKeeps DEF Calm
<1>7. CASE Converge(t)
  <2>1. Moves(t, "draining") /\ work[t] = "ending" /\ UNCHANGED <<hook, order, dispatched, pick, runs>>
    BY <1>7 DEF Converge, Step, Moves, queue, bill, process
  <2>2. /\ work' \in [Tasks -> Stages]
        /\ work'[t] = "draining" /\ \A u \in Tasks : u # t => work'[u] = work[u]
        /\ \A u \in Tasks : work'[u] # "none" => work[u] # "none"
        /\ \A u \in Tasks : work'[u] = "submitted" => work[u] = "submitted"
    BY <2>1, MovesKeep DEF Stages
  <2>3. t[1] \in Deliveries /\ (row' = row \/ (Outstanding(t[1]) /\ row' = [row EXCEPT ![t[1]] = "settled"]))
    BY <1>7, TaskPairs, <2>1 DEF Converge, Drains, Types, Finalized
  <2>4. Settling /\ row' \in [Deliveries -> {"none", "pending", "dispatching", "running", "settled"}]
    BY <2>3, SettlingKeeps
  <2>5. Types'
    BY <1>7, <2>1, <2>2, <2>4, TaskPairs DEF Converge, Types, queue, bill, process
  <2>6. Drains'
    BY <2>1, <2>2 DEF Drains
  <2>7. \A d \in Deliveries : op'[d] = "absent" <=> op[d] = "absent"
    BY <1>7, TaskPairs DEF Converge, Types, bill
  <2> QED BY <2>1, <2>2, <2>4, <2>5, <2>6, <2>7, CalmKeeps DEF Calm
<1>8. CASE Finalize(t)
  <2>1. Moves(t, "claiming") /\ work[t] = "listed" /\ UNCHANGED <<hook, order, dispatched, pick, runs>>
    BY <1>8 DEF Finalize, Step, Moves, queue, bill, process
  <2>2. /\ work' \in [Tasks -> Stages]
        /\ work'[t] = "claiming" /\ \A u \in Tasks : u # t => work'[u] = work[u]
        /\ \A u \in Tasks : work'[u] # "none" => work[u] # "none"
        /\ \A u \in Tasks : work'[u] = "submitted" => work[u] = "submitted"
    BY <2>1, MovesKeep DEF Stages
  <2>3. pick[t] \in Deliveries /\ (row' = row \/ (Outstanding(pick[t]) /\ row' = [row EXCEPT ![pick[t]] = "settled"]))
    BY <1>8, TaskPairs, <2>1 DEF Finalize, Drains, Types, Finalized
  <2>4. Settling /\ row' \in [Deliveries -> {"none", "pending", "dispatching", "running", "settled"}]
    BY <2>3, SettlingKeeps
  <2>5. Types'
    BY <1>8, <2>1, <2>2, <2>4, TaskPairs DEF Finalize, Types, queue, bill, process
  <2>6. Drains'
    BY <2>1, <2>2 DEF Drains
  <2>7. \A d \in Deliveries : op'[d] = "absent" <=> op[d] = "absent"
    BY <1>8, TaskPairs DEF Finalize, Types, bill
  <2> QED BY <2>1, <2>2, <2>4, <2>5, <2>6, <2>7, CalmKeeps DEF Calm
<1>9. CASE ClaimRefused(t)
  <2>1. Moves(t, "checking") /\ work[t] = "claiming" /\ UNCHANGED <<hook, order, dispatched, pick, runs>>
    BY <1>9 DEF ClaimRefused, Step, Moves, queue, bill, process
  <2>2. /\ work' \in [Tasks -> Stages]
        /\ work'[t] = "checking" /\ \A u \in Tasks : u # t => work'[u] = work[u]
        /\ \A u \in Tasks : work'[u] # "none" => work[u] # "none"
        /\ \A u \in Tasks : work'[u] = "submitted" => work[u] = "submitted"
    BY <2>1, MovesKeep DEF Stages
  <2>4. Settling /\ row' = row
    BY <1>9 DEF ClaimRefused, Settling, queue
  <2>5. Types'
    BY <1>9, <2>1, <2>2, <2>4, TaskPairs DEF ClaimRefused, Types, queue, bill, process
  <2>6. Drains'
    BY <2>1, <2>2 DEF Drains
  <2>7. \A d \in Deliveries : op'[d] = "absent" <=> op[d] = "absent"
    BY <1>9, TaskPairs DEF ClaimRefused, Types, bill
  <2> QED BY <2>1, <2>2, <2>4, <2>5, <2>6, <2>7, CalmKeeps DEF Calm
<1> QED BY <1>1, <1>2, <1>3, <1>4, <1>5, <1>6, <1>7, <1>8, <1>9

\* A task that stops, drains on or has nothing to drain.
LEMMA EndKeeps ==
  ASSUME IInv, NEW t \in Tasks, StartRefused(t) \/ (List(t) /\ Waiting(t) = {}) \/ Check(t)
  PROVE  IInv'
<1>0. Types /\ Drains
  BY DEF IInv
<1>1. PICK to \in {"none", "ending", "draining"} :
        Moves(t, to) /\ UNCHANGED <<queue, bill, hook, runs, review, resumed, faults>>
  <2>1. CASE StartRefused(t)
    BY <2>1 DEF StartRefused, Step, Moves
  <2>2. CASE List(t) /\ Waiting(t) = {}
    BY <2>2, <1>0 DEF List, Step, Moves, IsFirst, Types, Drains
  <2>3. CASE Check(t)
    BY <2>3, <1>0 DEF Check, Moves
  <2> QED BY <2>1, <2>2, <2>3
<1>2. /\ work' \in [Tasks -> Stages]
      /\ work'[t] = to /\ \A u \in Tasks : u # t => work'[u] = work[u]
      /\ \A u \in Tasks : work'[u] # "none" => work[u] # "none"
      /\ \A u \in Tasks : work'[u] = "submitted" => work[u] = "submitted"
  BY <1>0, <1>1, MovesKeep DEF Stages
<1>3. pick' \in [Tasks -> Deliveries \cup {"none"}]
      /\ pick'[t] = "none" /\ \A u \in Tasks : u # t => pick'[u] = pick[u]
  <2>1. CASE StartRefused(t)
    BY <2>1, <1>0 DEF StartRefused, Step, Types, Drains
  <2>2. CASE List(t) /\ Waiting(t) = {}
    BY <2>2, <1>0 DEF List, Step, IsFirst, Types, Drains
  <2>3. CASE Check(t)
    BY <2>3, <1>0 DEF Check, Types
  <2> QED BY <2>1, <2>2, <2>3
<1>4. Types' /\ Drains'
  BY <1>0, <1>1, <1>2, <1>3 DEF Types, Drains, queue, bill
<1>5. Calm
  BY <1>1, <1>2, <1>3 DEF Calm, Settling, queue, bill
<1> QED BY <1>4, <1>5, CalmKeeps

\* A worker task begins.
LEMMA StartKeeps ==
  ASSUME IInv, NEW t \in Tasks, Start(t)
  PROVE  IInv'
<1> USE TaskPairs DEF IInv
<1>1. /\ Moves(t, "running") /\ work[t] = "submitted"
      /\ UNCHANGED <<hook, order, dispatched, pick, op>>
  BY DEF Start, Step, Moves, bill
<1>2. /\ work' \in [Tasks -> Stages]
      /\ work'[t] = "running" /\ \A u \in Tasks : u # t => work'[u] = work[u]
      /\ \A u \in Tasks : work'[u] # "none" => work[u] # "none"
      /\ \A u \in Tasks : work'[u] = "submitted" => work[u] = "submitted"
  BY <1>1, MovesKeep DEF Stages
<1>3. PICK d \in Deliveries : t[1] = d /\ (t[2] = 0 => t = <<d, 0>>)
  OBVIOUS
<1>4. runs' = [runs EXCEPT ![d] = @ + 1] /\ runs[d] = 0
  <2>1. CASE t[2] = 0
    BY <2>1, <1>1, <1>3 DEF Start, Unrun
  <2>2. CASE t[2] # 0
    BY <2>2, <1>3 DEF Start, MayStart, Unrun
  <2> QED BY <2>1, <2>2
<1>5. \/ t = <<d, 0>> /\ row[d] = "none" /\ row' = row
      \/ t # <<d, 0>> /\ row[d] = "dispatching" /\ row' = [row EXCEPT ![d] = "running"]
  BY <1>1, <1>3 DEF Start, MayStart, OneKind
<1>6. hook[d] = "answered"
  BY <1>1, <1>5 DEF Fresh, Types
<1>7. Types'
  <2>1. row' \in [Deliveries -> {"none", "pending", "dispatching", "running", "settled"}]
    BY <1>5 DEF Types
  <2>2. runs' \in [Deliveries -> Nat]
    BY <1>4 DEF Types
  <2> QED BY <1>1, <1>2, <2>1, <2>2 DEF Start, Types, bill
<1>8. Drains'
  BY <1>1, <1>2 DEF Drains
<1>9. Fresh' /\ Admitted'
  BY <1>1, <1>2, <1>4, <1>5, <1>6 DEF Types, Fresh, Admitted
<1>10. Unrun'
  <2>1. \A e \in Deliveries : e # d => runs'[e] = runs[e] /\ row'[e] = row[e]
    BY <1>4, <1>5 DEF Types
  <2>2. row'[d] \notin {"pending", "dispatching"} /\ work'[<<d, 0>>] # "submitted"
    BY <1>2, <1>5 DEF Types, OneKind
  <2> QED BY <1>2, <2>1, <2>2 DEF Unrun
<1>11. OneKind' /\ Handed'
  BY <1>1, <1>2, <1>5 DEF Types, OneKind, Handed
<1>12. Queued'
  BY <1>1, <1>5 DEF Types, Queued
<1>13. Picked'
  <2>1. \A e \in Deliveries : row[e] = "settled" => row'[e] = "settled"
    BY <1>5 DEF Types
  <2>2. \A j \in DOMAIN order : order[j] \in Deliveries
    BY DEF Types
  <2> QED BY <1>1, <2>1, <2>2 DEF Picked, OwnRow
<1> QED BY <1>7, <1>8, <1>9, <1>10, <1>11, <1>12, <1>13

\* A drain lists the first row that waits.
LEMMA ListKeeps ==
  ASSUME IInv, NEW t \in Tasks, List(t), Waiting(t) # {}
  PROVE  IInv'
<1> USE TaskPairs DEF IInv
<1>1. PICK i \in DOMAIN order : IsFirst(t, i) /\ pick' = [pick EXCEPT ![t] = order[i]]
  BY DEF List
<1>2. /\ Moves(t, "listed") /\ work[t] = "draining"
      /\ UNCHANGED <<row, hook, order, dispatched, runs, op>>
  BY DEF List, Step, Moves, queue, bill
<1>3. /\ work' \in [Tasks -> Stages]
      /\ work'[t] = "listed" /\ \A u \in Tasks : u # t => work'[u] = work[u]
      /\ \A u \in Tasks : work'[u] # "none" => work[u] # "none"
      /\ \A u \in Tasks : work'[u] = "submitted" => work[u] = "submitted"
  BY <1>2, MovesKeep DEF Stages
<1>4. order[i] \in Deliveries
  BY DEF Types
<1>5. Types'
  BY <1>1, <1>2, <1>3, <1>4 DEF List, Types, queue, bill
<1>6. Drains'
  BY <1>1, <1>2, <1>3, <1>4, NoneAssumption DEF Types, Drains
<1>7. Fresh' /\ Admitted' /\ Unrun' /\ OneKind' /\ Handed' /\ Queued'
  BY <1>2, <1>3 DEF Fresh, Admitted, Unrun, OneKind, Handed, Queued
<1>8. \A j \in DOMAIN order : j < i => row[order[j]] = "settled" \/ order[j] \in OwnRow(t)
  <2> SUFFICES ASSUME NEW j \in DOMAIN order, j < i, order[j] \notin OwnRow(t)
               PROVE  row[order[j]] = "settled"
    OBVIOUS
  <2>1. i \in Nat /\ j \in Nat
    <3>1. DOMAIN order = 1..Len(order) /\ Len(order) \in Nat
      BY DEF Types
    <3> QED BY <3>1
  <2>2. j \notin Waiting(t) /\ t \notin resumed
    BY <1>1, <2>1 DEF IsFirst, Waiting
  <2>3. ~Outstanding(order[j])
    BY <2>2 DEF Waiting
  <2> QED BY <2>3 DEF Outstanding, Types, Queued
<1>9. Picked'
  <2> SUFFICES ASSUME NEW u \in Tasks, pick'[u] # "none"
               PROVE  \E k \in DOMAIN order :
                        /\ order[k] = pick'[u]
                        /\ \A j \in DOMAIN order :
                             j < k => row[order[j]] = "settled" \/ order[j] \in OwnRow(u)
    BY <1>2 DEF Picked, OwnRow
  <2>1. CASE u = t
    BY <2>1, <1>1, <1>8 DEF Types
  <2>2. CASE u # t
    BY <2>2, <1>1 DEF Types, Picked
  <2> QED BY <2>1, <2>2
<1> QED BY <1>5, <1>6, <1>7, <1>9

\* A row is handed over: one task more may begin.
LEMMA HandOverKeeps ==
  ASSUME IInv, NEW d \in Deliveries, HandOver(d), Types', Drains',
         UNCHANGED <<hook, runs, op>>,
         \A u \in Tasks : pick'[u] \in {pick[u], "none"},
         \A u \in Tasks : u # <<d, dispatched[d] + 1>> =>
           /\ work'[u] # "none" => work[u] # "none"
           /\ work'[u] = "submitted" => work[u] = "submitted"
  PROVE  IInv'
<1> USE TaskPairs DEF IInv
<1>1. /\ row[d] = "pending" /\ row' = [row EXCEPT ![d] = "dispatching"]
      /\ dispatched' = [dispatched EXCEPT ![d] = @ + 1] /\ order' = order
      /\ dispatched[d] \in 0..MaxDispatch
  BY DEF HandOver, MayClaim, Types
<1>2. /\ \A e \in Deliveries : e # d => row'[e] = row[e] /\ dispatched'[e] = dispatched[e]
      /\ row'[d] = "dispatching" /\ dispatched'[d] = dispatched[d] + 1
  BY <1>1 DEF Types
<1>3. \A e \in Deliveries :
        /\ work'[<<e, 0>>] # "none" => work[<<e, 0>>] # "none"
        /\ work'[<<e, 0>>] = "submitted" => work[<<e, 0>>] = "submitted"
  <2> SUFFICES ASSUME NEW e \in Deliveries PROVE <<e, 0>> # <<d, dispatched[d] + 1>>
    OBVIOUS
  <2> QED BY <1>1, BoundsAssumption
<1>4. Fresh' /\ Admitted'
  BY <1>1, <1>2, <1>3 DEF Fresh, Admitted
<1>5. Unrun'
  BY <1>1, <1>2, <1>3 DEF Unrun
<1>6. OneKind'
  BY <1>1, <1>2, <1>3 DEF OneKind
<1>7. Handed'
  <2> SUFFICES ASSUME NEW u \in Tasks, work'[u] # "none" PROVE u[2] <= dispatched'[u[1]]
    BY DEF Handed
  <2>1. CASE u = <<d, dispatched[d] + 1>>
    BY <2>1, <1>1, <1>2, BoundsAssumption
  <2>2. CASE u # <<d, dispatched[d] + 1>>
    <3>1. u[2] <= dispatched[u[1]] /\ u[1] \in Deliveries /\ u[2] \in Nat
      BY <2>2, BoundsAssumption DEF Handed
    <3>2. dispatched[u[1]] \in Nat /\ dispatched'[u[1]] \in Nat
      BY <3>1, BoundsAssumption DEF Types
    <3>3. dispatched'[u[1]] = dispatched[u[1]] \/ dispatched'[u[1]] = dispatched[u[1]] + 1
      BY <1>2, <3>1
    <3> QED BY <3>1, <3>2, <3>3
  <2> QED BY <2>1, <2>2
<1>8. Queued'
  BY <1>1, <1>2 DEF Queued, Types
<1>9. Picked'
  <2>1. \A e \in Deliveries : row[e] = "settled" => row'[e] = "settled"
    BY <1>1, <1>2
  <2>2. \A j \in DOMAIN order : order[j] \in Deliveries
    BY DEF Types
  <2> QED BY <1>1, <2>1, <2>2 DEF Picked, OwnRow
<1> QED BY <1>4, <1>5, <1>6, <1>7, <1>8, <1>9

\* Handing over makes a task with its own number.
LEMMA HandOverTypes ==
  ASSUME Types, NEW d \in Deliveries, HandOver(d)
  PROVE  /\ <<d, dispatched[d] + 1>> \in Tasks
         /\ row' \in [Deliveries -> {"none", "pending", "dispatching", "running", "settled"}]
         /\ token' \in [Deliveries -> 0..MaxDispatch]
         /\ dispatched' \in [Deliveries -> 0..MaxDispatch]
         /\ expired' \subseteq Deliveries /\ order' \in Seq(Deliveries)
<1>1. dispatched[d] \in 0..MaxDispatch /\ dispatched[d] + 1 \in 0..MaxDispatch
  BY BoundsAssumption DEF HandOver, Types
<1> QED BY <1>1, TaskPairs DEF HandOver, Types

\* The claim of the row a drain listed keeps the invariant.
LEMMA ClaimKeeps ==
  ASSUME IInv, NEW t \in Tasks, Claim(t)
  PROVE  IInv'
<1>0. Types /\ Drains
  BY DEF IInv
<1> DEFINE d == pick[t]
           new == <<d, dispatched[d] + 1>>
<1>1. work[t] = "claiming" /\ HandOver(d)
  BY DEF Claim
<1>2. d \in Deliveries
  BY <1>0, <1>1 DEF Types, Drains
<1>3. new \in Tasks
  BY <1>0, <1>1, <1>2, HandOverTypes
<1>4. work[new] = "none" /\ new # t
  <2>1. ~(new[2] <= dispatched[new[1]])
    BY <1>0, <1>2, BoundsAssumption DEF Types
  <2> QED BY <1>1, <1>3, <2>1 DEF IInv, Handed
<1>5. /\ work' = [work EXCEPT ![t] = "none", ![new] = "submitted"]
      /\ pick' = [pick EXCEPT ![t] = "none"]
      /\ UNCHANGED <<bill, hook, resumed, review, faults, runs>>
  BY DEF Claim
<1> HIDE DEF d, new
<1>6. /\ work' \in [Tasks -> Stages] /\ work'[new] = "submitted" /\ work'[t] = "none"
      /\ \A u \in Tasks : u \notin {t, new} => work'[u] = work[u]
  BY <1>0, <1>3, <1>4, <1>5 DEF Types, Stages
<1>7. /\ pick' \in [Tasks -> Deliveries \cup {"none"}] /\ pick'[t] = "none"
      /\ \A u \in Tasks : u # t => pick'[u] = pick[u]
  BY <1>0, <1>5 DEF Types
<1>8. Types'
  BY <1>0, <1>1, <1>2, <1>5, <1>6, <1>7, HandOverTypes DEF Types, bill
<1>9. Drains'
  BY <1>0, <1>3, <1>4, <1>6, <1>7 DEF Drains
<1>10. \A u \in Tasks : u # new =>
        /\ work'[u] # "none" => work[u] # "none"
        /\ work'[u] = "submitted" => work[u] = "submitted"
  BY <1>6
<1>11. \A u \in Tasks : pick'[u] \in {pick[u], "none"}
  BY <1>7
<1> QED BY <1>1, <1>2, <1>5, <1>8, <1>9, <1>10, <1>11, HandOverKeeps DEF bill, new

\* The operator's new hand-over of a row keeps the invariant.
LEMMA ResumeKeeps ==
  ASSUME IInv, NEW d \in Deliveries, ResumeRow(d)
  PROVE  IInv'
<1>0. Types /\ Drains
  BY DEF IInv
<1> DEFINE new == <<d, dispatched[d] + 1>>
<1>1. /\ HandOver(d) /\ work' = [work EXCEPT ![new] = "submitted"]
      /\ resumed' = resumed \cup {new}
      /\ UNCHANGED <<bill, hook, pick, review, faults, runs>>
  BY DEF ResumeRow
<1>2. new \in Tasks
  BY <1>0, <1>1, HandOverTypes
<1>3. work[new] = "none"
  <2>1. ~(new[2] <= dispatched[new[1]])
    BY <1>0, BoundsAssumption DEF Types
  <2> QED BY <1>2, <2>1 DEF IInv, Handed
<1> HIDE DEF new
<1>4. /\ work' \in [Tasks -> Stages] /\ work'[new] = "submitted"
      /\ \A u \in Tasks : u # new => work'[u] = work[u]
  BY <1>0, <1>1, <1>2 DEF Types, Stages
<1>5. Types'
  BY <1>0, <1>1, <1>2, <1>4, HandOverTypes DEF Types, bill
<1>6. Drains'
  BY <1>0, <1>1, <1>2, <1>3, <1>4 DEF Drains
<1>7. \A u \in Tasks : u # new =>
        /\ work'[u] # "none" => work[u] # "none"
        /\ work'[u] = "submitted" => work[u] = "submitted"
  BY <1>4
<1>8. \A u \in Tasks : pick'[u] \in {pick[u], "none"}
  BY <1>1
<1> QED BY <1>1, <1>5, <1>6, <1>7, <1>8, HandOverKeeps DEF bill, new

\* The webhook handler.
LEMMA HandlerKeeps ==
  ASSUME IInv, NEW d \in Deliveries,
         Admit(d) \/ FindActive(d) \/ Insert(d) \/ ReviewInFull(d)
  PROVE  IInv'
<1> USE TaskPairs DEF IInv
<1>1. CASE Admit(d)
  BY <1>1 DEF Admit, Types, Drains, Fresh, Admitted, Unrun, OneKind, Handed, Queued, Picked,
    OwnRow, queue
<1>2. CASE FindActive(d)
  BY <1>2 DEF FindActive, Types, Drains, Fresh, Admitted, Unrun, OneKind, Handed, Queued, Picked,
    OwnRow, queue, bill
<1>3. CASE Insert(d)
  <2>1. /\ row' = [row EXCEPT ![d] = "pending"] /\ order' = Append(order, d)
        /\ hook' = [hook EXCEPT ![d] = "answered"]
        /\ hook[d] = "found" /\ row[d] = "none" /\ runs[d] = 0 /\ work[<<d, 0>>] = "none"
        /\ UNCHANGED <<dispatched, op, work, pick, runs>>
    BY <1>3 DEF Insert, MayInsert, Fresh, bill
  <2>2. Types'
    BY <1>3, <2>1 DEF Insert, Types, bill
  <2>3. Drains' /\ Fresh' /\ Admitted' /\ Unrun' /\ OneKind' /\ Handed'
    BY <2>1 DEF Types, Drains, Fresh, Admitted, Unrun, OneKind, Handed
  <2>4. /\ DOMAIN order = 1..Len(order) /\ Len(order) \in Nat
        /\ DOMAIN order' = 1..(Len(order) + 1)
        /\ \A i \in DOMAIN order : order'[i] = order[i] /\ order[i] # d /\ order[i] \in Deliveries
        /\ order'[Len(order) + 1] = d
    BY <2>1 DEF Types, Queued
  <2>5. \A e \in Deliveries : row[e] # "none" => row'[e] = row[e]
    BY <2>1 DEF Types
  <2>6. row'[d] # "none"
    BY <2>1 DEF Types
  <2>7. Queued'
    BY <2>4, <2>5, <2>6 DEF Queued
  <2>8. Picked'
    <3> SUFFICES ASSUME NEW t \in Tasks, pick[t] # "none"
                 PROVE  \E i \in DOMAIN order' :
                          /\ order'[i] = pick[t]
                          /\ \A j \in DOMAIN order' :
                               j < i => row'[order'[j]] = "settled" \/ order'[j] \in OwnRow(t)
      BY <2>1 DEF Picked, OwnRow
    <3>1. PICK i \in DOMAIN order :
            /\ order[i] = pick[t]
            /\ \A j \in DOMAIN order :
                 j < i => row[order[j]] = "settled" \/ order[j] \in OwnRow(t)
      BY DEF Picked
    <3>2. i \in DOMAIN order' /\ order'[i] = pick[t]
      BY <2>4, <3>1
    <3>3. ASSUME NEW j \in DOMAIN order', j < i
          PROVE  row'[order'[j]] = "settled" \/ order'[j] \in OwnRow(t)
      <4>1. j \in DOMAIN order /\ order'[j] = order[j] /\ order[j] \in Deliveries
        BY <2>4, <3>3
      <4> QED BY <2>5, <3>1, <3>3, <4>1
    <3> QED BY <3>2, <3>3
  <2> QED BY <2>2, <2>3, <2>7, <2>8
<1>4. CASE ReviewInFull(d)
  <2>1. /\ work' = [work EXCEPT ![<<d, 0>>] = "submitted"] /\ work[<<d, 0>>] = "none"
        /\ hook' = [hook EXCEPT ![d] = "answered"]
        /\ hook[d] = "admitted" /\ row[d] = "none" /\ runs[d] = 0
        /\ UNCHANGED <<row, order, dispatched, op, pick, runs>>
    BY <1>4 DEF ReviewInFull, Step, Fresh, queue, bill
  <2>2. /\ work' \in [Tasks -> Stages] /\ work'[<<d, 0>>] = "submitted"
        /\ \A u \in Tasks : u # <<d, 0>> => work'[u] = work[u]
    BY <2>1 DEF Types, Stages
  <2>3. Types'
    BY <1>4, <2>1, <2>2 DEF ReviewInFull, Types, queue, bill
  <2>4. Drains' /\ Queued'
    BY <2>1, <2>2 DEF Drains, Queued
  <2>5. Fresh' /\ Admitted' /\ Unrun' /\ OneKind'
    BY <2>1, <2>2 DEF Types, Fresh, Admitted, Unrun, OneKind
  <2>6. Handed'
    BY <2>1, <2>2, BoundsAssumption DEF Types, Handed
  <2>7. Picked'
    BY <2>1 DEF Picked, OwnRow
  <2> QED BY <2>3, <2>4, <2>5, <2>6, <2>7
<1> QED BY <1>1, <1>2, <1>3, <1>4

\* Everybody else.
LEMMA OthersKeep ==
  ASSUME IInv,
         \/ CancelPending \/ Crash
         \/ \E d \in Deliveries :
              RecoverRow(d) \/ RecoverOperation(d) \/ HandOverExpires(d) \/ OwnershipLapses(d)
  PROVE  IInv'
<1>0. Types /\ Drains
  BY DEF IInv
<1> USE <1>0
<1>1. CASE CancelPending
  <2>1. Types'
    BY <1>1 DEF CancelPending, Types, process
  <2>2. Calm /\ Drains'
    BY <1>1 DEF CancelPending, Unstarted, Outstanding, Calm, Settling, Types, Drains, process
  <2> QED BY <2>1, <2>2, CalmKeeps
<1>2. CASE Crash
  BY <1>2, TaskPairs, BoundsAssumption DEF Crash, IInv, Types, Drains, Fresh, Admitted, Unrun,
    OneKind, Handed, Queued, Picked, OwnRow, Stages, queue, bill
<1>3. ASSUME NEW d \in Deliveries, RecoverRow(d) PROVE IInv'
  <2>1. \/ Outstanding(d) /\ row' = [row EXCEPT ![d] = "settled"]
        \/ row[d] = "dispatching" /\ row' = [row EXCEPT ![d] = "pending"]
    BY <1>3 DEF RecoverRow, Resettable
  <2>2. UNCHANGED <<order, dispatched, op, hook, work, pick, runs>>
    BY <1>3 DEF RecoverRow, bill, process
  <2>3. Types'
    <3>1. row' \in [Deliveries -> {"none", "pending", "dispatching", "running", "settled"}]
      BY <2>1 DEF Types
    <3>2. token' \in [Deliveries -> 0..MaxDispatch] /\ expired' \subseteq Deliveries
      BY <1>3, BoundsAssumption DEF RecoverRow, Types
    <3> QED BY <1>3, <3>1, <3>2 DEF RecoverRow, Types, bill, process
  <2>4. Drains'
    BY <2>2 DEF Drains
  <2>5. CASE Outstanding(d) /\ row' = [row EXCEPT ![d] = "settled"]
    BY <2>2, <2>3, <2>4, <2>5, SettlingKeeps, CalmKeeps DEF Calm
  <2>6. CASE row[d] = "dispatching" /\ row' = [row EXCEPT ![d] = "pending"]
    <3>1. \A e \in Deliveries : e # d => row'[e] = row[e]
      BY <2>6 DEF Types
    <3>2. row'[d] = "pending"
      BY <2>6 DEF Types
    <3>3. Fresh' /\ Admitted' /\ Unrun' /\ OneKind' /\ Handed'
      BY <2>2, <2>6, <3>1, <3>2 DEF IInv, Fresh, Admitted, Unrun, OneKind, Handed
    <3>4. Queued'
      BY <2>2, <2>6, <3>1, <3>2 DEF IInv, Types, Queued
    <3>5. Picked'
      <4>1. \A e \in Deliveries : row[e] = "settled" => row'[e] = "settled"
        BY <2>6, <3>1
      <4>2. \A j \in DOMAIN order : order[j] \in Deliveries
        BY DEF Types
      <4> QED BY <2>2, <4>1, <4>2 DEF IInv, Picked, OwnRow
    <3> QED BY <2>3, <2>4, <3>3, <3>4, <3>5 DEF IInv
  <2> QED BY <2>1, <2>5, <2>6
<1>4. ASSUME NEW d \in Deliveries, RecoverOperation(d) PROVE IInv'
  BY <1>4, CalmKeeps DEF RecoverOperation, Calm, Settling, Types, Drains, queue, process
<1>5. ASSUME NEW d \in Deliveries, HandOverExpires(d) PROVE IInv'
  <2>1. Types'
    BY <1>5, BoundsAssumption DEF HandOverExpires, Types, bill, process
  <2>2. Calm /\ Drains'
    BY <1>5 DEF HandOverExpires, Calm, Settling, Drains, bill, process
  <2> QED BY <2>1, <2>2, CalmKeeps
<1>6. ASSUME NEW d \in Deliveries, OwnershipLapses(d) PROVE IInv'
  <2>1. Types'
    BY <1>6, BoundsAssumption DEF OwnershipLapses, Types, queue, process
  <2>2. Calm /\ Drains'
    BY <1>6 DEF OwnershipLapses, Calm, Settling, Drains, queue, process
  <2> QED BY <2>1, <2>2, CalmKeeps
<1> QED BY <1>1, <1>2, <1>3, <1>4, <1>5, <1>6

\* Every step of handlers, workers and operators keeps the invariant.
LEMMA InductiveIInv == IInv /\ [Next]_vars => IInv'
<1> SUFFICES ASSUME IInv, [Next]_vars PROVE IInv'
  OBVIOUS
<1>1. CASE UNCHANGED vars
  BY <1>1 DEF IInv, Types, Drains, Fresh, Admitted, Unrun, OneKind, Handed, Queued, Picked,
    OwnRow, vars, queue, bill, process
<1>2. ASSUME NEW d \in Deliveries,
             \/ Admit(d) \/ Handle(d) \/ RecoverRow(d) \/ ResumeRow(d) \/ RecoverOperation(d)
             \/ HandOverExpires(d) \/ OwnershipLapses(d)
      PROVE  IInv'
  BY <1>2, HandlerKeeps, OthersKeep, ResumeKeeps DEF Handle
<1>3. ASSUME NEW t \in Tasks, Proceed(t) \/ CallAI(t) \/ Consume(t) PROVE IInv'
  BY <1>3, StartKeeps, WorkerKeeps, EndKeeps, ListKeeps, ClaimKeeps DEF Proceed
<1>4. CASE CancelPending \/ Crash
  BY <1>4, OthersKeep
<1> QED BY <1>1, <1>2, <1>3, <1>4 DEF Next

\* The invariant holds in every reachable state.
LEMMA Invariance == Spec => []IInv
BY InitIInv, InductiveIInv, PTL DEF Spec
-----------------------------------------------------------------------------
\* Every variable keeps its type, a listed row is remembered while a drain goes
\* on, and nothing is queued without its admission.
THEOREM TypeCorrect == Spec => []TypeOK
<1>1. IInv => TypeOK
  BY DEF IInv, TypeOK, Types, Fresh, Admitted
<1> QED BY <1>1, Invariance, PTL

\* An ended operation stays so.
LEMMA EndedStays ==
  ASSUME IInv, [Next]_vars
  PROVE  Ended \subseteq Ended' /\ Ended' \subseteq Deliveries
<1> SUFFICES ASSUME NEW e \in Ended PROVE op'[e] = "ended"
  BY DEF Ended
<1>1. e \in Deliveries /\ op[e] = "ended" /\ op \in [Deliveries -> {"absent", "open", "ended"}]
  BY DEF Ended, IInv, Types
<1>2. ASSUME NEW d \in Deliveries, Admit(d) PROVE op'[e] = "ended"
  <2>1. op[d] = "absent" /\ op' = [op EXCEPT ![d] = "open"]
    BY <1>2 DEF Admit, IInv, Admitted
  <2> QED BY <1>1, <2>1
<1>3. ASSUME NEW t \in Tasks, EndOperation(t) PROVE op'[e] = "ended"
  BY <1>1, <1>3 DEF EndOperation
<1>4. CASE CancelPending
  BY <1>1, <1>4 DEF CancelPending
<1>5. ASSUME NEW d \in Deliveries, RecoverOperation(d) PROVE op'[e] = "ended"
  BY <1>1, <1>5 DEF RecoverOperation
<1>6. CASE UNCHANGED op
  BY <1>1, <1>6
<1>7. \/ UNCHANGED op \/ CancelPending
      \/ \E d \in Deliveries : Admit(d) \/ RecoverOperation(d)
      \/ \E t \in Tasks : EndOperation(t)
  <2>1. CASE UNCHANGED vars
    BY <2>1 DEF vars, bill
  <2>2. ASSUME NEW d \in Deliveries,
               \/ Handle(d) \/ RecoverRow(d) \/ ResumeRow(d)
               \/ HandOverExpires(d) \/ OwnershipLapses(d)
        PROVE  UNCHANGED op
    BY <2>2 DEF Handle, FindActive, Insert, ReviewInFull, RecoverRow, ResumeRow,
      HandOverExpires, OwnershipLapses, bill
  <2>3. ASSUME NEW t \in Tasks, Proceed(t) \/ CallAI(t) \/ Consume(t), ~EndOperation(t)
        PROVE  UNCHANGED op
    BY <2>3 DEF Proceed, Start, StartRefused, Review, Leave, LeaveEarly, Converge,
      List, Finalize, Claim, ClaimRefused, Check, CallAI, Consume, bill
  <2>4. CASE Crash
    BY <2>4 DEF Crash, bill
  <2> QED BY <2>1, <2>2, <2>3, <2>4 DEF Next
<1> QED BY <1>2, <1>3, <1>4, <1>5, <1>6, <1>7

\* A push is run at most once and only under an operation without its outcome:
\* the queue implements its promise.
THEOREM RunOnce == Spec => RunsOnce
<1>1. Init => Promise!PInit
  BY DEF Init, Promise!PInit, Ended
<1>2. IInv /\ [Next]_vars => [Promise!PNext]_(Promise!pvars)
  <2> SUFFICES ASSUME IInv, [Next]_vars PROVE [Promise!PNext]_(Promise!pvars)
    OBVIOUS
  <2>1. CASE UNCHANGED runs
    BY <2>1, EndedStays DEF Promise!PNext, Promise!End
  <2>2. ASSUME NEW t \in Tasks, Start(t) PROVE Promise!PNext
    <3>1. PICK d \in Deliveries : t[1] = d /\ (t[2] = 0 => t = <<d, 0>>)
      BY TaskPairs
    <3>2. op[d] = "open" /\ runs[d] = 0 /\ runs' = [runs EXCEPT ![d] = @ + 1] /\ op' = op
      BY <2>2, <3>1 DEF Start, MayStart, Step, IInv, Unrun, bill
    <3>3. d \notin Ended /\ runs' = [runs EXCEPT ![d] = 1] /\ Ended' = Ended
      BY <3>2 DEF Ended
    <3> QED BY <3>2, <3>3 DEF Promise!PNext, Promise!Run
  <2>3. UNCHANGED runs \/ \E t \in Tasks : Start(t)
    <3>1. CASE UNCHANGED vars
      BY <3>1 DEF vars
    <3>2. ASSUME NEW d \in Deliveries,
                 \/ Admit(d) \/ Handle(d) \/ RecoverRow(d) \/ ResumeRow(d) \/ RecoverOperation(d)
                 \/ HandOverExpires(d) \/ OwnershipLapses(d)
          PROVE  UNCHANGED runs
      BY <3>2 DEF Handle, Admit, FindActive, Insert, ReviewInFull, RecoverRow, ResumeRow,
        RecoverOperation, HandOverExpires, OwnershipLapses
    <3>3. ASSUME NEW t \in Tasks, Proceed(t) \/ CallAI(t) \/ Consume(t), ~Start(t)
          PROVE  UNCHANGED runs
      BY <3>3 DEF Proceed, StartRefused, Review, Leave, LeaveEarly, EndOperation, Converge,
        List, Finalize, Claim, ClaimRefused, Check, CallAI, Consume
    <3>4. CASE CancelPending \/ Crash
      BY <3>4 DEF CancelPending, Crash
    <3> QED BY <3>1, <3>2, <3>3, <3>4 DEF Next
  <2> QED BY <2>1, <2>2, <2>3
<1> QED BY <1>1, <1>2, Invariance, PTL DEF Spec, RunsOnce, Promise!PSpec

\* Drains overtake no row that waits, although they list and claim apart.
THEOREM InOrder == Spec => DrainedInOrder
<1>1. IInv => \A t \in Tasks : Claim(t) =>
        \A e \in Deliveries : Before(e, pick[t]) => ~Outstanding(e) \/ e \in OwnRow(t)
  <2> SUFFICES ASSUME IInv, NEW t \in Tasks, Claim(t), NEW e \in Deliveries, Before(e, pick[t])
               PROVE  ~Outstanding(e) \/ e \in OwnRow(t)
    OBVIOUS
  <2>1. PICK i, j \in DOMAIN order : i < j /\ order[i] = e /\ order[j] = pick[t]
    BY DEF Before
  <2>2. pick[t] # "none"
    BY DEF Claim, IInv, Drains
  <2>3. PICK k \in DOMAIN order :
          /\ order[k] = pick[t]
          /\ \A l \in DOMAIN order : l < k => row[order[l]] = "settled" \/ order[l] \in OwnRow(t)
    BY <2>2 DEF IInv, Picked
  <2>4. j = k
    BY <2>1, <2>3 DEF IInv, Queued
  <2> QED BY <2>1, <2>3, <2>4 DEF Outstanding
<1>2. IInv /\ [Next]_vars =>
        [\A t \in Tasks : Claim(t) =>
           \A e \in Deliveries : Before(e, pick[t]) => ~Outstanding(e) \/ e \in OwnRow(t)]_vars
  BY <1>1
<1> QED BY <1>2, Invariance, PTL DEF Spec, DrainedInOrder
=============================================================================

------------------- MODULE ServiceExecutionCapacity_proofs -------------------
(***************************************************************************)
(* For every set of tasks and every configured maximum and duration: the   *)
(* lease rows fit the maximum, and with a prompt event loop a body whose   *)
(* heartbeats report no failure holds a live slot whenever time passes.    *)
(***************************************************************************)
EXTENDS ServiceExecutionCapacity, FiniteSetTheorems, TLAPS

\* A third is a positive number, and so is the duration of a row.
LEMMA ThirdIsPositive ==
  ASSUME NEW n \in Thirds
  PROVE  n \in Nat /\ n > 0 /\ Duration(n) \in Nat /\ Duration(n) = 3 * n
<1>1. n \in Nat /\ n > 0
  BY ThirdsAssumption
<1> QED BY <1>1 DEF Duration

\* The numbers that rows and timers are set to.
LEMMA Durations ==
  ASSUME TypeOK
  PROVE  /\ third \in Nat /\ Duration(third) \in Nat
         /\ \A row \in Rows : frozen[row] \in Nat /\ Duration(frozen[row]) \in Nat
         /\ \A t \in Tasks, r \in Resources : <<t, r>> \in Rows
         /\ \A t \in Tasks : <<t, "lease">> \in Rows /\ <<t, "ownership">> \in Rows
<1>1. third \in Thirds /\ \A row \in Rows : frozen[row] \in Thirds
  BY DEF TypeOK
<1> QED BY <1>1, ThirdIsPositive DEF Rows, Resources

\* Every action of slot() keeps the rows, timers and stages in their types.
LEMMA TypeStep == ASSUME TypeOK, [Next]_vars PROVE TypeOK'
<1>0. /\ third \in Nat /\ Duration(third) \in Nat
      /\ \A row \in Rows : frozen[row] \in Nat /\ Duration(frozen[row]) \in Nat
      /\ \A t \in Tasks, r \in Resources : <<t, r>> \in Rows
      /\ \A t \in Tasks : <<t, "lease">> \in Rows /\ <<t, "ownership">> \in Rows
  BY Durations
<1> USE <1>0 DEF TypeOK, Stages, Beats, rowVars, taskVars
<1>1. CASE Configure
  BY <1>1 DEF Configure
<1>2. ASSUME NEW t \in Tasks, TaskStep(t) PROVE TypeOK'
  <2>1. CASE AcquireOwnership(t)
    <3>1. CASE t \in Billed
      BY <2>1, <3>1 DEF AcquireOwnership, NewRow, Remember, Resources
    <3>2. CASE t \notin Billed
      BY <2>1, <3>2 DEF AcquireOwnership
    <3> QED BY <3>1, <3>2
  <2>2. CASE StartOwnership(t)
    <3>1. frozen[<<t, "ownership">>] \in Nat
      OBVIOUS
    <3> QED BY <2>2, <3>1 DEF StartOwnership
  <2>3. CASE TryAcquireDenied(t)
    BY <2>3 DEF TryAcquireDenied, Unexpired
  <2>4. CASE TryAcquireGranted(t)
    BY <2>4 DEF TryAcquireGranted, Unexpired, NewRow, Remember, Resources
  <2>5. CASE Activate(t)
    <3>1. /\ frozen[<<t, "lease">>] \in Nat
          /\ Duration(frozen[<<t, "ownership">>]) \in Nat
      OBVIOUS
    <3>2. own' \in [Tasks -> {"none", "queued", "running", "released"}]
      BY <2>5 DEF Activate
    <3>3. left' \in [Rows -> Nat]
      BY <2>5, <3>1 DEF Activate
    <3>4. beat' \in [Rows -> Beats] /\ timer' \in [Rows -> Nat]
      BY <2>5, <3>1 DEF Activate
    <3>5. pc' \in [Tasks -> Stages]
      BY <2>5 DEF Activate
    <3> QED BY <2>5, <3>2, <3>3, <3>4, <3>5 DEF Activate
  <2>6. CASE RaiseCancelled(t)
    BY <2>6 DEF RaiseCancelled
  <2>7. CASE ReleaseLease(t)
    BY <2>7 DEF ReleaseLease
  <2>8. CASE ReleaseOwnership(t)
    <3>1. own' \in [Tasks -> {"none", "queued", "running", "released"}]
      BY <2>8 DEF ReleaseOwnership
    <3>2. left' \in [Rows -> Nat]
      BY <2>8 DEF ReleaseOwnership
    <3>3. pc' \in [Tasks -> Stages] /\ dbFault' \in [Tasks -> BOOLEAN]
      BY <2>8 DEF ReleaseOwnership
    <3> QED BY <2>8, <3>1, <3>2, <3>3 DEF ReleaseOwnership
  <2> QED BY <1>2, <2>1, <2>2, <2>3, <2>4, <2>5, <2>6, <2>7, <2>8 DEF TaskStep
<1>3. ASSUME NEW t \in Tasks, Environment(t) PROVE TypeOK'
  <2>1. CASE AcquisitionFails(t)
    <3>1. /\ left' \in [Rows -> Nat]
          /\ frozen' \in [Rows -> Thirds]
          /\ timer' \in [Rows -> Nat]
      <4>1. CASE UNCHANGED <<left, frozen, timer>>
        BY <4>1
      <4>2. CASE NewRow(t, "ownership")
        BY <4>2 DEF NewRow
      <4>3. CASE NewRow(t, "lease")
        BY <4>3 DEF NewRow
      <4> QED BY <2>1, <4>1, <4>2, <4>3 DEF AcquisitionFails
    <3>2. rows' \subseteq Tasks
      BY <2>1 DEF AcquisitionFails, Unexpired
    <3>3. own' \in [Tasks -> {"none", "queued", "running", "released"}]
      BY <2>1 DEF AcquisitionFails
    <3> QED BY <2>1, <3>1, <3>2, <3>3 DEF AcquisitionFails
  <2>2. CASE Cancel(t)
    BY <2>2 DEF Cancel
  <2>3. CASE BodyEnds(t)
    BY <2>3 DEF BodyEnds
  <2>4. CASE Crash(t)
    BY <2>4 DEF Crash
  <2> QED BY <1>3, <2>1, <2>2, <2>3, <2>4 DEF Environment
<1>4. ASSUME NEW t \in Tasks, NEW r \in Resources, Heartbeat(t, r) PROVE TypeOK'
  <2>1. CASE HeartbeatDue(t, r)
    <3>1. <<t, r>> \in Rows /\ frozen[<<t, r>>] \in Nat
      OBVIOUS
    <3> QED BY <2>1, <3>1 DEF HeartbeatDue, RenewalTimeout
  <2>2. CASE RenewCommit(t, r)
    <3>1. <<t, r>> \in Rows /\ Duration(frozen[<<t, r>>]) \in Nat
      OBVIOUS
    <3> QED BY <2>2, <3>1 DEF RenewCommit
  <2>3. CASE RenewReturn(t, r)
    BY <2>3 DEF RenewReturn, LoopEnds
  <2>4. CASE RenewFails(t, r)
    BY <2>4 DEF RenewFails, LoopEnds
  <2>5. CASE HeartbeatStopped(t, r)
    BY <2>5 DEF HeartbeatStopped, LoopEnds
  <2> QED BY <1>4, <2>1, <2>2, <2>3, <2>4, <2>5 DEF Heartbeat
<1>5. CASE Tick
  BY <1>5 DEF Tick, Elapse
<1>6. CASE UNCHANGED vars
  BY <1>6 DEF vars
<1> QED BY <1>1, <1>2, <1>3, <1>4, <1>5, <1>6 DEF Next, Step

\* The type invariant holds in every reachable state.
THEOREM TypeCorrect == Spec => []TypeOK
<1>1. Init => TypeOK
  BY DEF Init, TypeOK, Resources, Stages, Beats
<1>2. TypeOK /\ [Next]_vars => TypeOK'
  BY TypeStep
<1> QED BY <1>1, <1>2, PTL DEF Spec

-----------------------------------------------------------------------------
\* The only steps that add a lease row purge and count the rows first.
LEMMA RowsStep ==
  ASSUME TypeOK, [Next]_vars
  PROVE  \/ rows' \subseteq rows
         \/ Room /\ \E t \in Tasks : rows' = Unexpired \cup {t}
<1>1. CASE Configure
  BY <1>1 DEF Configure, rowVars
<1>2. ASSUME NEW t \in Tasks, TaskStep(t)
      PROVE  rows' \subseteq rows \/ (Room /\ rows' = Unexpired \cup {t})
  <2>1. CASE AcquireOwnership(t) \/ StartOwnership(t) \/ Activate(t)
             \/ RaiseCancelled(t) \/ ReleaseOwnership(t)
    BY <2>1 DEF AcquireOwnership, StartOwnership, Activate, RaiseCancelled,
                ReleaseOwnership, rowVars
  <2>2. CASE TryAcquireDenied(t) \/ TryAcquireGranted(t) \/ ReleaseLease(t)
    BY <2>2 DEF TryAcquireDenied, TryAcquireGranted, ReleaseLease, Unexpired
  <2> QED BY <1>2, <2>1, <2>2 DEF TaskStep
<1>3. ASSUME NEW t \in Tasks, Environment(t)
      PROVE  rows' \subseteq rows \/ (Room /\ rows' = Unexpired \cup {t})
  BY <1>3 DEF Environment, AcquisitionFails, Cancel, BodyEnds, Crash, rowVars
<1>4. ASSUME NEW t \in Tasks, NEW r \in Resources, Heartbeat(t, r)
      PROVE  rows' \subseteq rows
  BY <1>4 DEF Heartbeat, HeartbeatDue, RenewCommit, RenewReturn, RenewFails,
              HeartbeatStopped, rowVars
<1>5. CASE Tick \/ UNCHANGED vars
  BY <1>5 DEF Tick, vars, rowVars
<1> QED BY <1>1, <1>2, <1>3, <1>4, <1>5 DEF Next, Step

\* The rows of a feature fit some configured maximum, for any number of tasks
\* and whatever expires, crashes or is reconfigured in between.
THEOREM RowsFit == Spec => []RowsWithinMaxima
<1>1. Init => RowsWithinMaxima
  <2> SUFFICES ASSUME Init PROVE RowsWithinMaxima
    OBVIOUS
  <2>1. Cardinality(rows) = 0
    BY FS_EmptySet DEF Init
  <2>2. maximum \in Maxima /\ maximum \in Nat
    BY MaximaAssumption DEF Init
  <2> QED BY <2>1, <2>2 DEF RowsWithinMaxima
<1>2. TypeOK /\ RowsWithinMaxima /\ [Next]_vars => RowsWithinMaxima'
  <2> SUFFICES ASSUME TypeOK, RowsWithinMaxima, [Next]_vars
               PROVE  RowsWithinMaxima'
    OBVIOUS
  <2>1. IsFiniteSet(rows) /\ Cardinality(rows) \in Nat
    BY TasksAssumption, FS_Subset, FS_CardinalityType DEF TypeOK
  <2>2. CASE rows' \subseteq rows
    <3>1. PICK m \in Maxima : Cardinality(rows) <= m
      BY DEF RowsWithinMaxima
    <3>2. Cardinality(rows') \in Nat /\ Cardinality(rows') <= Cardinality(rows)
      BY <2>1, <2>2, FS_Subset, FS_CardinalityType
    <3>3. m \in Nat
      BY MaximaAssumption
    <3>4. Cardinality(rows') <= m
      BY <2>1, <3>1, <3>2, <3>3
    <3> QED BY <3>4 DEF RowsWithinMaxima
  <2>3. ASSUME Room, NEW t \in Tasks, rows' = Unexpired \cup {t}
        PROVE  RowsWithinMaxima'
    <3>1. IsFiniteSet(Unexpired) /\ Cardinality(Unexpired) \in Nat
      BY <2>1, FS_Subset, FS_CardinalityType DEF Unexpired
    <3>2. \/ Cardinality(rows') = Cardinality(Unexpired)
          \/ Cardinality(rows') = Cardinality(Unexpired) + 1
      BY <2>3, <3>1, FS_AddElement
    <3>3. maximum \in Maxima /\ maximum \in Nat
      BY MaximaAssumption DEF TypeOK
    <3>4. Cardinality(rows') <= maximum
      BY <2>3, <3>1, <3>2, <3>3 DEF Room
    <3> QED BY <3>3, <3>4 DEF RowsWithinMaxima
  <2> QED BY <2>2, <2>3, RowsStep
<1> QED BY <1>1, <1>2, TypeCorrect, PTL DEF Spec

\* After a reduction of the maximum, too, a row is only added where it fits the
\* maximum of that moment.
THEOREM AdmissionsFit == Spec => AdmissionFitsMaximum
<1>1. TypeOK /\ [Next]_vars =>
        \A t \in Tasks : t \in rows' \ rows => Cardinality(rows') <= maximum
  <2> SUFFICES ASSUME TypeOK, [Next]_vars, NEW t \in Tasks, t \in rows' \ rows
               PROVE  Cardinality(rows') <= maximum
    OBVIOUS
  <2>1. PICK u \in Tasks : Room /\ rows' = Unexpired \cup {u}
    BY RowsStep
  <2>2. IsFiniteSet(Unexpired) /\ Cardinality(Unexpired) \in Nat
    BY TasksAssumption, FS_Subset, FS_CardinalityType DEF TypeOK, Unexpired
  <2>3. \/ Cardinality(rows') = Cardinality(Unexpired)
        \/ Cardinality(rows') = Cardinality(Unexpired) + 1
    BY <2>1, <2>2, FS_AddElement
  <2>4. maximum \in Nat
    BY MaximaAssumption DEF TypeOK
  <2> QED BY <2>1, <2>2, <2>3, <2>4 DEF Room
<1> QED BY <1>1, TypeCorrect, PTL DEF Spec, AdmissionFitsMaximum

-----------------------------------------------------------------------------
\* Where the row of a task may be: known to its task, and not past the step of
\* the cleanup that releases it, unless a transaction failed.
Accounted(t) ==
  /\ ~dbFault[t] /\ t \in rows => "lease" \in held[t] /\ pc[t] \notin {"handoff", "done"}
  /\ ~dbFault[t] /\ own[t] \in LiveStates => "ownership" \in held[t] /\ pc[t] # "done"
  /\ own[t] = "released" => pc[t] = "done"
AllAccounted == \A t \in Tasks : Accounted(t)

\* A step of another task only removes rows.
LEMMA OtherAccounted ==
  ASSUME NEW t \in Tasks, Accounted(t), t \in rows' => t \in rows,
         UNCHANGED <<pc[t], own[t], held[t], dbFault[t]>>
  PROVE  Accounted(t)'
BY DEF Accounted

\* Every step of slot() keeps its rows accounted for.
LEMMA AccountedStep ==
  ASSUME TypeOK, AllAccounted, [Next]_vars, NEW t \in Tasks
  PROVE  Accounted(t)'
<1>1. Accounted(t)
  BY DEF AllAccounted
<1>2. CASE Configure \/ Tick \/ UNCHANGED vars
  BY <1>1, <1>2, OtherAccounted DEF Configure, Tick, vars, rowVars, taskVars
<1>3. ASSUME NEW u \in Tasks, NEW r \in Resources, Heartbeat(u, r) PROVE Accounted(t)'
  BY <1>1, <1>3, OtherAccounted DEF Heartbeat, HeartbeatDue, RenewCommit, RenewReturn,
     RenewFails, HeartbeatStopped, rowVars
<1>4. ASSUME NEW u \in Tasks, TaskStep(u) PROVE Accounted(t)'
  <2>1. CASE u # t
    <3>1. CASE AcquireOwnership(u) \/ StartOwnership(u) \/ Activate(u)
      BY <1>1, <2>1, <3>1, OtherAccounted DEF AcquireOwnership, StartOwnership, Activate,
         Remember, rowVars, TypeOK
    <3>2. CASE TryAcquireDenied(u) \/ TryAcquireGranted(u)
      BY <1>1, <2>1, <3>2, OtherAccounted DEF TryAcquireDenied, TryAcquireGranted, Remember,
         Unexpired, TypeOK
    <3>3. CASE RaiseCancelled(u) \/ ReleaseLease(u) \/ ReleaseOwnership(u)
      BY <1>1, <2>1, <3>3, OtherAccounted DEF RaiseCancelled, ReleaseLease, ReleaseOwnership,
         rowVars, TypeOK
    <3> QED BY <1>4, <3>1, <3>2, <3>3 DEF TaskStep
  <2>2. CASE u = t /\ AcquireOwnership(t)
    BY <1>1, <2>2 DEF AcquireOwnership, Accounted, Remember, LiveStates, TypeOK, Resources
  <2>3. CASE u = t /\ (StartOwnership(t) \/ RaiseCancelled(t))
    BY <1>1, <2>3 DEF StartOwnership, RaiseCancelled, Accounted, rowVars, TypeOK
  <2>4. CASE u = t /\ TryAcquireDenied(t)
    <3>1. rows' \subseteq rows /\ pc'[t] \in {"joining", "polling"}
      BY <2>4 DEF TryAcquireDenied, Unexpired, TypeOK
    <3> QED BY <1>1, <2>4, <3>1 DEF TryAcquireDenied, Accounted
  <2>5. CASE u = t /\ TryAcquireGranted(t)
    <3>1. pc'[t] = "granted" /\ "lease" \in held'[t] /\ held[t] \subseteq held'[t]
      BY <2>5 DEF TryAcquireGranted, Remember, TypeOK
    <3> QED BY <1>1, <2>5, <3>1 DEF TryAcquireGranted, Accounted
  <2>6. CASE u = t /\ Activate(t)
    BY <1>1, <2>6 DEF Activate, Accounted, LiveStates, TypeOK
  <2>7. CASE u = t /\ ReleaseLease(t)
    BY <1>1, <2>7 DEF ReleaseLease, Accounted, TypeOK
  <2>8. CASE u = t /\ ReleaseOwnership(t)
    BY <1>1, <2>8 DEF ReleaseOwnership, Accounted, LiveStates, TypeOK
  <2> QED BY <1>4, <2>1, <2>2, <2>3, <2>4, <2>5, <2>6, <2>7, <2>8 DEF TaskStep
<1>5. ASSUME NEW u \in Tasks, Environment(u) PROVE Accounted(t)'
  <2>1. CASE u # t
    BY <1>1, <1>5, <2>1, OtherAccounted DEF Environment, AcquisitionFails, Cancel, BodyEnds,
       Crash, Unexpired, rowVars, TypeOK
  <2>2. CASE u = t /\ AcquisitionFails(t)
    <3>1. dbFault'[t] /\ (own'[t] = "released" => own[t] = "released" /\ pc[t] # "done")
      BY <2>2 DEF AcquisitionFails, TypeOK
    <3> QED BY <1>1, <3>1 DEF Accounted
  <2>3. CASE u = t /\ (Cancel(t) \/ BodyEnds(t) \/ Crash(t))
    BY <1>1, <2>3 DEF Cancel, BodyEnds, Crash, Accounted, Entering, rowVars, TypeOK
  <2> QED BY <1>5, <2>1, <2>2, <2>3 DEF Environment
<1> QED BY <1>2, <1>3, <1>4, <1>5 DEF Next, Step

\* In every reachable state the rows are accounted for.
THEOREM RowsAreAccounted == Spec => []AllAccounted
<1>1. Init => AllAccounted
  BY DEF Init, AllAccounted, Accounted, LiveStates
<1>2. TypeOK /\ AllAccounted /\ [Next]_vars => AllAccounted'
  BY AccountedStep DEF AllAccounted
<1> QED BY <1>1, <1>2, TypeCorrect, PTL DEF Spec

\* No cancellation, at any point of slot(), loses a row that could have been
\* released.
THEOREM NoLeak == Spec => []NothingLeaked
<1>1. AllAccounted => NothingLeaked
  BY DEF AllAccounted, Accounted, NothingLeaked
<1> QED BY <1>1, RowsAreAccounted, PTL

\* The ownership that keeps the recovery of bills away is released after the
\* lease, whichever path led to the cleanup.
THEOREM OwnershipGoesLast == Spec => []OwnedUntilSlotFree
<1>1. AllAccounted => OwnedUntilSlotFree
  BY DEF AllAccounted, Accounted, OwnedUntilSlotFree
<1> QED BY <1>1, RowsAreAccounted, PTL

\* Together: what every way out of slot() leaves behind.
THEOREM CleansUp == Spec => []CleanedUp
  BY NoLeak, OwnershipGoesLast, PTL DEF CleanedUp

\* No other task takes a slot that has not expired.
THEOREM LiveSlotsAreKept == Spec => LiveSlotIsKept
<1>1. [Next]_vars => \A t \in Tasks : LeaseLive(t) /\ t \notin rows' => pc[t] = "joining"
  <2> SUFFICES ASSUME [Next]_vars, NEW t \in Tasks, LeaseLive(t), t \notin rows'
               PROVE  pc[t] = "joining"
    OBVIOUS
  <2>1. t \in Unexpired
    BY DEF LeaseLive, Unexpired
  <2>2. ASSUME NEW u \in Tasks, TaskStep(u) PROVE pc[t] = "joining"
    BY <2>1, <2>2 DEF TaskStep, AcquireOwnership, StartOwnership, TryAcquireDenied,
       TryAcquireGranted, Activate, RaiseCancelled, ReleaseLease, ReleaseOwnership,
       rowVars, LeaseLive
  <2>3. ~\E u \in Tasks : Environment(u)
    BY <2>1 DEF Environment, AcquisitionFails, Cancel, BodyEnds, Crash, rowVars, LeaseLive
  <2>4. ~\E u \in Tasks, r \in Resources : Heartbeat(u, r)
    BY DEF Heartbeat, HeartbeatDue, RenewCommit, RenewReturn, RenewFails,
       HeartbeatStopped, rowVars, LeaseLive
  <2>5. ~(Configure \/ Tick \/ UNCHANGED vars)
    BY DEF Configure, Tick, vars, rowVars, LeaseLive
  <2> QED BY <2>2, <2>3, <2>4, <2>5 DEF Next, Step
<1> QED BY <1>1, PTL DEF Spec, LiveSlotIsKept

-----------------------------------------------------------------------------
\* What a heartbeat guarantees of its row in each phase: the life left covers
\* the longest wait until the loop sees the next answer, so the row outlives
\* every timer that is still allowed to run.
Margin(t) ==
  LET row == <<t, "lease">> IN
  /\ pc[t] \in {"entering", "owned", "polling", "granted"} => beat[row] = "off"
  /\ pc[t] = "granted" => t \in rows /\ left[row] >= timer[row] + 2 * frozen[row]
  /\ Working(t) =>
       /\ beat[row] # "off"
       /\ beat[row] = "sleep" => t \in rows /\ left[row] >= timer[row] + frozen[row]
       /\ beat[row] = "renewing" =>
            /\ timer[row] <= frozen[row]
            /\ left[row] >= timer[row]
            /\ timer[row] > 0 => t \in rows
       /\ beat[row] = "renewed" => t \in rows /\ left[row] >= timer[row] + 2 * frozen[row]
       /\ beat[row] = "lost" => timer[row] = 0
Margins == \A t \in Tasks : Margin(t)

\* A row with life left survives the purge.
LEMMA Survives ==
  ASSUME NEW t \in rows, left[<<t, "lease">>] > 0
  PROVE  t \in Unexpired
BY DEF Unexpired

\* The margins are what makes a prompt heartbeat sufficient.
LEMMA MarginsSuffice == TypeOK /\ Margins => WorkingHoldsSlot
<1> SUFFICES ASSUME TypeOK, Margins, Prompt, NEW t \in Tasks, Working(t)
             PROVE  LeaseLive(t)
  BY DEF WorkingHoldsSlot
<1> DEFINE row == <<t, "lease">>
<1>1. row \in Rows
  BY DEF Rows, Resources
<1>2. /\ timer[row] \in Nat /\ left[row] \in Nat /\ beat[row] \in Beats
      /\ frozen[row] \in Nat /\ frozen[row] > 0
  BY <1>1, ThirdIsPositive DEF TypeOK
<1>3. beat[row] # "off" /\ timer[row] > 0
  BY DEF Prompt, Margins, Margin, Resources
<1>4. beat[row] \in {"sleep", "renewing", "renewed", "lost"}
  BY <1>2, <1>3 DEF Beats
<1>5. t \in rows /\ left[row] > 0
  BY <1>2, <1>3, <1>4 DEF Margins, Margin
<1> QED BY <1>5 DEF LeaseLive

\* A step of another task leaves a task's margin alone but for the purge,
\* which spares every row with life left.
LEMMA OtherMargin ==
  ASSUME TypeOK, NEW t \in Tasks, Margin(t),
         UNCHANGED <<pc[t], failure[t], beat[<<t, "lease">>], timer[<<t, "lease">>],
                     frozen[<<t, "lease">>], left[<<t, "lease">>]>>,
         t \in Unexpired => t \in rows'
  PROVE  Margin(t)'
<1> DEFINE row == <<t, "lease">>
<1>1. row \in Rows
  BY DEF Rows, Resources
<1>2. /\ timer[row] \in Nat /\ left[row] \in Nat
      /\ frozen[row] \in Nat /\ frozen[row] > 0
  BY <1>1, ThirdIsPositive DEF TypeOK
<1>3. t \in rows /\ left[row] > 0 => t \in rows'
  BY Survives
<1> QED BY <1>2, <1>3 DEF Margin, Working

\* Every step of a prompt execution keeps every margin.
LEMMA MarginStep ==
  ASSUME TypeOK, Margins, [PromptNext]_vars, NEW t \in Tasks
  PROVE  Margin(t)'
<1> DEFINE row == <<t, "lease">>
<1>1. row \in Rows /\ \A u \in Tasks, r \in Resources : <<u, r>> \in Rows
  BY DEF Rows, Resources
<1>2. /\ timer[row] \in Nat /\ left[row] \in Nat
      /\ frozen[row] \in Nat /\ frozen[row] > 0
      /\ Duration(frozen[row]) = 3 * frozen[row]
      /\ third \in Nat /\ third > 0 /\ Duration(third) = 3 * third
  BY <1>1, ThirdIsPositive DEF TypeOK
<1>3. Margin(t)
  BY DEF Margins
<1>4. \A u \in Tasks, r \in Resources : u # t \/ r # "lease" => <<u, r>> # row
  OBVIOUS
<1>5. "lease" \in Resources /\ "ownership" \in Resources /\ "lease" # "ownership"
  BY DEF Resources
<1>6. CASE Configure
  BY <1>3, <1>6, OtherMargin DEF Configure, rowVars, taskVars, Unexpired
<1>7. ASSUME NEW u \in Tasks, TaskStep(u) PROVE Margin(t)'
  <2>1. CASE u # t
    <3>1. UNCHANGED <<pc[t], failure[t], beat[row], timer[row], frozen[row], left[row]>>
      <4>1. CASE AcquireOwnership(u) \/ StartOwnership(u) \/ Activate(u)
        BY <1>1, <1>4, <1>5, <2>1, <4>1 DEF AcquireOwnership, StartOwnership,
           Activate, NewRow, rowVars, TypeOK
      <4>2. CASE TryAcquireDenied(u) \/ TryAcquireGranted(u)
        BY <1>1, <1>4, <1>5, <2>1, <4>2 DEF TryAcquireDenied, TryAcquireGranted,
           NewRow, TypeOK
      <4>3. CASE RaiseCancelled(u) \/ ReleaseLease(u) \/ ReleaseOwnership(u)
        BY <1>1, <1>4, <1>5, <2>1, <4>3 DEF RaiseCancelled, ReleaseLease,
           ReleaseOwnership, rowVars, TypeOK
      <4> QED BY <1>7, <4>1, <4>2, <4>3 DEF TaskStep
    <3>2. t \in Unexpired => t \in rows'
      BY <1>7, <2>1 DEF TaskStep, AcquireOwnership, StartOwnership, TryAcquireDenied,
         TryAcquireGranted, Activate, RaiseCancelled, ReleaseLease, ReleaseOwnership,
         rowVars, Unexpired
    <3> QED BY <1>3, <3>1, <3>2, OtherMargin
  <2>2. CASE u = t /\ (AcquireOwnership(t) \/ StartOwnership(t))
    BY <1>1, <1>3, <1>4, <1>5, <2>2 DEF AcquireOwnership, StartOwnership, Margin,
       Working, TypeOK
  <2>3. CASE u = t /\ TryAcquireDenied(t)
    BY <1>3, <2>3 DEF TryAcquireDenied, Margin, Working, TypeOK
  <2>4. CASE u = t /\ TryAcquireGranted(t)
    <3>1. /\ t \in rows' /\ left'[row] = 3 * third /\ timer'[row] = third
          /\ frozen'[row] = third
      BY <1>1, <1>2, <2>4 DEF TryAcquireGranted, NewRow, TypeOK
    <3>2. pc'[t] = "granted" /\ beat'[row] = "off"
      BY <1>3, <2>4 DEF TryAcquireGranted, Margin, TypeOK
    <3> QED BY <1>2, <3>1, <3>2 DEF Margin, Working
  <2>5. CASE u = t /\ Activate(t)
    <3>1. CASE pc'[t] = "running"
      <4>1. beat'[row] = "sleep" /\ timer'[row] = frozen[row]
        BY <1>1, <2>5, <3>1 DEF Activate, TypeOK
      <4>2. t \in rows' /\ frozen'[row] = frozen[row] /\ left'[row] = left[row]
        BY <1>1, <1>3, <1>4, <1>5, <2>5 DEF Activate, Margin, TypeOK
      <4>3. left[row] >= timer[row] + 2 * frozen[row]
        BY <1>3, <2>5 DEF Activate, Margin
      <4> QED BY <1>2, <3>1, <4>1, <4>2, <4>3 DEF Margin, Working
    <3>2. CASE pc'[t] = "joining"
      BY <3>2 DEF Margin, Working
    <3> QED BY <2>5, <3>1, <3>2 DEF Activate, TypeOK
  <2>6. CASE u = t /\ (RaiseCancelled(t) \/ ReleaseLease(t) \/ ReleaseOwnership(t))
    BY <2>6 DEF RaiseCancelled, ReleaseLease, ReleaseOwnership, Margin, Working, TypeOK
  <2> QED BY <1>7, <2>1, <2>2, <2>3, <2>4, <2>5, <2>6 DEF TaskStep
<1>8. ASSUME NEW u \in Tasks, Environment(u) PROVE Margin(t)'
  <2>1. CASE u # t
    <3>1. UNCHANGED <<pc[t], failure[t], beat[row], timer[row], frozen[row], left[row]>>
      <4>1. CASE AcquisitionFails(u)
        BY <1>1, <1>4, <1>5, <2>1, <4>1 DEF AcquisitionFails, NewRow, TypeOK
      <4>2. CASE Cancel(u) \/ BodyEnds(u) \/ Crash(u)
        BY <1>1, <2>1, <4>2 DEF Cancel, BodyEnds, Crash, rowVars, TypeOK
      <4> QED BY <1>8, <4>1, <4>2 DEF Environment
    <3>2. t \in Unexpired => t \in rows'
      BY <1>8 DEF Environment, AcquisitionFails, Cancel, BodyEnds, Crash, rowVars, Unexpired
    <3> QED BY <1>3, <3>1, <3>2, OtherMargin
  <2>2. CASE u = t /\ Cancel(t)
    BY <1>3, <2>2 DEF Cancel, Margin, Working, rowVars
  <2>3. CASE u = t /\ (AcquisitionFails(t) \/ BodyEnds(t) \/ Crash(t))
    BY <2>3 DEF AcquisitionFails, BodyEnds, Crash, Margin, Working, TypeOK
  <2> QED BY <1>8, <2>1, <2>2, <2>3 DEF Environment
<1>9. ASSUME NEW u \in Tasks, NEW r \in Resources, Heartbeat(u, r) PROVE Margin(t)'
  <2>1. CASE u # t \/ r # "lease"
    <3>1. UNCHANGED <<pc[t], beat[row], timer[row], frozen[row], left[row], rows>>
      BY <1>1, <1>4, <1>9, <2>1 DEF Heartbeat, HeartbeatDue, RenewCommit, RenewReturn,
         RenewFails, HeartbeatStopped, LoopEnds, rowVars, TypeOK
    <3>2. failure'[t] \/ failure'[t] = failure[t]
      BY <1>9 DEF Heartbeat, HeartbeatDue, RenewCommit, RenewReturn, RenewFails,
         HeartbeatStopped, TypeOK
    <3>3. CASE failure'[t]
      BY <1>3, <3>1, <3>3 DEF Margin, Working
    <3>4. CASE failure'[t] = failure[t]
      BY <1>3, <3>1, <3>4 DEF Margin, Working
    <3> QED BY <3>2, <3>3, <3>4
  <2>2. CASE u = t /\ r = "lease"
    <3>1. CASE HeartbeatDue(t, "lease")
      BY <1>1, <1>2, <1>3, <3>1 DEF HeartbeatDue, RenewalTimeout, Margin, Working,
         Entering, rowVars, TypeOK
    <3>2. CASE RenewCommit(t, "lease")
      <4>1. CASE LeaseLive(t)
        <5>1. /\ left'[row] = 3 * frozen[row] /\ beat'[row] = "renewed"
              /\ t \in rows'
          BY <1>1, <1>2, <3>2, <4>1 DEF RenewCommit, Live, LeaseLive, TypeOK
        <5> QED BY <1>2, <1>3, <3>2, <5>1 DEF RenewCommit, Margin, Working
      <4>2. CASE ~LeaseLive(t)
        <5>1. beat'[row] = "lost" /\ UNCHANGED <<left, rows>>
          BY <1>1, <3>2, <4>2 DEF RenewCommit, Live, TypeOK
        <5>2. Working(t) => timer[row] = 0
          BY <1>2, <1>3, <3>2, <4>2 DEF RenewCommit, Margin, LeaseLive
        <5> QED BY <1>2, <1>3, <3>2, <5>1, <5>2 DEF RenewCommit, Margin, Working
      <4> QED BY <4>1, <4>2
    <3>3. CASE RenewReturn(t, "lease")
      <4>1. CASE pc[t] \in Entering
        <5>1. beat'[row] = "sleep" /\ timer'[row] = frozen[row]
          BY <1>1, <3>3, <4>1 DEF RenewReturn, TypeOK
        <5> QED BY <1>2, <1>3, <3>3, <5>1 DEF RenewReturn, Margin, Working, rowVars
      <4>2. CASE pc[t] \notin Entering
        BY <3>3, <4>2 DEF RenewReturn, Margin, Working, Entering
      <4> QED BY <4>1, <4>2
    <3>4. CASE RenewFails(t, "lease")
      BY <1>1, <1>3, <3>4 DEF RenewFails, LoopEnds, Margin, Working, TypeOK
    <3>5. CASE HeartbeatStopped(t, "lease")
      BY <3>5 DEF HeartbeatStopped, Stopping, Margin, Working, Entering
    <3> QED BY <1>9, <2>2, <3>1, <3>2, <3>3, <3>4, <3>5 DEF Heartbeat
  <2> QED BY <2>1, <2>2
<1>10. CASE Prompt /\ Tick
  <2>1. /\ left'[row] = IF left[row] > 0 THEN left[row] - 1 ELSE 0
        /\ timer'[row] = IF timer[row] > 0 THEN timer[row] - 1 ELSE 0
        /\ UNCHANGED <<rows, pc, beat, failure, frozen>>
    BY <1>1, <1>10 DEF Tick, Elapse
  <2>2. /\ beat[row] # "off" => timer[row] > 0
        /\ pc[t] = "granted" => timer[row] > 0
    BY <1>5, <1>10 DEF Prompt
  <2> QED BY <1>2, <1>3, <2>1, <2>2 DEF Margin, Working
<1>11. CASE UNCHANGED vars
  BY <1>3, <1>11 DEF vars, rowVars, taskVars, Margin, Working
<1> QED BY <1>6, <1>7, <1>8, <1>9, <1>10, <1>11 DEF PromptNext, Step

\* With a prompt event loop, for any number of tasks and any lease duration,
\* no time passes while a body with no reported failure has lost its slot.
THEOREM PromptHoldsSlot == PromptSpec => []WorkingHoldsSlot
<1>1. Init => TypeOK /\ Margins
  BY DEF Init, TypeOK, Resources, Stages, Beats, Margins, Margin, Working, Rows
<1>2. TypeOK /\ Margins /\ [PromptNext]_vars => TypeOK' /\ Margins'
  <2> SUFFICES ASSUME TypeOK, Margins, [PromptNext]_vars PROVE TypeOK' /\ Margins'
    OBVIOUS
  <2>1. [Next]_vars
    BY DEF PromptNext, Next
  <2>2. TypeOK'
    BY <2>1, TypeStep
  <2>3. Margins'
    BY MarginStep DEF Margins
  <2> QED BY <2>2, <2>3
<1> QED BY <1>1, <1>2, MarginsSuffice, PTL DEF PromptSpec

\* Hence the bodies at work never exceed a configured maximum.
THEOREM PromptWorkingFits == PromptSpec => []WorkingWithinMaxima
<1>1. [PromptNext]_vars => [Next]_vars
  BY DEF PromptNext, Next
<1>2. PromptSpec => Spec
  BY <1>1, PTL DEF PromptSpec, Spec
<1>3. TypeOK /\ RowsWithinMaxima /\ WorkingHoldsSlot => WorkingWithinMaxima
  <2> SUFFICES ASSUME TypeOK, RowsWithinMaxima, WorkingHoldsSlot, Prompt
               PROVE  WorkingWithinMaxima
    BY DEF WorkingWithinMaxima
  <2> DEFINE working == {t \in Tasks : Working(t)}
  <2>1. working \subseteq rows
    BY DEF WorkingHoldsSlot, LeaseLive
  <2>2. IsFiniteSet(rows) /\ Cardinality(rows) \in Nat
    BY TasksAssumption, FS_Subset, FS_CardinalityType DEF TypeOK
  <2>3. Cardinality(working) \in Nat /\ Cardinality(working) <= Cardinality(rows)
    BY <2>1, <2>2, FS_Subset, FS_CardinalityType
  <2>4. PICK m \in Maxima : Cardinality(rows) <= m
    BY DEF RowsWithinMaxima
  <2>5. m \in Nat
    BY MaximaAssumption
  <2>6. Cardinality(working) <= m
    BY <2>2, <2>3, <2>4, <2>5
  <2> QED BY <2>6 DEF WorkingWithinMaxima
<1> QED BY <1>2, <1>3, TypeCorrect, RowsFit, PromptHoldsSlot, PTL

-----------------------------------------------------------------------------
\* The same for the ownership, from the moment its task learns of it: it is
\* renewed while the task still polls, and once more when the lease is there.
OwnMargin(t) ==
  LET row == <<t, "ownership">> IN
  /\ "ownership" \in held[t] => t \in Billed
  /\ pc[t] \in {"entering", "owned"} => beat[row] = "off"
  /\ "ownership" \in held[t] /\ pc[t] = "owned" =>
       own[t] \in LiveStates /\ left[row] >= timer[row] + 2 * frozen[row]
  /\ "ownership" \in held[t] /\ pc[t] \in {"polling", "granted", "running"} /\ ~failure[t] =>
       /\ own[t] \in LiveStates /\ beat[row] # "off" /\ timer[row] <= frozen[row]
       /\ beat[row] = "sleep" => left[row] >= timer[row] + frozen[row]
       /\ beat[row] = "renewing" => left[row] >= timer[row]
       /\ beat[row] = "renewed" => left[row] >= timer[row] + 2 * frozen[row]
       /\ beat[row] = "lost" => timer[row] = 0
OwnMargins == \A t \in Tasks : OwnMargin(t)

\* A step that leaves the ownership and the place of t alone keeps its margin.
LEMMA OtherOwnMargin ==
  ASSUME NEW t \in Tasks, OwnMargin(t),
         UNCHANGED <<pc[t], held[t], own[t], failure[t], beat[<<t, "ownership">>],
                     timer[<<t, "ownership">>], frozen[<<t, "ownership">>],
                     left[<<t, "ownership">>]>>
  PROVE  OwnMargin(t)'
BY DEF OwnMargin

\* Past the body there is no margin to keep.
LEMMA PastOwnMargin ==
  ASSUME NEW t \in Tasks, OwnMargin(t), held'[t] = held[t],
         pc'[t] \in {"joining", "handoff", "done", "crashed"}
  PROVE  OwnMargin(t)'
BY DEF OwnMargin

\* Every step of a prompt execution keeps the margin of every ownership.
LEMMA OwnMarginStep ==
  ASSUME TypeOK, OwnMargins, [PromptNext]_vars, NEW t \in Tasks
  PROVE  OwnMargin(t)'
<1> DEFINE row == <<t, "ownership">>
<1>1. row \in Rows /\ \A u \in Tasks, r \in Resources : <<u, r>> \in Rows
  BY DEF Rows, Resources
<1>2. /\ timer[row] \in Nat /\ left[row] \in Nat
      /\ frozen[row] \in Nat /\ frozen[row] > 0
      /\ Duration(frozen[row]) = 3 * frozen[row]
      /\ third \in Nat /\ third > 0 /\ Duration(third) = 3 * third
  BY <1>1, ThirdIsPositive DEF TypeOK
<1>3. OwnMargin(t)
  BY DEF OwnMargins
<1>4. \A u \in Tasks, r \in Resources : u # t \/ r # "ownership" => <<u, r>> # row
  OBVIOUS
<1>5. "lease" \in Resources /\ "ownership" \in Resources /\ "lease" # "ownership"
  BY DEF Resources
<1>6. CASE Configure \/ UNCHANGED vars
  BY <1>3, <1>6, OtherOwnMargin DEF Configure, vars, rowVars, taskVars
<1>7. ASSUME NEW u \in Tasks, u # t, TaskStep(u) \/ Environment(u) PROVE OwnMargin(t)'
  <2>1. CASE AcquireOwnership(u)
    BY <1>1, <1>3, <1>4, <1>5, <1>7, <2>1, OtherOwnMargin
       DEF AcquireOwnership, NewRow, Remember, TypeOK
  <2>2. CASE StartOwnership(u) \/ Activate(u)
    BY <1>1, <1>3, <1>4, <1>5, <1>7, <2>2, OtherOwnMargin
       DEF StartOwnership, Activate, rowVars, TypeOK
  <2>3. CASE TryAcquireDenied(u) \/ TryAcquireGranted(u)
    BY <1>1, <1>3, <1>4, <1>5, <1>7, <2>3, OtherOwnMargin
       DEF TryAcquireDenied, TryAcquireGranted, NewRow, Remember, TypeOK
  <2>4. CASE RaiseCancelled(u) \/ ReleaseLease(u) \/ ReleaseOwnership(u)
    BY <1>1, <1>3, <1>4, <1>5, <1>7, <2>4, OtherOwnMargin
       DEF RaiseCancelled, ReleaseLease, ReleaseOwnership, rowVars, TypeOK
  <2>5. CASE AcquisitionFails(u)
    BY <1>1, <1>3, <1>4, <1>5, <1>7, <2>5, OtherOwnMargin DEF AcquisitionFails, NewRow, TypeOK
  <2>6. CASE Cancel(u) \/ BodyEnds(u) \/ Crash(u)
    BY <1>1, <1>3, <1>7, <2>6, OtherOwnMargin DEF Cancel, BodyEnds, Crash, rowVars, TypeOK
  <2> QED BY <1>7, <2>1, <2>2, <2>3, <2>4, <2>5, <2>6 DEF TaskStep, Environment
<1>8. CASE TaskStep(t)
  <2>1. CASE AcquireOwnership(t)
    <3>1. CASE t \in Billed
      <4>1. /\ left'[row] = 3 * third /\ timer'[row] = third /\ frozen'[row] = third
            /\ own'[t] = "queued"
        BY <1>1, <1>2, <2>1, <3>1 DEF AcquireOwnership, NewRow, TypeOK
      <4>2. pc'[t] = "owned" /\ beat'[row] = "off"
        BY <1>3, <2>1 DEF AcquireOwnership, OwnMargin, TypeOK
      <4> QED BY <1>2, <3>1, <4>1, <4>2 DEF OwnMargin, LiveStates
    <3>2. CASE t \notin Billed
      <4>1. pc'[t] = "owned" /\ beat'[row] = "off" /\ held' = held
        BY <1>3, <2>1, <3>2 DEF AcquireOwnership, OwnMargin, TypeOK
      <4> QED BY <1>3, <3>2, <4>1 DEF OwnMargin
    <3> QED BY <3>1, <3>2
  <2>2. CASE StartOwnership(t)
    <3>1. CASE cancelled[t]
      BY <1>3, <2>2, <3>1, PastOwnMargin DEF StartOwnership, TypeOK
    <3>2. CASE ~cancelled[t] /\ "ownership" \in held[t]
      <4>1. /\ beat'[row] = "sleep" /\ timer'[row] = frozen[row] /\ pc'[t] = "polling"
            /\ UNCHANGED <<held, own, left, frozen>>
        BY <1>1, <2>2, <3>2 DEF StartOwnership, rowVars, TypeOK
      <4>2. /\ t \in Billed /\ own[t] \in LiveStates
            /\ left[row] >= timer[row] + 2 * frozen[row]
        BY <1>3, <2>2, <3>2 DEF StartOwnership, OwnMargin
      <4> QED BY <1>2, <4>1, <4>2 DEF OwnMargin
    <3>3. CASE ~cancelled[t] /\ "ownership" \notin held[t]
      BY <1>3, <2>2, <3>3 DEF StartOwnership, OwnMargin, TypeOK
    <3> QED BY <3>1, <3>2, <3>3
  <2>3. CASE TryAcquireDenied(t)
    BY <1>3, <2>3 DEF TryAcquireDenied, OwnMargin, TypeOK
  <2>4. CASE TryAcquireGranted(t)
    <3>1. /\ pc[t] = "polling" /\ pc'[t] = "granted"
          /\ "ownership" \in held'[t] => "ownership" \in held[t]
          /\ UNCHANGED <<own, beat, failure>>
          /\ UNCHANGED <<left[row], timer[row], frozen[row]>>
      BY <1>1, <1>4, <1>5, <2>4 DEF TryAcquireGranted, NewRow, Remember, TypeOK
    <3> QED BY <1>3, <3>1 DEF OwnMargin
  <2>5. CASE Activate(t)
    <3>1. CASE pc'[t] = "running"
      <4>1. UNCHANGED <<held, failure, frozen, beat[row], timer[row]>>
        BY <1>1, <1>4, <1>5, <2>5 DEF Activate, TypeOK
      <4>2. CASE "ownership" \notin held[t]
        BY <1>3, <3>1, <4>1, <4>2 DEF OwnMargin
      <4>3. CASE "ownership" \in held[t]
        <5>1. own'[t] = "running" /\ left'[row] = 3 * frozen[row]
          BY <1>1, <1>2, <2>5, <3>1, <4>3 DEF Activate, TypeOK
        <5>2. pc[t] = "granted"
          BY <2>5 DEF Activate
        <5> QED BY <1>2, <1>3, <3>1, <4>1, <5>1, <5>2 DEF OwnMargin, LiveStates
      <4> QED BY <4>2, <4>3
    <3>2. CASE pc'[t] = "joining"
      BY <1>3, <2>5, <3>2, PastOwnMargin DEF Activate
    <3> QED BY <2>5, <3>1, <3>2 DEF Activate, TypeOK
  <2>6. CASE RaiseCancelled(t) \/ ReleaseLease(t) \/ ReleaseOwnership(t)
    BY <1>3, <2>6, PastOwnMargin DEF RaiseCancelled, ReleaseLease, ReleaseOwnership, TypeOK
  <2> QED BY <1>8, <2>1, <2>2, <2>3, <2>4, <2>5, <2>6 DEF TaskStep
<1>9. CASE Environment(t)
  <2>1. CASE Cancel(t)
    BY <1>3, <2>1, OtherOwnMargin DEF Cancel, rowVars
  <2>2. CASE AcquisitionFails(t) \/ BodyEnds(t) \/ Crash(t)
    BY <1>3, <2>2, PastOwnMargin DEF AcquisitionFails, BodyEnds, Crash, TypeOK
  <2> QED BY <1>9, <2>1, <2>2 DEF Environment
<1>10. ASSUME NEW u \in Tasks, NEW r \in Resources, u # t \/ r # "ownership", Heartbeat(u, r)
       PROVE  OwnMargin(t)'
  <2>1. UNCHANGED <<pc[t], held[t], own[t], beat[row], timer[row], frozen[row], left[row]>>
    BY <1>1, <1>4, <1>10 DEF Heartbeat, HeartbeatDue, RenewCommit, RenewReturn,
       RenewFails, HeartbeatStopped, LoopEnds, rowVars, TypeOK
  <2>2. failure'[t] \/ failure'[t] = failure[t]
    BY <1>10 DEF Heartbeat, HeartbeatDue, RenewCommit, RenewReturn, RenewFails,
       HeartbeatStopped, TypeOK
  <2> QED BY <1>3, <2>1, <2>2 DEF OwnMargin
<1>11. CASE Heartbeat(t, "ownership")
  <2>1. UNCHANGED <<pc, held, own, frozen>>
    BY <1>11 DEF Heartbeat, HeartbeatDue, RenewCommit, RenewReturn, RenewFails,
       HeartbeatStopped, rowVars
  <2>2. CASE HeartbeatDue(t, "ownership")
    <3>1. /\ beat[row] = "sleep" /\ timer[row] = 0 /\ beat'[row] = "renewing"
          /\ timer'[row] = frozen[row] /\ UNCHANGED <<left, failure>>
      BY <1>1, <2>2 DEF HeartbeatDue, RenewalTimeout, rowVars, TypeOK
    <3> QED BY <1>2, <1>3, <2>1, <3>1 DEF OwnMargin
  <2>3. CASE RenewCommit(t, "ownership")
    <3>1. CASE OwnershipLive(t)
      <4>1. /\ left'[row] = 3 * frozen[row] /\ beat'[row] = "renewed"
            /\ beat[row] = "renewing" /\ UNCHANGED <<timer, failure>>
        BY <1>1, <1>2, <2>3, <3>1 DEF RenewCommit, Live, TypeOK
      <4> QED BY <1>2, <1>3, <2>1, <4>1 DEF OwnMargin
    <3>2. CASE ~OwnershipLive(t)
      <4>1. /\ beat'[row] = "lost" /\ beat[row] = "renewing"
            /\ UNCHANGED <<left, timer, failure>>
        BY <1>1, <2>3, <3>2 DEF RenewCommit, Live, TypeOK
      <4> QED BY <1>2, <1>3, <2>1, <3>2, <4>1 DEF OwnMargin, OwnershipLive
    <3> QED BY <3>1, <3>2
  <2>4. CASE RenewReturn(t, "ownership")
    <3>1. CASE pc[t] \in Entering
      <4>1. /\ beat[row] = "renewed" /\ beat'[row] = "sleep" /\ timer'[row] = frozen[row]
            /\ UNCHANGED <<left, failure>>
        BY <1>1, <2>4, <3>1 DEF RenewReturn, rowVars, TypeOK
      <4> QED BY <1>2, <1>3, <2>1, <4>1 DEF OwnMargin
    <3>2. CASE pc[t] \notin Entering
      BY <1>3, <2>1, <3>2 DEF OwnMargin, Entering
    <3> QED BY <3>1, <3>2
  <2>5. CASE RenewFails(t, "ownership")
    <3>1. failure'[t] /\ beat'[row] = "off" /\ beat[row] # "off"
      BY <1>1, <2>5 DEF RenewFails, LoopEnds, TypeOK
    <3> QED BY <1>3, <2>1, <3>1 DEF OwnMargin
  <2>6. CASE HeartbeatStopped(t, "ownership")
    BY <1>3, <2>1, <2>6 DEF HeartbeatStopped, Stopping, OwnMargin, Entering
  <2> QED BY <1>11, <2>2, <2>3, <2>4, <2>5, <2>6 DEF Heartbeat
<1>12. CASE Prompt /\ Tick
  <2>1. /\ left'[row] = IF left[row] > 0 THEN left[row] - 1 ELSE 0
        /\ timer'[row] = IF timer[row] > 0 THEN timer[row] - 1 ELSE 0
        /\ UNCHANGED <<own, held, pc, beat, failure, frozen>>
    BY <1>1, <1>12 DEF Tick, Elapse
  <2>2. /\ beat[row] # "off" => timer[row] > 0
        /\ pc[t] = "owned" /\ t \in Billed => timer[row] > 0
    BY <1>5, <1>12 DEF Prompt
  <2> QED BY <1>2, <1>3, <2>1, <2>2 DEF OwnMargin
<1>13. ASSUME Step PROVE OwnMargin(t)'
  <2>1. ASSUME NEW u \in Tasks, TaskStep(u) \/ Environment(u) PROVE OwnMargin(t)'
    BY <1>7, <1>8, <1>9, <2>1
  <2>2. ASSUME NEW u \in Tasks, NEW r \in Resources, Heartbeat(u, r) PROVE OwnMargin(t)'
    BY <1>10, <1>11, <2>2
  <2> QED BY <1>6, <1>13, <2>1, <2>2 DEF Step
<1> QED BY <1>6, <1>12, <1>13 DEF PromptNext

\* With a prompt event loop a billed body with no reported failure keeps its
\* ownership, so that the recovery of bills leaves its operation alone.
THEOREM PromptIsOwned == PromptSpec => []WorkingIsOwned
<1>1. Init => TypeOK /\ OwnMargins
  BY DEF Init, TypeOK, Resources, Stages, Beats, OwnMargins, OwnMargin, Rows
<1>2. TypeOK /\ OwnMargins /\ [PromptNext]_vars => TypeOK' /\ OwnMargins'
  <2> SUFFICES ASSUME TypeOK, OwnMargins, [PromptNext]_vars PROVE TypeOK' /\ OwnMargins'
    OBVIOUS
  <2>1. TypeOK'
    BY TypeStep DEF PromptNext, Next
  <2>2. OwnMargins'
    BY OwnMarginStep DEF OwnMargins
  <2> QED BY <2>1, <2>2
<1>3. TypeOK /\ OwnMargins => WorkingIsOwned
  <2> SUFFICES ASSUME TypeOK, OwnMargins, Prompt, NEW t \in Tasks, Working(t),
                      "ownership" \in held[t]
               PROVE  OwnershipLive(t)
    BY DEF WorkingIsOwned
  <2> DEFINE row == <<t, "ownership">>
  <2>1. row \in Rows /\ "ownership" \in Resources
    BY DEF Rows, Resources
  <2>2. /\ timer[row] \in Nat /\ left[row] \in Nat /\ beat[row] \in Beats
        /\ frozen[row] \in Nat /\ frozen[row] > 0
    BY <2>1, ThirdIsPositive DEF TypeOK
  <2>3. OwnMargin(t) /\ pc[t] = "running" /\ ~failure[t]
    BY DEF OwnMargins, Working
  <2>4. beat[row] # "off" /\ timer[row] > 0
    BY <2>1, <2>3 DEF OwnMargin, Prompt
  <2>5. own[t] \in LiveStates /\ left[row] > 0
    BY <2>2, <2>3, <2>4 DEF OwnMargin, Beats
  <2> QED BY <2>5 DEF OwnershipLive
<1> QED BY <1>1, <1>2, <1>3, PTL DEF PromptSpec
=============================================================================

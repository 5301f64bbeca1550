---------------------- MODULE ServiceExecutionCapacity ----------------------
(***************************************************************************)
(* Database-backed execution slots: backend/services/                      *)
(* service_execution_capacity.py.                                          *)
(*                                                                         *)
(* A task is one call of slot() in one worker process.  It first persists  *)
(* an ownership row (a queued execution counts as alive), then polls until *)
(* a lease row fits under the feature's maximum, marks its ownership       *)
(* running and runs its body.  One heartbeat loop per row renews it every  *)
(* third of the row's frozen duration and gives a renewal another third to *)
(* answer.  Every database transaction writes the feature gate row first,  *)
(* so a transaction is one atomic step; its client may still be cancelled, *)
(* crash, or lose the answer.                                              *)
(*                                                                         *)
(* Time is the remaining life of every row and timer: expires_at > now is  *)
(* left > 0.  Features do not interact and the module has one of them.     *)
(* Every slot() call draws a fresh uuid4 token, so a token is its task.    *)
(***************************************************************************)
EXTENDS Integers, FiniteSets

CONSTANTS
  Tasks,    \* calls of slot()
  Billed,   \* the tasks with a billing context: only they own an operation
  Maxima,   \* values an administrator gives the feature's maximum
  Thirds    \* values of service_execution_lease_seconds, divided by three

ASSUME TasksAssumption == IsFiniteSet(Tasks) /\ Billed \subseteq Tasks
ASSUME MaximaAssumption == Maxima \subseteq Nat \ {0} /\ Maxima # {}
ASSUME ThirdsAssumption == Thirds \subseteq Nat \ {0} /\ Thirds # {}

VARIABLES
  maximum,    \* app_config: the feature's current maximum
  third,      \* app_config: a third of the current lease duration
  rows,       \* the tasks with a row in service_execution_leases
  own,        \* state of the task's row in service_execution_ownerships
  left,       \* left[<<t, r>>]: time until the row r of t expires
  frozen,     \* frozen[<<t, r>>]: a third of the duration t acquired r with
  pc,         \* where the task is in slot()
  held,       \* held[t]: the rows whose token the task knows
  beat,       \* beat[<<t, r>>]: the heartbeat loop of r
  timer,      \* timer[<<t, r>>]: time until what the loop waits for is due
  failure,    \* hold_state.failure is set
  cancelled,  \* a cancellation of the task is pending
  dbFault     \* a transaction of the task had no known successful outcome

rowVars == <<rows, own, left>>
taskVars == <<pc, held, beat, timer, failure, cancelled, dbFault, frozen>>
vars == <<maximum, third, rowVars, taskVars>>

Resources == {"ownership", "lease"}
Rows == Tasks \X Resources
Duration(n) == 3 * n

Stages == {"entering", "owned", "polling", "granted", "running",
           "joining", "handoff", "done", "crashed"}
Entering == {"entering", "owned", "polling", "granted", "running"}
Beats == {"off", "sleep", "renewing", "renewed", "lost"}
LiveStates == {"queued", "running"}

TypeOK ==
  /\ maximum \in Maxima
  /\ third \in Thirds
  /\ rows \subseteq Tasks
  /\ own \in [Tasks -> {"none", "queued", "running", "released"}]
  /\ left \in [Rows -> Nat]
  /\ frozen \in [Rows -> Thirds]
  /\ pc \in [Tasks -> Stages]
  /\ held \in [Tasks -> SUBSET Resources]
  /\ beat \in [Rows -> Beats]
  /\ timer \in [Rows -> Nat]
  /\ failure \in [Tasks -> BOOLEAN]
  /\ cancelled \in [Tasks -> BOOLEAN]
  /\ dbFault \in [Tasks -> BOOLEAN]

Init ==
  /\ maximum \in Maxima
  /\ third \in Thirds
  /\ rows = {}
  /\ own = [t \in Tasks |-> "none"]
  /\ left = [row \in Rows |-> 0]
  /\ frozen = [row \in Rows |-> third]
  /\ pc = [t \in Tasks |-> "entering"]
  /\ held = [t \in Tasks |-> {}]
  /\ beat = [row \in Rows |-> "off"]
  /\ timer = [row \in Rows |-> 0]
  /\ failure = [t \in Tasks |-> FALSE]
  /\ cancelled = [t \in Tasks |-> FALSE]
  /\ dbFault = [t \in Tasks |-> FALSE]

-----------------------------------------------------------------------------
\* The WHERE clauses of the two renewals: the row exists under its own token
\* and has not expired.
LeaseLive(t) == t \in rows /\ left[<<t, "lease">>] > 0
\* Mutated form of OwnershipLive: the expiry is not compared.
OwnershipLiveForever(t) == own[t] \in LiveStates
OwnershipLive(t) == own[t] \in LiveStates /\ left[<<t, "ownership">>] > 0
Live(t, r) == IF r = "lease" THEN LeaseLive(t) ELSE OwnershipLive(t)

\* A row written now, with the configured duration frozen for its heartbeats.
\* The client has a third of it to learn of the commit before that is late.
NewRow(t, r) ==
  /\ left' = [left EXCEPT ![<<t, r>>] = Duration(third)]
  /\ frozen' = [frozen EXCEPT ![<<t, r>>] = third]
  /\ timer' = [timer EXCEPT ![<<t, r>>] = third]

\* The acquisition runs in a child task whose result the owner always sees.
\* Mutated form of Remember: a cancellation during the commit discards it.
RememberUnlessCancelled(t, r) ==
  held' = IF cancelled[t] THEN held ELSE [held EXCEPT ![t] = @ \cup {r}]
Remember(t, r) == held' = [held EXCEPT ![t] = @ \cup {r}]

\* An administrator changes app_config.
Configure ==
  /\ maximum' \in Maxima
  /\ third' \in Thirds
  /\ UNCHANGED <<rowVars, taskVars>>

-----------------------------------------------------------------------------
\* acquire_ownership commits; a task without a billing context has none.
AcquireOwnership(t) ==
  /\ pc[t] = "entering"
  /\ IF t \in Billed
       THEN /\ own' = [own EXCEPT ![t] = "queued"]
            /\ NewRow(t, "ownership")
            /\ Remember(t, "ownership")
       ELSE UNCHANGED <<own, left, frozen, timer, held>>
  /\ pc' = [pc EXCEPT ![t] = "owned"]
  /\ UNCHANGED <<maximum, third, rows, beat, failure, cancelled, dbFault>>

\* Mutated form of StartOwnership: the ownership's heartbeat is not started.
StartOwnershipSilently(t) ==
  /\ pc[t] = "owned"
  /\ pc' = [pc EXCEPT ![t] = IF cancelled[t] THEN "joining" ELSE "polling"]
  /\ UNCHANGED <<maximum, third, rowVars, held, beat, timer, failure,
                 cancelled, dbFault, frozen>>

\* The task learns of its ownership.  A cancellation that arrived meanwhile
\* is raised now, with the token kept for the cleanup.
StartOwnership(t) ==
  /\ pc[t] = "owned"
  /\ IF cancelled[t]
       THEN /\ pc' = [pc EXCEPT ![t] = "joining"]
            /\ UNCHANGED <<beat, timer>>
       ELSE /\ pc' = [pc EXCEPT ![t] = "polling"]
            /\ IF "ownership" \in held[t]
                 THEN /\ beat' = [beat EXCEPT ![<<t, "ownership">>] = "sleep"]
                      /\ timer' = [timer EXCEPT ![<<t, "ownership">>] = frozen[<<t, "ownership">>]]
                 ELSE UNCHANGED <<beat, timer>>
  /\ UNCHANGED <<maximum, third, rowVars, held, failure, cancelled, dbFault, frozen>>

\* try_acquire deletes the expired rows of the feature before it counts.
\* Mutated form of Unexpired: rows about to expire are purged too.
UnexpiredEager == {u \in rows : left[<<u, "lease">>] > 1}
Unexpired == {u \in rows : left[<<u, "lease">>] > 0}

Room == Cardinality(Unexpired) < maximum

TryAcquireDenied(t) ==
  /\ pc[t] = "polling"
  /\ ~Room
  /\ rows' = Unexpired
  /\ pc' = [pc EXCEPT ![t] = IF cancelled[t] THEN "joining" ELSE "polling"]
  /\ UNCHANGED <<maximum, third, own, left, frozen, held, beat, timer,
                 failure, cancelled, dbFault>>

TryAcquireGranted(t) ==
  /\ pc[t] = "polling"
  /\ Room
  /\ rows' = Unexpired \cup {t}
  /\ NewRow(t, "lease")
  /\ Remember(t, "lease")
  /\ pc' = [pc EXCEPT ![t] = "granted"]
  /\ UNCHANGED <<maximum, third, own, beat, failure, cancelled, dbFault>>

\* The task learns of its lease, renews its ownership as running and starts
\* the lease's heartbeat, unless it was cancelled or its ownership expired.
Activate(t) ==
  LET owned == "ownership" \in held[t]
      proved == owned => OwnershipLive(t)
      enter == proved /\ ~cancelled[t]
  IN  /\ pc[t] = "granted"
      \* A cancellation seen right after the grant precedes the renewal; one
      \* that arrives during the renewal is raised after it.
      /\ \E renews \in IF cancelled[t] THEN BOOLEAN ELSE {TRUE} :
           IF owned /\ proved /\ renews
             THEN /\ own' = [own EXCEPT ![t] = "running"]
                  /\ left' = [left EXCEPT ![<<t, "ownership">>] = Duration(frozen[<<t, "ownership">>])]
             ELSE UNCHANGED <<own, left>>
      /\ pc' = [pc EXCEPT ![t] = IF enter THEN "running" ELSE "joining"]
      /\ IF enter
           THEN /\ beat' = [beat EXCEPT ![<<t, "lease">>] = "sleep"]
                /\ timer' = [timer EXCEPT ![<<t, "lease">>] = frozen[<<t, "lease">>]]
           ELSE UNCHANGED <<beat, timer>>
      /\ UNCHANGED <<maximum, third, rows, held, failure, cancelled, dbFault, frozen>>

\* The transaction of an acquisition fails for its client: it may have been
\* committed, but its token is lost and nothing but expiry removes the row.
AcquisitionFails(t) ==
  /\ pc[t] \in {"entering", "polling", "granted"}
  /\ \/ UNCHANGED <<rows, own, left, frozen, timer>>
     \/ /\ pc[t] = "entering" /\ t \in Billed
        /\ own' = [own EXCEPT ![t] = "queued"]
        /\ NewRow(t, "ownership")
        /\ UNCHANGED rows
     \/ /\ pc[t] = "polling" /\ Room
        /\ rows' = Unexpired \cup {t}
        /\ NewRow(t, "lease")
        /\ UNCHANGED own
  /\ pc' = [pc EXCEPT ![t] = "joining"]
  /\ dbFault' = [dbFault EXCEPT ![t] = TRUE]
  /\ UNCHANGED <<maximum, third, held, beat, failure, cancelled>>

-----------------------------------------------------------------------------
\* Mutated form of RenewalTimeout: a renewal may take the whole duration.
RenewalPatience(t, r) == Duration(frozen[<<t, r>>])
RenewalTimeout(t, r) == frozen[<<t, r>>]

LoopEnds(t, r) ==
  /\ beat' = [beat EXCEPT ![<<t, r>>] = "off"]
  /\ timer' = [timer EXCEPT ![<<t, r>>] = 0]

\* keep_alive: sleep for a heartbeat period, then ask for a renewal.
HeartbeatDue(t, r) ==
  /\ beat[<<t, r>>] = "sleep" /\ timer[<<t, r>>] = 0
  /\ pc[t] \in Entering
  /\ beat' = [beat EXCEPT ![<<t, r>>] = "renewing"]
  /\ timer' = [timer EXCEPT ![<<t, r>>] = RenewalTimeout(t, r)]
  /\ UNCHANGED <<maximum, third, rowVars, pc, held, failure, cancelled, dbFault, frozen>>

\* renew and renew_ownership: the update matches a live row or nothing.
RenewCommit(t, r) ==
  /\ beat[<<t, r>>] = "renewing"
  /\ IF Live(t, r)
       THEN /\ left' = [left EXCEPT ![<<t, r>>] = Duration(frozen[<<t, r>>])]
            /\ beat' = [beat EXCEPT ![<<t, r>>] = "renewed"]
       ELSE /\ beat' = [beat EXCEPT ![<<t, r>>] = "lost"]
            /\ UNCHANGED left
  /\ UNCHANGED <<maximum, third, rows, own, pc, held, timer, failure,
                 cancelled, dbFault, frozen>>

\* The loop sees its row renewed and sleeps again, or ends once stopped.
RenewReturn(t, r) ==
  /\ beat[<<t, r>>] = "renewed"
  /\ IF pc[t] \in Entering
       THEN /\ beat' = [beat EXCEPT ![<<t, r>>] = "sleep"]
            /\ timer' = [timer EXCEPT ![<<t, r>>] = frozen[<<t, r>>]]
       ELSE LoopEnds(t, r)
  /\ UNCHANGED <<maximum, third, rowVars, pc, held, failure, cancelled, dbFault, frozen>>

\* The row is lost, or the renewal raised or timed out: the loop records the
\* failure before it cancels its owner.
RenewFails(t, r) ==
  /\ beat[<<t, r>>] \in {"renewing", "renewed", "lost"}
  /\ LoopEnds(t, r)
  /\ failure' = [failure EXCEPT ![t] = TRUE]
  /\ cancelled' = [cancelled EXCEPT ![t] = @ \/ pc[t] \in Entering]
  /\ UNCHANGED <<maximum, third, rowVars, pc, held, dbFault, frozen>>

\* Once heartbeat_stop is set a sleeping loop returns.
\* Mutated form of Stopping: the sleep does not watch heartbeat_stop.
StopsTooLate(t) == pc[t] = "done"
Stopping(t) == pc[t] \notin Entering

HeartbeatStopped(t, r) ==
  /\ beat[<<t, r>>] = "sleep"
  /\ Stopping(t)
  /\ LoopEnds(t, r)
  /\ UNCHANGED <<maximum, third, rowVars, pc, held, failure,
                 cancelled, dbFault, frozen>>

-----------------------------------------------------------------------------
\* The caller cancels the task, or its cancel_event is set.
Cancel(t) ==
  /\ pc[t] \in Entering
  /\ ~cancelled[t]
  /\ cancelled' = [cancelled EXCEPT ![t] = TRUE]
  /\ UNCHANGED <<maximum, third, rowVars, pc, held, beat, timer, failure,
                 dbFault, frozen>>

\* A pending cancellation is raised at the task's next await.
RaiseCancelled(t) ==
  /\ pc[t] \in {"polling", "running"}
  /\ cancelled[t]
  /\ pc' = [pc EXCEPT ![t] = "joining"]
  /\ UNCHANGED <<maximum, third, rowVars, held, beat, timer, failure,
                 cancelled, dbFault, frozen>>

\* The body returns or raises by itself.
BodyEnds(t) ==
  /\ pc[t] = "running"
  /\ pc' = [pc EXCEPT ![t] = "joining"]
  /\ UNCHANGED <<maximum, third, rowVars, held, beat, timer, failure,
                 cancelled, dbFault, frozen>>

\* cleanup_resources joins both heartbeats, then deletes the lease row it
\* holds.  A failed deletion still lets the cleanup go on.
ReleaseLease(t) ==
  /\ pc[t] = "joining"
  /\ \A r \in Resources : beat[<<t, r>>] = "off"
  /\ pc' = [pc EXCEPT ![t] = "handoff"]
  /\ \/ /\ rows' = IF "lease" \in held[t] THEN rows \ {t} ELSE rows
        /\ UNCHANGED dbFault
     \/ /\ dbFault' = [dbFault EXCEPT ![t] = TRUE]
        /\ UNCHANGED rows
  /\ UNCHANGED <<maximum, third, own, left, held, beat, timer, failure,
                 cancelled, frozen>>

\* The ownership goes last, after the handoff to the bill's settlement.
ReleaseOwnership(t) ==
  /\ pc[t] = "handoff"
  /\ pc' = [pc EXCEPT ![t] = "done"]
  /\ \/ /\ IF "ownership" \in held[t] /\ own[t] \in LiveStates
             THEN /\ own' = [own EXCEPT ![t] = "released"]
                  /\ left' = [left EXCEPT ![<<t, "ownership">>] = 0]
             ELSE UNCHANGED <<own, left>>
        /\ UNCHANGED dbFault
     \/ /\ dbFault' = [dbFault EXCEPT ![t] = TRUE]
        /\ UNCHANGED <<own, left>>
  /\ UNCHANGED <<maximum, third, rows, held, beat, timer, failure, cancelled, frozen>>

\* The process of the task dies: rows keep their finite expiry.
Crash(t) ==
  /\ pc[t] \notin {"done", "crashed"}
  /\ pc' = [pc EXCEPT ![t] = "crashed"]
  /\ beat' = [row \in Rows |-> IF row[1] = t THEN "off" ELSE beat[row]]
  /\ timer' = [row \in Rows |-> IF row[1] = t THEN 0 ELSE timer[row]]
  /\ UNCHANGED <<maximum, third, rowVars, held, failure, cancelled,
                 dbFault, frozen>>

-----------------------------------------------------------------------------
Elapse(f) == [row \in Rows |-> IF f[row] > 0 THEN f[row] - 1 ELSE 0]

\* One unit of time passes.
Tick ==
  /\ left' = Elapse(left)
  /\ timer' = Elapse(timer)
  /\ UNCHANGED <<maximum, third, rows, own, pc, held, beat, failure,
                 cancelled, dbFault, frozen>>

\* A prompt event loop and database: no time passes while a heartbeat is due
\* or its answer late, nor while a task waits for more than a third of the
\* lease between the commit of a row and the start of its heartbeat.
Prompt ==
  \A t \in Tasks :
    /\ \A r \in Resources : beat[<<t, r>>] # "off" => timer[<<t, r>>] > 0
    /\ pc[t] = "granted" => timer[<<t, "lease">>] > 0
    /\ pc[t] = "owned" /\ t \in Billed => timer[<<t, "ownership">>] > 0

Heartbeat(t, r) ==
  \/ HeartbeatDue(t, r)
  \/ RenewCommit(t, r)
  \/ RenewReturn(t, r)
  \/ RenewFails(t, r)
  \/ HeartbeatStopped(t, r)

\* The steps slot() takes by itself.
TaskStep(t) ==
  \/ AcquireOwnership(t)
  \/ StartOwnership(t)
  \/ TryAcquireDenied(t)
  \/ TryAcquireGranted(t)
  \/ Activate(t)
  \/ RaiseCancelled(t)
  \/ ReleaseLease(t)
  \/ ReleaseOwnership(t)

\* What the callers, the body, the database and the host do to it.
Environment(t) ==
  \/ AcquisitionFails(t)
  \/ Cancel(t)
  \/ BodyEnds(t)
  \/ Crash(t)

Step ==
  \/ Configure
  \/ \E t \in Tasks : TaskStep(t) \/ Environment(t)
  \/ \E t \in Tasks, r \in Resources : Heartbeat(t, r)

Next == Step \/ Tick
PromptNext == Step \/ (Prompt /\ Tick)

Spec == Init /\ [][Next]_vars
PromptSpec == Init /\ [][PromptNext]_vars

\* The event loop keeps running a task and its loops, bodies end, and time
\* passes whenever a prompt loop lets it.
Fairness ==
  /\ WF_vars(Prompt /\ Tick)
  /\ \A t \in Tasks : WF_vars(TaskStep(t)) /\ WF_vars(BodyEnds(t))
  /\ \A t \in Tasks, r \in Resources : WF_vars(Heartbeat(t, r))
LiveSpec == PromptSpec /\ Fairness
-----------------------------------------------------------------------------
\* A body whose own heartbeats have found nothing wrong.
Working(t) == pc[t] = "running" /\ ~failure[t]

\* However acquisitions, expiries, reductions of the maximum and crashes
\* interleave, the feature never has more lease rows than some maximum allows.
RowsWithinMaxima == \E m \in Maxima : Cardinality(rows) <= m

\* After a reduction the live slots drain: a row is added only when it fits
\* the maximum configured at that moment, all rows counted.
AdmissionFitsMaximum ==
  [][\A t \in Tasks : t \in rows' \ rows => Cardinality(rows') <= maximum]_vars

\* A slot that has not expired is taken from nobody: only the cleanup of its
\* own task deletes its row, whatever other tasks acquire, release or purge.
LiveSlotIsKept ==
  [][\A t \in Tasks : LeaseLive(t) /\ t \notin rows' => pc[t] = "joining"]_vars

\* No cancellation loses a row the task could have released: when slot() has
\* returned and every transaction answered, nothing is left for expiry.
NothingLeaked ==
  \A t \in Tasks :
    pc[t] = "done" /\ ~dbFault[t] => t \notin rows /\ own[t] \notin LiveStates

\* An operation looks owned to the recovery of bills for as long as its lease
\* may occupy a slot: the ownership is released after the lease.
OwnedUntilSlotFree ==
  \A t \in Tasks : own[t] = "released" /\ ~dbFault[t] => t \notin rows

\* Both, for every way in which slot() is left.
CleanedUp == NothingLeaked /\ OwnedUntilSlotFree

\* With a prompt event loop, in every state where time may pass a body whose
\* heartbeats report no failure holds its slot and, when billed, its
\* ownership: the period and the timeout of a third each stop it by the
\* instant of expiry.
WorkingHoldsSlot == Prompt => \A t \in Tasks : Working(t) => LeaseLive(t)
\* The ownership that keeps recovery away from the operation, likewise.
WorkingIsOwned ==
  Prompt => \A t \in Tasks :
              Working(t) /\ "ownership" \in held[t] => OwnershipLive(t)

\* Then the bodies at work stay within the limit too, not only the rows.
WorkingWithinMaxima ==
  Prompt => \E m \in Maxima : Cardinality({t \in Tasks : Working(t)}) <= m

\* A crashed or finished task, whatever failed, stops occupying its slot.
CapacityReturns ==
  \A t \in Tasks : pc[t] \in {"done", "crashed"} ~> ~LeaseLive(t) /\ ~OwnershipLive(t)

\* Every slot() call gets to its end: no heartbeat, cancellation or lost row
\* leaves the cleanup waiting.
EverySlotEnds == \A t \in Tasks : <>(pc[t] \in {"done", "crashed"})
=============================================================================

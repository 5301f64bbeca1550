------------------------------ MODULE UpdateJob ------------------------------
(***************************************************************************)
(* The updater daemon: update jobs (jobs.py), their record and gate in     *)
(* update-state.json (state.py), the deployment transaction of             *)
(* adapters/image.py and the recovery at the start of the daemon           *)
(* (__main__.py).                                                          *)
(*                                                                         *)
(* A job replaces the three images of a deployment: it keeps a copy of     *)
(* deployment.env, writes a journal, writes the new deployment.env,        *)
(* reinstalls sandboxd and brings up the web container.  Once the health   *)
(* gate has passed the journal is marked committed and removed with the    *)
(* copy; until then a failure, a cancellation or the next start of the     *)
(* daemon restores the copy and both containers.  A file written in a      *)
(* thread may still be written after the task that waits for it has been   *)
(* cancelled.  Of an image the model keeps the version it belongs to.      *)
(***************************************************************************)
EXTENDS Naturals, FiniteSets

CONSTANTS
  Versions,  \* the deployments there are, each of three images
  Legacy,    \* those without a sandbox
  Clients,   \* the callers of submit_update
  MaxJobs,   \* bound of the jobs
  MaxFaults, \* bound of crashes, failing writes and failing rollbacks
  None

ASSUME BoundsAssumption == MaxJobs \in Nat /\ MaxFaults \in Nat
ASSUME VersionsAssumption == Legacy \subseteq Versions /\ None \notin Versions

Jobs == 1..MaxJobs
\* Who may restore a deployment: the start of the daemon, 0, and the jobs.
Actors == 0..MaxJobs

VARIABLES
  env, web, box,     \* deployment.env and the running web and sandboxd
  journal, copy,     \* the transaction's journal and its copy of env
  job, gate,         \* current_job and active_job_id
  up, accepting,     \* the daemon and its _accepting_updates
  asked,             \* asked[c]: the job c's submission has checked
  active,            \* _transaction_active
  attempted,         \* _new_sandbox_install_attempted
  undone,            \* activation_rollback_completed
  pc, by, snap, mem, \* of each actor: stage, cause of a rollback, snapshot,
                     \* state of the job in memory
  late,              \* the write a cancelled task has left to its thread
  unguarded,         \* whether a rollback ran without a journal of its own
  before,            \* what ran, or was to be restored, when job was accepted
  faults             \* the number of those

deployment == <<env, web, box>>
transaction == <<journal, copy>>
store == <<job, gate>>
daemon == <<up, accepting, asked>>
adapter == <<active, attempted, undone>>
task == <<pc, by, snap, mem>>
history == <<unguarded, before, faults>>
vars == <<deployment, transaction, store, daemon, adapter, task, late,
          history>>

BoxOf(v) == IF v \in Legacy THEN None ELSE v
Converged(v) == env = v /\ web = v /\ box = BoxOf(v)
Uniform == \E v \in Versions : Converged(v)

\* The target and the running version of a submission's preflight.
Unasked == <<None, None>>

\* The transaction can restore the deployment it was begun with.
Guarded == journal = "prepared" /\ copy # None

Init ==
  /\ env \in Versions /\ web = env /\ box = BoxOf(env)
  /\ journal = "none" /\ copy = None
  /\ job = [id |-> 0, state |-> "none", error |-> "none", from |-> env, target |-> env]
  /\ gate = 0 /\ up = "down" /\ accepting = FALSE
  /\ asked = [c \in Clients |-> Unasked]
  /\ active = FALSE /\ attempted = FALSE /\ undone = FALSE
  /\ pc = [a \in Actors |-> "idle"] /\ by = [a \in Actors |-> "none"]
  /\ snap = [a \in Actors |-> None] /\ mem = [j \in Jobs |-> "none"]
  /\ late = "none" /\ unguarded = FALSE /\ before = {env} /\ faults = 0

Goto(a, to) == pc' = [pc EXCEPT ![a] = to]
Step(a, from, to) == pc[a] = from /\ Goto(a, to)
\* A task that ends forgets its local variables.
End(a) ==
  /\ pc' = [pc EXCEPT ![a] = "idle"]
  /\ by' = [by EXCEPT ![a] = "none"] /\ snap' = [snap EXCEPT ![a] = None]
Fault == faults < MaxFaults /\ faults' = faults + 1
Quiet == \A a \in Actors : pc[a] = "idle"
-----------------------------------------------------------------------------
(* Submission and the lifecycle gate *)

\* What is running: from_version of a preflight.
Running == IF web = None THEN env ELSE web

\* preflight: there is a drift from the target, and the running or stopped
\* web container is the one deployment.env names.
Ready(v) == v \in Versions \ Legacy /\ ~Converged(v) /\ web \in {env, None}

\* The checks of submit_update and its preflight, outside the lock.
Ask(c, v) ==
  /\ up = "serving" /\ accepting /\ gate = 0 /\ asked[c] = Unasked /\ Ready(v)
  /\ asked' = [asked EXCEPT ![c] = <<v, Running>>]
  /\ UNCHANGED <<deployment, transaction, store, up, accepting, adapter, task, late, history>>

\* Mutated form: the lock is taken without asking again whether a stop was agreed.
MayAcceptLate == gate = 0

\* The checks that are repeated under the lock.
MayAccept == accepting /\ gate = 0

Accept(c) ==
  /\ asked[c] # Unasked /\ MayAccept /\ job.id < MaxJobs
  /\ LET j == job.id + 1 IN
       /\ job' = [id |-> j, state |-> "running", error |-> "none",
                  from |-> asked[c][2], target |-> asked[c][1]]
       /\ gate' = j /\ mem' = [mem EXCEPT ![j] = "running"]
       /\ Goto(j, "checking")
  /\ before' = {Running} \cup (IF Guarded THEN {copy} ELSE {})
  /\ asked' = [asked EXCEPT ![c] = Unasked]
  /\ UNCHANGED <<deployment, transaction, up, accepting, adapter, by, snap, late, unguarded, faults>>

\* Refused under the lock, or by a preflight or a write that fails.
Refuse(c) ==
  /\ asked[c] # Unasked
  /\ asked' = [asked EXCEPT ![c] = Unasked]
  /\ UNCHANGED <<deployment, transaction, store, up, accepting, adapter, task, late, history>>

MayStop == gate = 0

PrepareStop ==
  /\ up = "serving" /\ MayStop /\ accepting' = FALSE
  /\ UNCHANGED <<deployment, transaction, store, up, asked, adapter, task, late, history>>

CancelStop ==
  /\ up = "serving" /\ accepting' = TRUE
  /\ UNCHANGED <<deployment, transaction, store, up, asked, adapter, task, late, history>>
-----------------------------------------------------------------------------
(* A job up to its activation *)

\* The target is verified again, the second preflight passes, the snapshot
\* is taken, and the images are pulled and verified.
Check(j) ==
  /\ Step(j, "checking", "preflight")
  /\ UNCHANGED <<deployment, transaction, store, daemon, adapter, by, snap, mem, late, history>>

Preflight(j) ==
  /\ Step(j, "preflight", "capture") /\ Ready(job.target)
  /\ UNCHANGED <<deployment, transaction, store, daemon, adapter, by, snap, mem, late, history>>

Capture(j) ==
  /\ Step(j, "capture", "pull") /\ (active \/ journal = "none")
  /\ snap' = [snap EXCEPT ![j] = env]
  /\ UNCHANGED <<deployment, transaction, store, daemon, adapter, by, mem, late, history>>

Pull(j) ==
  /\ Step(j, "pull", "begin")
  /\ UNCHANGED <<deployment, transaction, store, daemon, adapter, by, snap, mem, late, history>>

\* Any of these may fail, and so may saving the record.
StageFails(j) ==
  /\ pc[j] \in {"checking", "preflight", "capture", "pull"}
  /\ Goto(j, "fail")
  /\ UNCHANGED <<deployment, transaction, store, daemon, adapter, by, snap, mem, late, history>>

\* activation_started is set, and saving it fails.
MarkFails(j) ==
  /\ Step(j, "begin", "note") /\ Fault
  /\ UNCHANGED <<deployment, transaction, store, daemon, adapter, by, snap, mem, late, unguarded, before>>
-----------------------------------------------------------------------------
(* Activation: ImageAdapter.activate and finalize_activation *)

\* An exception inside activate: it restores the snapshot itself.
Undo(j, cause) ==
  /\ Goto(j, "restore") /\ by' = [by EXCEPT ![j] = cause]

\* The copy is written, unless an earlier transaction is still open.
Begin(j) ==
  /\ pc[j] = "begin" /\ attempted' = FALSE /\ undone' = FALSE
  /\ IF active
     THEN Undo(j, "activate") /\ unguarded' = TRUE /\ UNCHANGED copy
     ELSE Goto(j, "prepare") /\ copy' = snap[j] /\ UNCHANGED <<by, unguarded>>
  /\ UNCHANGED <<deployment, journal, store, daemon, active, snap, mem, late, before, faults>>

BeginFails(j) ==
  /\ pc[j] = "begin" /\ ~active /\ Fault
  /\ attempted' = FALSE /\ undone' = FALSE /\ Undo(j, "activate")
  /\ UNCHANGED <<deployment, transaction, store, daemon, active, snap, mem, late, unguarded, before>>

Prepare(j) ==
  /\ Step(j, "prepare", "write")
  /\ journal' = "prepared" /\ active' = TRUE
  /\ UNCHANGED <<deployment, copy, store, daemon, attempted, undone, by, snap, mem, late, history>>

PrepareFails(j) ==
  /\ pc[j] = "prepare" /\ Fault
  /\ copy' = None /\ Undo(j, "activate")
  /\ UNCHANGED <<deployment, journal, store, daemon, adapter, snap, mem, late, unguarded, before>>

Write(j) ==
  /\ Step(j, "write", "install") /\ env' = job.target
  /\ UNCHANGED <<web, box, transaction, store, daemon, adapter, by, snap, mem, late, history>>

WriteFails(j) ==
  /\ pc[j] = "write" /\ Fault /\ Undo(j, "activate")
  /\ UNCHANGED <<deployment, transaction, store, daemon, adapter, snap, mem, late, unguarded, before>>

\* start.sh sandboxd reinstall; where it fails the sidecar is the old one,
\* the new one without its readiness, or gone.
Install(j) ==
  /\ pc[j] = "install" /\ attempted' = TRUE
  /\ \/ box' = BoxOf(env) /\ Goto(j, "compose") /\ UNCHANGED by
     \/ box' \in {box, BoxOf(env), None} /\ Undo(j, "activate")
  /\ UNCHANGED <<env, web, transaction, store, daemon, active, undone, snap, mem, late, history>>

\* docker compose up
Compose(j) ==
  /\ pc[j] = "compose"
  /\ \/ web' = env /\ Goto(j, "gate") /\ UNCHANGED by
     \/ web' \in {web, env, None} /\ Undo(j, "activate")
  /\ UNCHANGED <<env, box, transaction, store, daemon, adapter, snap, mem, late, history>>

\* health_check and verify_running_deployment
Healthy(j) == Converged(job.target)

\* Mutated form: the success is saved before the transaction is finalized.
GateSaving(j) ==
  /\ pc[j] = "gate"
  /\ \/ Healthy(j) /\ Goto(j, "commit") /\ job' = [job EXCEPT !.state = "success"]
     \/ Goto(j, "note") /\ UNCHANGED job
  /\ UNCHANGED <<deployment, transaction, gate, daemon, adapter, by, snap, mem, late, history>>

Gate(j) ==
  /\ pc[j] = "gate"
  /\ (Healthy(j) /\ Goto(j, "commit")) \/ Goto(j, "note")
  /\ UNCHANGED <<deployment, transaction, store, daemon, adapter, by, snap, mem, late, history>>

Commit(j) ==
  /\ Step(j, "commit", "dropCopy") /\ journal' = "committed"
  /\ UNCHANGED <<deployment, copy, store, daemon, adapter, by, snap, mem, late, history>>

DropCopy(j) ==
  /\ Step(j, "dropCopy", "dropJournal") /\ copy' = None
  /\ UNCHANGED <<deployment, journal, store, daemon, adapter, by, snap, mem, late, history>>

DropJournal(j) ==
  /\ Step(j, "dropJournal", "succeed") /\ journal' = "none" /\ active' = FALSE
  /\ UNCHANGED <<deployment, copy, store, daemon, attempted, undone, by, snap, mem, late, history>>

FinalizeFails(j) ==
  /\ pc[j] \in {"commit", "dropCopy", "dropJournal"} /\ Fault
  /\ Goto(j, "note")
  /\ UNCHANGED <<deployment, transaction, store, daemon, adapter, by, snap, mem, late, unguarded, before>>

\* The state in memory is set before it is saved.
Succeed(j) ==
  /\ pc[j] = "succeed" /\ mem' = [mem EXCEPT ![j] = "success"]
  /\ \/ job' = [job EXCEPT !.state = "success"] /\ Goto(j, "prune") /\ UNCHANGED faults
     \/ Fault /\ Goto(j, "note") /\ UNCHANGED job
  /\ UNCHANGED <<deployment, transaction, gate, daemon, adapter, by, snap, late, unguarded, before>>

\* Removing unused images fails without consequence.
Prune(j) ==
  /\ Step(j, "prune", "clear")
  /\ UNCHANGED <<deployment, transaction, store, daemon, adapter, by, snap, mem, late, history>>

\* _clear_active_gate; where it fails the gate stays until a restart.
Clear(j) ==
  /\ pc[j] = "clear" /\ End(j) /\ mem' = [mem EXCEPT ![j] = "none"]
  /\ (gate' = 0 /\ UNCHANGED faults) \/ (Fault /\ UNCHANGED gate)
  /\ UNCHANGED <<deployment, transaction, job, daemon, adapter, late, unguarded, before>>
-----------------------------------------------------------------------------
(* Failure of a job *)

\* The attempt to roll back is saved with whatever state memory has; where
\* that fails the task ends and keeps the gate.
Note(j) ==
  /\ pc[j] = "note"
  /\ \/ /\ job' = [job EXCEPT !.state = mem[j]]
        /\ (IF undone THEN Goto(j, "recheck") /\ UNCHANGED by ELSE Undo(j, "failure"))
        /\ UNCHANGED <<snap, mem, faults>>
     \/ Fault /\ End(j) /\ mem' = [mem EXCEPT ![j] = "none"] /\ UNCHANGED job
  /\ UNCHANGED <<deployment, transaction, gate, daemon, adapter, late, unguarded, before>>

\* The health check of the version before.
Recheck(j) ==
  /\ pc[j] = "recheck"
  /\ (web = job.from /\ Goto(j, "fail")) \/ Goto(j, "unrestored")
  /\ UNCHANGED <<deployment, transaction, store, daemon, adapter, by, snap, mem, late, history>>

Fail(j) ==
  /\ pc[j] \in {"fail", "unrestored"}
  /\ \/ /\ job' = [job EXCEPT !.state = "failed",
                   !.error = IF pc[j] = "fail" THEN "failed" ELSE "rollback_failed"]
        /\ Goto(j, "clear") /\ UNCHANGED <<by, snap, mem, faults>>
     \/ Fault /\ End(j) /\ mem' = [mem EXCEPT ![j] = "none"] /\ UNCHANGED job
  /\ UNCHANGED <<deployment, transaction, gate, daemon, adapter, late, unguarded, before>>
-----------------------------------------------------------------------------
(* Rollback: _restore_and_reconverge and the removal of the transaction *)

\* The snapshot of a job, or at a start the copy the journal names.
Snapshot(a) == IF a = 0 THEN copy ELSE snap[a]

\* Mutated form: a start removes the transaction before the containers are restored.
RestoreEarly(a) ==
  /\ Step(a, "restore", "undoBox")
  /\ env' = Snapshot(a)
  /\ copy' = (IF a = 0 THEN None ELSE copy) /\ journal' = (IF a = 0 THEN "none" ELSE journal)
  /\ unguarded' = (unguarded \/ ~Guarded)
  /\ UNCHANGED <<web, box, store, daemon, adapter, by, snap, mem, late, before, faults>>

Restore(a) ==
  /\ Step(a, "restore", "undoBox")
  /\ env' = Snapshot(a)
  /\ unguarded' = (unguarded \/ ~Guarded)
  /\ UNCHANGED <<web, box, transaction, store, daemon, adapter, by, snap, mem, late, before, faults>>

\* The old sidecar is reinstalled; a new one is removed where there was none.
UndoBox(a) ==
  /\ Step(a, "undoBox", "undoWeb")
  /\ box' = IF Snapshot(a) \notin Legacy THEN BoxOf(env)
            ELSE IF a = 0 \/ attempted THEN None ELSE box
  /\ UNCHANGED <<env, web, transaction, store, daemon, adapter, by, snap, mem, late, history>>

Restored(a) == IF a = 0 \/ active THEN "undoCopy" ELSE "undone"

UndoWeb(a) ==
  /\ Step(a, "undoWeb", Restored(a)) /\ web' = env
  /\ UNCHANGED <<env, box, transaction, store, daemon, adapter, by, snap, mem, late, history>>

UndoCopy(a) ==
  /\ Step(a, "undoCopy", "undoJournal") /\ copy' = None
  /\ UNCHANGED <<deployment, journal, store, daemon, adapter, by, snap, mem, late, history>>

UndoJournal(a) ==
  /\ Step(a, "undoJournal", "undone") /\ journal' = "none" /\ active' = FALSE
  /\ UNCHANGED <<deployment, copy, store, daemon, attempted, undone, by, snap, mem, late, history>>

\* Where the code goes on after a rollback, and after one that failed.
Continue(cause) == CASE cause = "activate" -> "note" [] cause = "failure" -> "recheck"
                     [] cause = "cancel" -> "cancelled" [] OTHER -> "reconcile"
GiveUp(cause) == IF cause = "failure" THEN "unrestored" ELSE Continue(cause)

UndoEnds(a) ==
  /\ Step(a, "undone", Continue(by[a]))
  /\ undone' = (undone \/ by[a] = "activate")
  /\ UNCHANGED <<deployment, transaction, store, daemon, active, attempted, by, snap, mem, late, history>>

\* A container the interrupted or failing command was replacing may be gone.
Torn ==
  /\ box' \in {box} \cup IF \E a \in Actors : pc[a] \in {"install", "undoBox"} THEN {None} ELSE {}
  /\ web' \in {web} \cup IF \E a \in Actors : pc[a] \in {"compose", "undoWeb"} THEN {None} ELSE {}

Undoing(a) == pc[a] \in {"restore", "undoBox", "undoWeb", "undoCopy", "undoJournal"}

UndoFails(j) ==
  /\ Undoing(j) /\ Fault /\ Torn
  /\ unguarded' = (unguarded \/ ~Guarded)
  /\ Goto(j, GiveUp(by[j]))
  /\ UNCHANGED <<env, transaction, store, daemon, adapter, by, snap, mem, late, before>>
-----------------------------------------------------------------------------
(* Cancellation: the daemon is told to stop while a job is running *)

Terminate ==
  /\ up = "serving" /\ up' = "stopping"
  /\ UNCHANGED <<deployment, transaction, store, accepting, asked, adapter, task, late, history>>

\* The tasks are cancelled once the requests have been answered.
Cancelling(j) == up = "stopping" /\ (\A c \in Clients : asked[c] = Unasked) /\ by[j] # "cancel"

\* Before its activation a job only saves its record; before its first step
\* not even that.
CancelEarly(j) ==
  /\ Cancelling(j) /\ pc[j] \in {"checking", "preflight", "capture", "pull"}
  /\ Goto(j, "cancelled") /\ by' = [by EXCEPT ![j] = "cancel"]
  /\ UNCHANGED <<deployment, transaction, store, daemon, adapter, snap, mem, late, history>>

\* Later it rolls back first.  Of the file that was being written the write
\* may be left to its thread.
CancelActivation(j) ==
  /\ Cancelling(j) /\ pc[j] \in {"begin", "prepare", "write", "install", "compose", "gate",
                                 "commit", "dropCopy", "dropJournal"}
  /\ (pc[j] = "begin" => ~active)
  /\ Undo(j, "cancel") /\ Torn
  /\ attempted' = (pc[j] # "begin" /\ (attempted \/ pc[j] = "install"))
  /\ undone' = (undone /\ pc[j] # "begin")
  /\ copy' = IF pc[j] = "prepare" THEN None ELSE copy
  /\ late' \in {"none"} \cup (IF pc[j] \in {"prepare", "write", "commit"} THEN {pc[j]} ELSE {})
  /\ UNCHANGED <<env, journal, store, daemon, active, snap, mem, history>>

\* A rollback inside activate is begun again; one inside the handler of a
\* failure ends with the task, whose gate stays.
CancelUndo(j) ==
  /\ Cancelling(j) /\ Undoing(j) /\ by[j] = "activate"
  /\ Undo(j, "cancel") /\ Torn
  /\ UNCHANGED <<env, transaction, store, daemon, adapter, snap, mem, late, history>>

CancelHandler(j) ==
  /\ Cancelling(j) /\ ((Undoing(j) /\ by[j] = "failure") \/ pc[j] = "recheck")
  /\ End(j) /\ mem' = [mem EXCEPT ![j] = "none"] /\ Torn
  /\ unguarded' = (unguarded \/ (Undoing(j) /\ ~Guarded))
  /\ UNCHANGED <<env, transaction, store, daemon, adapter, late, before, faults>>

\* The record is saved and the gate kept for the next start.
Cancelled(j) ==
  /\ pc[j] = "cancelled" /\ End(j) /\ mem' = [mem EXCEPT ![j] = "none"]
  /\ job' \in {job, [job EXCEPT !.error = "cancelled"]}
  /\ UNCHANGED <<deployment, transaction, gate, daemon, adapter, late, history>>

\* The thread of a cancelled write comes last.
LateWrite ==
  /\ late # "none" /\ late' = "none" /\ unguarded' = TRUE
  /\ journal' = CASE late = "prepare" -> "prepared" [] late = "commit" -> "committed" [] OTHER -> journal
  /\ env' = IF late = "write" THEN job.target ELSE env
  /\ UNCHANGED <<web, box, copy, store, daemon, adapter, task, before, faults>>

Exit ==
  /\ up = "stopping" /\ Quiet /\ late = "none" /\ \A c \in Clients : asked[c] = Unasked
  /\ up' = "down" /\ accepting' = FALSE
  /\ active' = FALSE /\ attempted' = FALSE /\ undone' = FALSE
  /\ UNCHANGED <<deployment, transaction, store, asked, task, late, history>>
-----------------------------------------------------------------------------
(* Death and start of the daemon *)

Dies ==
  /\ up' = "down" /\ accepting' = FALSE /\ asked' = [c \in Clients |-> Unasked]
  /\ active' = FALSE /\ attempted' = FALSE /\ undone' = FALSE
  /\ pc' = [a \in Actors |-> "idle"] /\ by' = [a \in Actors |-> "none"]
  /\ snap' = [a \in Actors |-> None] /\ mem' = [j \in Jobs |-> "none"]
  /\ late' = "none"

\* Killed, or an error while starting.
Crash ==
  /\ up # "down" /\ Fault /\ Dies /\ Torn
  /\ unguarded' = (unguarded \/ \E a \in Actors : Undoing(a) /\ ~Guarded)
  /\ UNCHANGED <<env, transaction, store, before>>

\* recover_pending_transaction: a prepared journal needs its copy.
CopyLost == journal = "prepared" /\ copy = None

StartRefused == up = "down" /\ CopyLost /\ UNCHANGED vars

Start ==
  /\ up = "down" /\ ~CopyLost /\ up' = "starting"
  /\ Goto(0, CASE journal = "none" -> "reconcile" [] journal = "committed" -> "undoCopy"
               [] OTHER -> "restore")
  /\ UNCHANGED <<deployment, transaction, store, accepting, asked, adapter, by, snap, mem,
                 late, history>>

\* Mutated form: a gate that stayed behind a job at its end is left alone.
ReconcileRunning ==
  /\ Step(0, "reconcile", "idle")
  /\ gate' = (IF job.state = "running" THEN 0 ELSE gate)
  /\ job' = IF job.state = "running"
            THEN [job EXCEPT !.state = "failed", !.error = "interrupted"] ELSE job
  /\ up' = "serving" /\ accepting' = TRUE
  /\ UNCHANGED <<deployment, transaction, asked, adapter, by, snap, mem, late, history>>

\* reconcile_interrupted_job, then the daemon serves.
Reconcile ==
  /\ Step(0, "reconcile", "idle")
  /\ gate' = 0
  /\ job' = IF gate # 0 /\ job.state = "running"
            THEN [job EXCEPT !.state = "failed", !.error = "interrupted"] ELSE job
  /\ up' = "serving" /\ accepting' = TRUE
  /\ UNCHANGED <<deployment, transaction, asked, adapter, by, snap, mem, late, history>>
-----------------------------------------------------------------------------
Roll(a) == Restore(a) \/ UndoBox(a) \/ UndoWeb(a) \/ UndoCopy(a) \/ UndoJournal(a) \/ UndoEnds(a)

Activate(j) ==
  \/ Begin(j) \/ Prepare(j) \/ Write(j) \/ Install(j) \/ Compose(j) \/ Gate(j)
  \/ Commit(j) \/ DropCopy(j) \/ DropJournal(j) \/ Succeed(j) \/ Prune(j) \/ Clear(j)

Work(j) ==
  \/ Check(j) \/ Preflight(j) \/ Capture(j) \/ Pull(j) \/ StageFails(j)
  \/ Activate(j) \/ Note(j) \/ Recheck(j) \/ Fail(j) \/ Cancelled(j) \/ Roll(j)

Breaks(j) ==
  \/ MarkFails(j) \/ BeginFails(j) \/ PrepareFails(j) \/ WriteFails(j)
  \/ FinalizeFails(j) \/ UndoFails(j)

Cancel(j) == CancelEarly(j) \/ CancelActivation(j) \/ CancelUndo(j) \/ CancelHandler(j)

Submit(c) == (\E v \in Versions : Ask(c, v)) \/ Accept(c) \/ Refuse(c)

Next ==
  \/ \E c \in Clients : Submit(c)
  \/ PrepareStop \/ CancelStop \/ Terminate \/ LateWrite \/ Exit
  \/ \E j \in Jobs : Work(j) \/ Breaks(j) \/ Cancel(j)
  \/ Crash \/ Start \/ StartRefused \/ Roll(0) \/ Reconcile

\* The daemon is started again, and tasks, threads and requests end.
Fairness ==
  /\ WF_vars(Start) /\ WF_vars(Roll(0)) /\ WF_vars(Reconcile)
  /\ WF_vars(LateWrite) /\ WF_vars(Exit)
  /\ \A c \in Clients : WF_vars(Refuse(c))
  /\ \A j \in Jobs : WF_vars(Work(j))

Spec == Init /\ [][Next]_vars
FairSpec == Spec /\ Fairness
-----------------------------------------------------------------------------
(* Properties *)

Stages == {"idle", "checking", "preflight", "capture", "pull", "begin", "prepare", "write",
           "install", "compose", "gate", "commit", "dropCopy", "dropJournal", "succeed",
           "prune", "clear", "note", "restore", "undoBox", "undoWeb", "undoCopy",
           "undoJournal", "undone", "recheck", "fail", "unrestored", "cancelled", "reconcile"}
JobStates == {"none", "running", "success", "failed"}
Maybe == Versions \cup {None}

\* The files, containers, record and tasks are always well-formed.
TypeOK ==
  /\ env \in Versions /\ web \in Maybe /\ box \in Maybe
  /\ journal \in {"none", "prepared", "committed"} /\ copy \in Maybe
  /\ job \in [id : Actors, state : JobStates, from : Versions, target : Versions,
              error : {"none", "failed", "rollback_failed", "cancelled", "interrupted"}]
  /\ gate \in Actors /\ up \in {"down", "starting", "serving", "stopping"}
  /\ accepting \in BOOLEAN /\ asked \in [Clients -> Maybe \X Maybe]
  /\ active \in BOOLEAN /\ attempted \in BOOLEAN /\ undone \in BOOLEAN
  /\ pc \in [Actors -> Stages] /\ by \in [Actors -> {"none", "activate", "failure", "cancel"}]
  /\ snap \in [Actors -> Maybe] /\ mem \in [Jobs -> JobStates]
  /\ late \in {"none", "prepare", "write", "commit"}
  /\ unguarded \in BOOLEAN /\ before \subseteq Versions /\ faults \in 0..MaxFaults

\* There is never a second destructive task, nor one in a daemon that has
\* agreed to stop, though submissions check before and after their preflight;
\* the gate on disk names the job at work, and gated_job never finds it corrupt.
GatedUpdates ==
  /\ \A j \in Jobs : pc[j] # "idle" => accepting /\ gate = j
  /\ IF gate = 0 THEN job.state # "running" ELSE job.id = gate

\* A deployment whose three images disagree can be restored after a crash at
\* any moment: the journal says so and its copy is there.  Excepted are the
\* rollbacks without a journal of their own.
Recoverable == unguarded \/ Uniform \/ Guarded

\* What the record of an update that is over says is what is running: the
\* target after a success, the version before after a failure, and one of
\* the two, complete, after an interruption.
OutcomeMatches ==
  (up = "serving" /\ gate = 0 /\ ~unguarded) =>
    /\ job.state = "success" => Converged(job.target)
    /\ job.error = "failed" => Running \in before
    /\ job.error = "interrupted" => Uniform /\ env \in before \cup {job.target}

\* Every update that was accepted is brought to an end, by its task or by the
\* next start of the daemon, unless a live daemon keeps the gate of a task
\* that could not save its end or the copy of a prepared journal is gone.
UpdateEnds ==
  /\ (job.state = "running") ~> (job.state # "running" \/ CopyLost \/ (up = "serving" /\ Quiet))
  /\ (up = "down") ~> (CopyLost \/ (up = "serving" /\ gate = 0))

\* Journal and copy are removed together, or preserved.
CopyKept == ~CopyLost
=============================================================================

----------------------------- MODULE AgentTools -----------------------------
(***************************************************************************)
(* The tool calls of an Agent and of the read-only child it may spawn: the *)
(* batches of tool_scheduler.py, the barrier of the workspace they share,  *)
(* the ledger of conversation_checkpoint.py, the child's slot and the end  *)
(* of a run in subagents.py, fullstack_expert.py and iteration_loop.py,    *)
(* and the recovery of an interrupted run.                                 *)
(*                                                                         *)
(* A call is marked running before its effect and its result is recorded   *)
(* with its state.  A run ends by itself, by a request to stop, by the     *)
(* cancellation of its task or with the process; a later run resumes from  *)
(* the ledger alone.  What a tool computes and what the model writes is    *)
(* left out: a model asks for more calls of its plan or fails.             *)
(***************************************************************************)
EXTENDS Naturals

CONSTANTS
  MaxCalls,   \* bound of the calls of a session
  Plans,      \* what the two models may ask for: the kind of every call
  MaxFaults,  \* bound of crashes, cancelled tasks, failing stores, foreign locks
  MaxResumes  \* bound of the resumed runs

\* A read is read_file; a search, as grep and detect_project, is drained.
Kinds == {"read", "search", "write", "spawn", "wait", "cancel", "finish"}
Agents == {"parent", "child"}
Calls == Agents \X (1..MaxCalls)

ASSUME BoundsAssumption ==
  MaxCalls \in Nat /\ MaxFaults \in Nat /\ MaxResumes \in Nat
ASSUME PlansAssumption == Plans \subseteq [Calls -> Kinds \cup {"none"}]
\* A plan is a list of calls: there is none behind its end.
ASSUME ListsAssumption ==
  \A p \in Plans, a \in Agents, i, j \in 1..MaxCalls :
    i <= j /\ p[<<a, j>>] # "none" => p[<<a, i>>] # "none"
\* A child cannot write or delegate.
ASSUME ReadOnlyAssumption ==
  \A p \in Plans : \A i \in 1..MaxCalls : p[<<"child", i>>] \in {"read", "search", "finish", "none"}

VARIABLES
  plan,      \* of every call, its kind
  state,     \* the ledger: the call's status, "absent" before it is asked for
  result,    \* and its result message
  effects,   \* how often the call has changed the workspace
  status,    \* of the two sessions
  pc,        \* where an agent's run is
  end,       \* the outcome an ending run is to store
  stage,     \* of every call, its task in the current batch
  stop,      \* the task's cancel event
  started,   \* whether the manager of the child runs
  failed,    \* whether it could not store the child's end
  foreign,   \* whether another process holds the lock of the workspace
  threads,   \* the cancelled reads whose thread still reads
  faults, resumes

ledger == <<state, result>>
run == <<pc, end>>
manager == <<started, failed>>
outside == <<foreign, threads>>
bounds == <<faults, resumes>>
vars == <<plan, ledger, effects, status, run, stage, stop, manager, outside,
          bounds>>

Active == {"queued", "running", "cancelling"}
Outcomes == {"success", "cancelled", "blocked", "unrecoverable_error"}
States == {"absent", "pending", "running", "completed", "failed", "cancelled"}
Stages == {"out", "marked", "due", "wait", "lock", "work", "drain",
           "ok", "error", "gone", "kept"}
\* The stages of a task that has ended, and those a cancelled batch resolves.
Ended == {"ok", "error", "gone"}
Marked == Ended \cup {"marked"}

TypeOK ==
  /\ plan \in Plans
  /\ state \in [Calls -> States]
  /\ result \in [Calls -> {"none", "ok", "error", "skipped"}]
  /\ effects \in [Calls -> Nat]
  /\ status \in [Agents -> {"absent", "completed"} \cup Active \cup (Outcomes \ {"success"})]
  /\ pc \in [Agents -> {"off", "recover", "skip", "loop", "run", "record",
                        "abort", "close", "finish"}]
  /\ end \in [Agents -> Outcomes \cup {"none"}]
  /\ \A a \in Agents : pc[a] \in {"abort", "close", "finish"} => end[a] # "none"
  /\ stage \in [Calls -> Stages]
  /\ stop \in BOOLEAN /\ started \in BOOLEAN
  /\ failed \in BOOLEAN /\ foreign \in BOOLEAN
  /\ threads \subseteq Calls
  /\ faults \in 0..MaxFaults
  /\ resumes \in 0..MaxResumes

Init ==
  /\ plan \in Plans
  /\ state = [c \in Calls |-> "absent"]
  /\ result = [c \in Calls |-> "none"]
  /\ effects = [c \in Calls |-> 0]
  /\ status = [a \in Agents |-> IF a = "parent" THEN "running" ELSE "absent"]
  /\ pc = [a \in Agents |-> IF a = "parent" THEN "recover" ELSE "off"]
  /\ end = [a \in Agents |-> "none"]
  /\ stage = [c \in Calls |-> "out"]
  /\ stop = FALSE /\ started = FALSE /\ failed = FALSE
  /\ foreign = FALSE /\ threads = {}
  /\ faults = 0 /\ resumes = 0

-----------------------------------------------------------------------------
(* The calls of an agent. *)

Of(a) == {c \in Calls : c[1] = a}
Asked(a) == {c \in Of(a) : state[c] # "absent"}
Open(a) == {c \in Asked(a) : result[c] = "none"}
Shared(c) == plan[c] \in {"read", "search"}
First(c, S) == c \in S /\ \A d \in S : c[2] <= d[2]
\* The next batch: one call, or all reads up to the next other call.
Group(a) ==
  {c \in Open(a) : \/ First(c, Open(a))
                   \/ \A d \in Open(a) : d[2] <= c[2] => Shared(d)}
Finals(a) == {c \in Of(a) : plan[c] = "finish" /\ result[c] = "ok"}

Exclusive(c) == plan[c] \in {"write", "finish"}
\* The calls of the child's manager hold no lock of the workspace.
\* Mutated form: every call is inside the barrier.
LocksAlways(c) == c \in Calls
Locks(c) == Shared(c) \/ Exclusive(c)
\* Mutated form: a cancelled call leaves the barrier at once.
InsideUncancelled == {c \in Calls : Locks(c) /\ stage[c] \in {"lock", "work"}}
Inside == {c \in Calls : Locks(c) /\ stage[c] \in {"lock", "work", "drain"}}
\* What is being done to the workspace.
Working == {c \in Calls : (Shared(c) \/ Exclusive(c)) /\ stage[c] \in {"work", "drain"}}

In(a, S) == {c \in Of(a) : stage[c] \in S}
Stopped(a) == a = "parent" /\ stop

\* The session's results and states, as record_tool_result commits them.
Store(c, r) ==
  /\ result' = [result EXCEPT ![c] = r]
  /\ state' = [state EXCEPT ![c] = CASE r = "ok" -> "completed"
                                     [] r = "error" -> "failed"
                                     [] r = "skipped" -> "cancelled"]

\* A run that ends first closes the manager of its children, if it has one.
Leave(a, o) ==
  /\ pc' = [pc EXCEPT ![a] = IF a = "parent" THEN "close" ELSE "finish"]
  /\ end' = [end EXCEPT ![a] = o]
  /\ failed' = (failed /\ a = "child")

\* Mutated form: what a search has begun is not waited for.
DrainsWrites(c) ==
  \/ Exclusive(c)
  \/ plan[c] = "cancel" /\ status["child"] = "cancelling" /\ pc["child"] # "off"
\* A task that is cancelled: a write, a finish_task, a search and the
\* cancellation of a child go on until what they have begun is over.
Drains(c) ==
  \/ Exclusive(c) \/ plan[c] = "search"
  \/ plan[c] = "cancel" /\ status["child"] = "cancelling" /\ pc["child"] # "off"
Dropped(c) ==
  CASE stage[c] \in {"due", "wait", "lock"} -> "gone"
    [] stage[c] = "work" -> IF Drains(c) THEN "drain" ELSE "gone"
    [] OTHER -> stage[c]
\* A reader that is not drained leaves the barrier while its thread reads on.
\* So does the search for a repository's instructions, which is left out.
LeftBehind(a) == {c \in Of(a) : Shared(c) /\ stage[c] = "work" /\ ~Drains(c)}
Abandon(a, o) ==
  /\ pc' = [pc EXCEPT ![a] = "abort"]
  /\ end' = [end EXCEPT ![a] = o]
  /\ stage' = [c \in Calls |-> IF c \in Of(a) THEN Dropped(c) ELSE stage[c]]
  /\ threads' = threads \cup LeftBehind(a)
  /\ UNCHANGED failed
AllOut(a) == [c \in Calls |-> IF c \in Of(a) THEN "out" ELSE stage[c]]

-----------------------------------------------------------------------------
(* A run: recovery, the model's requests, the batches. *)

\* Mutated form: a call the batch could resolve as cancelled may run again.
BlockedRunning(a) ==
  \E c \in Open(a) : state[c] = "running" /\ plan[c] = "write"

\* What no run may go on from: a write that began and has no result, or states
\* and results that cannot belong together.
Blocked(a) ==
  \/ \E c \in Open(a) :
       state[c] # "pending" /\ (plan[c] = "write" \/ \E f \in Finals(a) : f[2] < c[2])
  \/ \E c \in Open(a) : state[c] = "completed" \/ \E f \in Finals(a) : c[2] < f[2]
  \/ \E c \in Asked(a) \ Open(a) :
       \/ state[c] \in {"pending", "running"}
       \/ result[c] = "error" /\ state[c] = "completed"
       \/ \E f \in Finals(a) :
            f[2] < c[2] /\ ~(result[c] = "skipped" /\ state[c] = "cancelled")
  \/ \E f \in Finals(a) : state[f] # "completed"
  \/ status[a] = "completed" /\ Finals(a) = {}

Recover(a) ==
  /\ pc[a] = "recover"
  /\ \/ Blocked(a) /\ Leave(a, "blocked") /\ UNCHANGED started
     \/ /\ ~Blocked(a)
        /\ pc' = [pc EXCEPT ![a] = IF Finals(a) # {} THEN "skip" ELSE "loop"]
        /\ started' = (started \/ (a = "parent" /\ Finals(a) = {}))
        /\ UNCHANGED <<end, failed>>
  /\ UNCHANGED <<plan, ledger, effects, status, stage, stop, outside, bounds>>

\* The answer of the model: one message with the next calls.
Ask(a) ==
  /\ pc[a] = "loop" /\ ~Stopped(a) /\ Open(a) = {}
  /\ \E last \in Of(a) \ Asked(a) :
       /\ plan[last] # "none"
       /\ state' = [c \in Calls |->
                      IF c \in Of(a) \ Asked(a) /\ c[2] <= last[2]
                      THEN "pending" ELSE state[c]]
  /\ UNCHANGED <<plan, result, effects, status, run, stage, stop, manager,
                 outside, bounds>>

ModelFails(a) ==
  /\ pc[a] = "loop" /\ Open(a) = {}
  /\ Leave(a, "unrecoverable_error")
  /\ UNCHANGED <<plan, ledger, effects, status, stage, stop, started, outside,
                 bounds>>

\* The calls of a batch are marked one by one, then their tasks are created.
MayMark(c) ==
  /\ pc[c[1]] = "loop" /\ ~Stopped(c[1])
  /\ First(c, {d \in Group(c[1]) : stage[d] = "out"})
Mark(c) ==
  LET a == c[1]
      last == \A d \in Group(a) \ {c} : stage[d] = "marked" IN
  /\ MayMark(c)
  /\ state' = [state EXCEPT ![c] = "running"]
  /\ stage' = [d \in Calls |->
                 IF last /\ d \in Group(a) THEN "due"
                 ELSE IF d = c THEN "marked" ELSE stage[d]]
  /\ pc' = IF last THEN [pc EXCEPT ![a] = "run"] ELSE pc
  /\ UNCHANGED <<plan, result, effects, status, end, stop, manager, outside,
                 bounds>>

\* Once all its tasks have ended the results of a batch are recorded in order.
MayRecord(c) ==
  LET a == c[1] IN
  /\ pc[a] \in {"run", "record"}
  /\ \A d \in Of(a) : stage[d] \in {"out", "ok", "error", "kept"}
  /\ First(c, In(a, {"ok", "error"}))
Record(c) ==
  LET a == c[1]
      last == In(a, {"ok", "error"}) = {c} IN
  /\ MayRecord(c)
  /\ Store(c, stage[c])
  /\ stage' = IF last THEN AllOut(a) ELSE [stage EXCEPT ![c] = "kept"]
  /\ pc' = [pc EXCEPT ![a] = CASE ~last -> "record"
                               [] last /\ plan[c] = "finish" /\ stage[c] = "ok" -> "skip"
                               [] OTHER -> "loop"]
  /\ UNCHANGED <<plan, effects, status, end, stop, manager, outside, bounds>>

\* After a finish_task the calls behind it are recorded as skipped.
MaySkip(c) == pc[c[1]] = "skip" /\ First(c, Open(c[1]))
Skip(c) ==
  /\ MaySkip(c)
  /\ Store(c, "skipped")
  /\ UNCHANGED <<plan, effects, status, run, stage, stop, manager, outside,
                 bounds>>
\* Mutated form: the calls behind a finish_task are left as they are.
SucceedAtOnce(a) ==
  /\ pc[a] = "skip"
  /\ Leave(a, "success")
  /\ UNCHANGED <<plan, ledger, effects, status, stage, stop, started, outside,
                 bounds>>
Succeed(a) ==
  /\ pc[a] = "skip" /\ Open(a) = {}
  /\ Leave(a, "success")
  /\ UNCHANGED <<plan, ledger, effects, status, stage, stop, started, outside,
                 bounds>>

\* The request to stop is seen before a call is marked and while tasks run.
StopSeen(a) ==
  /\ Stopped(a) /\ pc[a] \in {"loop", "run"}
  /\ Abandon(a, "cancelled")
  /\ UNCHANGED <<plan, ledger, effects, status, stop, started, foreign, bounds>>

\* An abandoned batch waits for its tasks, then every call that was marked and
\* has no result is "cancelled".
Drained(a) == pc[a] = "abort" /\ In(a, {"drain"}) = {}
MayUnmark(c) == Drained(c[1]) /\ First(c, In(c[1], Marked))
Unmark(c) ==
  /\ MayUnmark(c)
  /\ state' = [state EXCEPT ![c] = "cancelled"]
  /\ stage' = [stage EXCEPT ![c] = "out"]
  /\ UNCHANGED <<plan, result, effects, status, run, stop, manager, outside,
                 bounds>>
Abandoned(a) ==
  /\ Drained(a) /\ In(a, Marked) = {}
  /\ stage' = AllOut(a)
  /\ Leave(a, end[a])
  /\ UNCHANGED <<plan, ledger, effects, status, stop, started, outside, bounds>>

-----------------------------------------------------------------------------
(* The tasks of a batch and the barrier of the workspace. *)

Moves(c, s) ==
  /\ stage' = [stage EXCEPT ![c] = s]
  /\ UNCHANGED <<plan, ledger, status, run, stop, started, outside, bounds>>

\* A call without a lock starts, and a writer joins those that wait.
Start(c) ==
  /\ stage[c] = "due" /\ ~Shared(c)
  /\ failed' = (failed /\ plan[c] # "cancel")
  /\ Moves(c, IF Exclusive(c) THEN "wait" ELSE IF Stopped(c[1]) THEN "gone" ELSE "work")
  /\ UNCHANGED effects

MayEnter(c) ==
  \/ /\ Shared(c) /\ stage[c] = "due"
     /\ \A d \in Calls : Exclusive(d) => d \notin Inside /\ stage[d] # "wait"
  \/ Exclusive(c) /\ stage[c] = "wait" /\ Inside = {}
Enter(c) == MayEnter(c) /\ Moves(c, "lock") /\ UNCHANGED <<effects, failed>>

Lock(c) ==
  /\ stage[c] = "lock" /\ ~foreign
  /\ Moves(c, IF Stopped(c[1]) THEN "gone" ELSE "work")
  /\ UNCHANGED <<effects, failed>>

\* A read, a search or a finish_task ends; its result is lost if it was cancelled.
Ends(c) ==
  /\ (Shared(c) \/ plan[c] = "finish")
  /\ \/ stage[c] = "work" /\ \E r \in {"ok", "error"} : Moves(c, r)
     \/ stage[c] = "drain" /\ Moves(c, "gone")
  /\ UNCHANGED <<effects, failed>>

\* A write that fails may have changed the workspace.
Writes(c) ==
  /\ plan[c] = "write"
  /\ \E done \in BOOLEAN, r \in {"ok", "error", "gone"} :
       /\ stage[c] = (IF r = "gone" THEN "drain" ELSE "work")
       /\ r = "ok" => done
       /\ effects' = IF done THEN [effects EXCEPT ![c] = @ + 1] ELSE effects
       /\ Moves(c, r)
  /\ UNCHANGED failed

\* The durable identity of a child is that of its spawn call.
Spawn(c) ==
  /\ plan[c] = "spawn" /\ stage[c] = "work"
  /\ \E r \in {"ok", "error"} :
       /\ stage' = [stage EXCEPT ![c] = r]
       /\ status' = IF r = "ok" /\ status["child"] = "absent"
                    THEN [status EXCEPT !["child"] = "queued"] ELSE status
  /\ UNCHANGED <<plan, ledger, effects, run, stop, manager, outside, bounds>>

Over == status["child"] \notin Active \cup {"absent"} /\ pc["child"] = "off"

\* wait_agent ends with its child, or with the failure to store its end.
Wait(c) ==
  /\ plan[c] = "wait" /\ stage[c] = "work"
  /\ \/ (failed \/ status["child"] = "absent") /\ Moves(c, "error")
     \/ ~failed /\ Over /\ Moves(c, "ok")
  /\ UNCHANGED <<effects, failed>>

-----------------------------------------------------------------------------
(* Cancelled tasks, the child's slot and the end of a run. *)

\* A cancelled task may have committed the store it was waiting for.
InFlight(a) ==
  \/ UNCHANGED ledger
  \/ \E c \in Of(a) : MayMark(c) /\ state' = [state EXCEPT ![c] = "running"] /\ UNCHANGED result
  \/ \E c \in Of(a) : MayRecord(c) /\ Store(c, stage[c])
  \/ \E c \in Of(a) : MaySkip(c) /\ Store(c, "skipped")

\* The task of a run is cancelled.  A second time it leaves the calls it was
\* resolving as they are; the end of a run is not cancelled, only its outcome.
Interrupt(a) ==
  \/ pc[a] \in {"recover", "loop", "run", "record", "skip"}
     /\ Abandon(a, "cancelled") /\ InFlight(a)
  \/ Drained(a) /\ stage' = AllOut(a) /\ Leave(a, "cancelled") /\ UNCHANGED <<ledger, threads>>
  \/ /\ pc[a] \in {"close", "finish"}
     /\ end' = [end EXCEPT ![a] = "cancelled"]
     /\ UNCHANGED <<pc, ledger, stage, failed, threads>>

\* SubagentManager.cancel, by cancel_agent and by the end of the parent's run.
Dismiss ==
  /\ status["child"] \in {"queued", "running"}
  /\ status' = [status EXCEPT !["child"] = "cancelling"]
  /\ IF pc["child"] = "off" THEN UNCHANGED <<run, ledger, stage, failed, threads>>
     ELSE Interrupt("child")
  /\ UNCHANGED <<plan, effects, stop, started, foreign, bounds>>

CancelAgent(c) ==
  /\ plan[c] = "cancel"
  /\ \/ stage[c] = "work" /\ Dismiss
     \/ stage[c] = "work" /\ (failed \/ status["child"] = "absent")
        /\ Moves(c, "error") /\ UNCHANGED <<effects, failed>>
     \/ stage[c] = "work" /\ ~failed /\ Over
        /\ Moves(c, "ok") /\ UNCHANGED <<effects, failed>>
     \/ stage[c] = "drain" /\ pc["child"] = "off"
        /\ Moves(c, "gone") /\ UNCHANGED <<effects, failed>>

\* The child's slot: a child to be stopped only stores its end.
MayTake ==
  /\ pc["child"] = "off" /\ status["child"] \in Active /\ ~failed
  /\ started \/ pc["parent"] = "close"
Take ==
  LET stops == status["child"] = "cancelling" \/ stop \/ pc["parent"] = "close" IN
  /\ MayTake
  /\ status' = [status EXCEPT !["child"] = IF stops THEN "cancelling" ELSE "running"]
  /\ pc' = [pc EXCEPT !["child"] = IF stops THEN "finish" ELSE "recover"]
  /\ end' = [end EXCEPT !["child"] = IF stops THEN "cancelled" ELSE "none"]
  /\ UNCHANGED <<plan, ledger, effects, stage, stop, manager, outside, bounds>>

\* The parent's run dismisses its child and waits for it before it ends.
Closing == pc["parent"] = "close" /\ Dismiss
\* Mutated form: a child that was dismissed is not waited for.
ClosedEarly ==
  /\ pc["parent"] = "close" /\ status["child"] \notin {"queued", "running"}
  /\ pc' = [pc EXCEPT !["parent"] = "finish"]
  /\ started' = FALSE
  /\ UNCHANGED <<plan, ledger, effects, status, end, stage, stop, failed, outside,
                 bounds>>
Closed ==
  /\ pc["parent"] = "close"
  /\ pc["child"] = "off" /\ (status["child"] \notin Active \/ failed)
  /\ pc' = [pc EXCEPT !["parent"] = "finish"]
  /\ \/ ~failed /\ end' = [end EXCEPT !["parent"] = IF stop THEN "cancelled" ELSE @]
     \* Without the child's end the run fails, unless its task was cancelled.
     \/ failed /\ end' = [end EXCEPT !["parent"] = "unrecoverable_error"]
     \/ failed /\ end["parent"] = "cancelled" /\ UNCHANGED end
  /\ started' = FALSE
  /\ UNCHANGED <<plan, ledger, effects, status, stage, stop, failed, outside,
                 bounds>>

\* The changes a successful parent reports are read under the barrier, which
\* may fail; a request to stop that comes before the outcome is stored may win.
Finish(a) ==
  /\ pc[a] = "finish"
  /\ \E o \in Outcomes :
       /\ \/ o = end[a]
          \/ a = "parent" /\ stop /\ o = "cancelled"
          \/ a = "parent" /\ end[a] = "success" /\ o = "unrecoverable_error"
       /\ a = "parent" /\ o = "success" =>
            ~foreign /\ \A c \in Calls : Exclusive(c) => c \notin Inside /\ stage[c] # "wait"
       /\ status' = [status EXCEPT ![a] = IF o = "success" THEN "completed" ELSE o]
  /\ pc' = [pc EXCEPT ![a] = "off"]
  /\ end' = [end EXCEPT ![a] = "none"]
  /\ stop' = (stop /\ a = "child")
  /\ UNCHANGED <<plan, ledger, effects, stage, manager, outside, bounds>>

-----------------------------------------------------------------------------
(* Requests and faults. *)

RequestCancel ==
  /\ pc["parent"] # "off" /\ ~stop
  /\ stop' = TRUE
  /\ UNCHANGED <<plan, ledger, effects, status, run, stage, manager, outside,
                 bounds>>

Resume ==
  /\ pc["parent"] = "off" /\ resumes < MaxResumes
  /\ resumes' = resumes + 1
  /\ pc' = [pc EXCEPT !["parent"] = "recover"]
  /\ failed' = FALSE
  /\ UNCHANGED <<plan, ledger, effects, status, end, stage, stop, started,
                 outside, faults>>

Fault == faults < MaxFaults /\ faults' = faults + 1 /\ UNCHANGED <<plan, resumes>>

\* The worker's task is cancelled, as when the service shuts down.  Where the
\* outcome is stored behind the last handler it may stay unstored.  A write or
\* finish_task in execution learns of it by the cancel event.
Shutdown ==
  /\ Fault
  /\ \/ /\ Interrupt("parent")
        /\ stop' = (stop \/ \E c \in Of("parent") : Exclusive(c) /\ stage[c] = "work")
     \/ /\ pc["parent"] = "finish"
        /\ pc' = [pc EXCEPT !["parent"] = "off"]
        /\ end' = [end EXCEPT !["parent"] = "none"]
        /\ stop' = FALSE
        /\ UNCHANGED <<ledger, stage, failed, threads>>
  /\ UNCHANGED <<effects, status, started, foreign>>

\* Storing a mark, a result or an outcome fails.
StoreFails(a) ==
  /\ Fault
  /\ \/ /\ pc[a] \in {"recover", "skip"} \/ \E c \in Of(a) : MayMark(c) \/ MayRecord(c)
        /\ Abandon(a, "unrecoverable_error") /\ UNCHANGED stop
     \/ /\ \E c \in Of(a) : MayUnmark(c)
        /\ stage' = AllOut(a) /\ Leave(a, "unrecoverable_error") /\ UNCHANGED <<stop, threads>>
     \/ /\ pc[a] = "finish" \/ (a = "child" /\ MayTake)
        /\ pc' = [pc EXCEPT ![a] = "off"]
        /\ end' = [end EXCEPT ![a] = "none"]
        /\ stop' = (stop /\ a = "child")
        /\ failed' = (failed \/ a = "child")
        /\ UNCHANGED <<stage, threads>>
  /\ UNCHANGED <<ledger, effects, status, started, foreign>>

\* The process dies; a write it was executing may have taken place.
Crash ==
  /\ Fault /\ pc["parent"] # "off"
  /\ \E W \in SUBSET {c \in Working : plan[c] = "write"} :
       effects' = [c \in Calls |-> IF c \in W THEN effects[c] + 1 ELSE effects[c]]
  /\ pc' = [a \in Agents |-> "off"]
  /\ end' = [a \in Agents |-> "none"]
  /\ stage' = [c \in Calls |-> "out"]
  /\ stop' = FALSE /\ started' = FALSE /\ failed' = FALSE
  /\ threads' = {}
  /\ UNCHANGED <<ledger, status, foreign>>

\* Another process holds the lock of the workspace for a while.
TakeAway ==
  /\ Fault /\ ~foreign /\ Working = {}
  /\ foreign' = TRUE
  /\ UNCHANGED <<ledger, effects, status, run, stage, stop, manager, threads>>
GiveBack ==
  /\ foreign
  /\ foreign' = FALSE
  /\ UNCHANGED <<plan, ledger, effects, status, run, stage, stop, manager, threads,
                 bounds>>

\* A thread nobody waits for comes to its end.
ThreadEnds(c) ==
  /\ c \in threads
  /\ threads' = threads \ {c}
  /\ UNCHANGED <<plan, ledger, effects, status, run, stage, stop, manager, foreign,
                 bounds>>

-----------------------------------------------------------------------------

Task(c) ==
  \/ Start(c) \/ Enter(c) \/ Lock(c)
  \/ Ends(c) \/ Writes(c) \/ Spawn(c) \/ Wait(c) \/ CancelAgent(c)
Batch(c) == Mark(c) \/ Record(c) \/ Skip(c) \/ Unmark(c)
Agent(a) ==
  \/ Recover(a) \/ Ask(a) \/ ModelFails(a) \/ Succeed(a)
  \/ StopSeen(a) \/ Abandoned(a) \/ Finish(a)
System ==
  \/ \E c \in Calls : Task(c) \/ Batch(c)
  \/ \E a \in Agents : Agent(a)
  \/ Take \/ Closing \/ Closed \/ GiveBack
Next ==
  \/ System
  \/ RequestCancel \/ Resume \/ Shutdown \/ Crash \/ TakeAway
  \/ \E c \in Calls : ThreadEnds(c)
  \/ \E a \in Agents : StoreFails(a)

Spec == Init /\ [][Next]_vars
\* The loop runs its tasks, models answer, tools end and locks are released.
LiveSpec == Spec /\ WF_vars(System)

-----------------------------------------------------------------------------

\* No write or finish_task shares the workspace with a call of either agent or
\* with another process, also while what a cancelled call has begun goes on.
\* One reader is excepted, which the barrier does not wait for: the thread of a
\* cancelled read_file, and of nothing else, may still read what the next write
\* changes.  What it reads is lost.
WorkspaceAlone ==
  /\ foreign => Working = {}
  /\ \A c, d \in Working \cup threads :
       ~Shared(c) /\ c # d => d \in threads \ Working /\ plan[d] = "read"

\* No write is executed twice, whatever cancellations, failures, crashes and
\* resumed runs lie between: an uncertain one blocks the session instead.
MutatedOnce == \A c \in Calls : effects[c] <= 1

\* A recorded result says what happened: a successful write has taken place, a
\* skipped one has not, and a completed session has a result for every call,
\* one of them that of its finish_task.
ResultsAreTrue ==
  /\ \A c \in Calls :
       /\ plan[c] = "write" /\ result[c] = "ok" => effects[c] = 1
       /\ result[c] = "skipped" => effects[c] = 0
  /\ \A a \in Agents : status[a] = "completed" => Finals(a) # {} /\ Open(a) = {}

\* The end of a parent's run leaves no run or task of its child, though perhaps
\* the thread of a cancelled read, and unless a fault occurred no child that is
\* still to run.
NoOrphans ==
  pc["parent"] = "off" =>
    /\ pc["child"] = "off" /\ \A c \in Calls : stage[c] = "out"
    /\ faults = 0 => status["child"] \notin Active

\* Every run ends: neither the barrier nor a child its parent waits for, under
\* whatever cancellation, leaves everyone waiting.
RunEnds == pc["parent"] # "off" ~> pc["parent"] = "off"
=============================================================================

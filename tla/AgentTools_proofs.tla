-------------------------- MODULE AgentTools_proofs --------------------------
(***************************************************************************)
(* Proofs about AgentTools, for every bound and all plans.                 *)
(*                                                                         *)
(* First the types, the inductive invariant and the safety properties;     *)
(* then what the end of every run rests on: no step can be taken for ever, *)
(* and while a run is not over somebody can take one.                      *)
(***************************************************************************)
EXTENDS AgentTools, WellFoundedInduction, TLAPS

\* A call is a place in the session of an agent.
LEMMA CallParts ==
  \A c \in Calls : c[1] \in Agents /\ c[2] \in Nat /\ c = <<c[1], c[2]>>
  BY BoundsAssumption DEF Calls

\* Results and states after a store.
LEMMA Stored ==
  ASSUME TypeOK, NEW c \in Calls, NEW r \in {"ok", "error", "skipped"}, Store(c, r)
  PROVE  /\ state' \in [Calls -> States]
         /\ result' \in [Calls -> {"none", "ok", "error", "skipped"}]
         /\ result'[c] = r /\ state'[c] \in {"completed", "failed", "cancelled"}
         /\ \A d \in Calls \ {c} : result'[d] = result[d] /\ state'[d] = state[d]
  BY DEF Store, TypeOK, States

\* What the store of a task that is cancelled may have left.
LEMMA Committed ==
  ASSUME TypeOK, NEW a \in Agents, InFlight(a)
  PROVE  /\ state' \in [Calls -> States]
         /\ result' \in [Calls -> {"none", "ok", "error", "skipped"}]
         /\ \/ UNCHANGED ledger
            \/ \E c \in Of(a) :
                 /\ MayMark(c) /\ state' = [state EXCEPT ![c] = "running"] /\ UNCHANGED result
            \/ \E c \in Of(a) : MayRecord(c) /\ stage[c] \in {"ok", "error"} /\ Store(c, stage[c])
            \/ \E c \in Of(a) : MaySkip(c) /\ Store(c, "skipped")
<1>1. CASE UNCHANGED ledger
  BY <1>1 DEF ledger, TypeOK
<1>2. ASSUME NEW c \in Of(a), MayMark(c), state' = [state EXCEPT ![c] = "running"], UNCHANGED result
      PROVE  state' \in [Calls -> States] /\ result' \in [Calls -> {"none", "ok", "error", "skipped"}]
  BY <1>2 DEF TypeOK, States, Of
<1>3. ASSUME NEW c \in Of(a), MayRecord(c)
      PROVE  c \in Calls /\ stage[c] \in {"ok", "error"}
  BY <1>3 DEF Of, MayRecord, First, In
<1>4. ASSUME NEW c \in Of(a) PROVE c \in Calls
  BY DEF Of
<1> QED BY <1>1, <1>2, <1>3, <1>4, Stored DEF InFlight

\* What the parts of an abandoned and of a cancelled run leave.
LEMMA AbandonTyped ==
  ASSUME TypeOK, NEW a \in Agents, NEW o \in Outcomes, Abandon(a, o)
  PROVE  /\ pc' = [pc EXCEPT ![a] = "abort"] /\ end' = [end EXCEPT ![a] = o]
         /\ stage' \in [Calls -> Stages] /\ failed' = failed /\ threads' \subseteq Calls
         /\ \A c \in Calls : c[1] = a => stage'[c] = Dropped(c)
         /\ \A c \in Calls : c[1] # a => stage'[c] = stage[c]
<1>1. \A c \in Calls : Dropped(c) \in Stages
  BY DEF Dropped, TypeOK, Stages
<1> QED BY <1>1 DEF Abandon, LeftBehind, TypeOK, Of, Stages

\* What leaving the loop with an outcome sets.
LEMMA LeaveTyped ==
  ASSUME TypeOK, NEW a \in Agents, NEW o \in Outcomes, Leave(a, o)
  PROVE  /\ pc' = [pc EXCEPT ![a] = IF a = "parent" THEN "close" ELSE "finish"]
         /\ end' = [end EXCEPT ![a] = o]
         /\ failed' \in BOOLEAN /\ (failed' => failed)
  BY DEF Leave, TypeOK

\* Taking all calls of an agent out leaves those of the other.
LEMMA AllOutTyped ==
  ASSUME TypeOK, NEW a \in Agents, stage' = AllOut(a)
  PROVE  /\ stage' \in [Calls -> Stages]
         /\ \A c \in Calls : c[1] = a => stage'[c] = "out"
         /\ \A c \in Calls : c[1] # a => stage'[c] = stage[c]
  BY DEF AllOut, TypeOK, Stages, Of

\* What a cancellation of a run sets, wherever it strikes.
LEMMA InterruptTyped ==
  ASSUME TypeOK, NEW a \in Agents, Interrupt(a)
  PROVE  /\ pc' \in [Agents -> {"off", "recover", "skip", "loop", "run", "record",
                                "abort", "close", "finish"}]
         /\ end' \in [Agents -> Outcomes \cup {"none"}]
         /\ \A b \in Agents : pc'[b] \in {"abort", "close", "finish"} => end'[b] # "none"
         /\ stage' \in [Calls -> Stages] /\ failed' \in BOOLEAN
         /\ state' \in [Calls -> States]
         /\ result' \in [Calls -> {"none", "ok", "error", "skipped"}]
         /\ threads' \subseteq Calls
<1> "cancelled" \in Outcomes
  BY DEF Outcomes
<1>1. CASE Abandon(a, "cancelled") /\ InFlight(a)
  BY <1>1, AbandonTyped, Committed DEF TypeOK
<1>2. CASE stage' = AllOut(a) /\ Leave(a, "cancelled") /\ UNCHANGED <<ledger, threads>>
  BY <1>2, AllOutTyped, LeaveTyped DEF TypeOK, ledger
<1>3. CASE end' = [end EXCEPT ![a] = "cancelled"] /\ UNCHANGED <<pc, ledger, stage, failed, threads>>
  BY <1>3 DEF TypeOK, ledger
<1> QED BY <1>1, <1>2, <1>3 DEF Interrupt

\* Every step of the runs and their calls keeps the types.
LEMMA TypeStep == ASSUME TypeOK, [Next]_vars PROVE TypeOK'
<1> USE DEF ledger, run, manager, outside, bounds
<1>1. ASSUME NEW a \in Agents, Recover(a) PROVE TypeOK'
  <2>1. "blocked" \in Outcomes
    BY DEF Outcomes
  <2>2. CASE Leave(a, "blocked") /\ UNCHANGED started
    BY <1>1, <2>1, <2>2, LeaveTyped DEF TypeOK, Recover
  <2>3. CASE ~Blocked(a)
    BY <1>1, <2>3 DEF TypeOK, Recover, Leave, Outcomes
  <2> QED BY <1>1, <2>2, <2>3 DEF Recover
<1>2. ASSUME NEW a \in Agents, Ask(a) PROVE TypeOK'
  BY <1>2 DEF TypeOK, Ask, States
<1>3. ASSUME NEW a \in Agents, NEW o \in Outcomes, Leave(a, o),
             UNCHANGED <<plan, ledger, effects, status, stage, stop, started, outside, bounds>>
      PROVE  TypeOK'
  BY <1>3, LeaveTyped DEF TypeOK, Outcomes
<1>4. ASSUME NEW a \in Agents, ModelFails(a) \/ Succeed(a) PROVE TypeOK'
  BY <1>3, <1>4 DEF ModelFails, Succeed, Outcomes
<1>5. ASSUME NEW c \in Calls, Mark(c) PROVE TypeOK'
  BY <1>5, CallParts DEF TypeOK, Mark, States, Stages
<1>6. ASSUME NEW c \in Calls, Record(c) PROVE TypeOK'
  <2>1. stage[c] \in {"ok", "error"}
    BY <1>6 DEF Record, MayRecord, First, In
  <2>2. stage' \in [Calls -> Stages]
    BY <1>6 DEF Record, AllOut, TypeOK, Stages
  <2>3. pc' \in [Agents -> {"off", "recover", "skip", "loop", "run", "record",
                             "abort", "close", "finish"}]
    BY <1>6, CallParts DEF Record, TypeOK
  <2> QED BY <1>6, <2>1, <2>2, <2>3, Stored DEF Record, TypeOK
<1>7. ASSUME NEW c \in Calls, Skip(c) PROVE TypeOK'
  BY <1>7, Stored DEF Skip, TypeOK
<1>8. ASSUME NEW a \in Agents, StopSeen(a) PROVE TypeOK'
  BY <1>8, AbandonTyped DEF StopSeen, TypeOK, Outcomes
<1>9. ASSUME NEW c \in Calls, Unmark(c) PROVE TypeOK'
  BY <1>9 DEF Unmark, TypeOK, States, Stages
<1>10. ASSUME NEW a \in Agents, Abandoned(a) PROVE TypeOK'
  <2>1. end[a] \in Outcomes
    BY <1>10 DEF Abandoned, Drained, TypeOK, Outcomes
  <2> QED BY <1>10, <2>1, AllOutTyped, LeaveTyped DEF Abandoned, TypeOK, Outcomes
<1>11. ASSUME NEW c \in Calls, NEW s \in Stages, Moves(c, s), effects' \in [Calls -> Nat],
              failed' \in BOOLEAN
       PROVE  TypeOK'
  BY <1>11 DEF Moves, TypeOK
<1>12. ASSUME NEW c \in Calls,
              Start(c) \/ Enter(c) \/ Lock(c) \/ Ends(c) \/ Writes(c) \/ Spawn(c) \/ Wait(c)
       PROVE  TypeOK'
  <2>1. effects \in [Calls -> Nat] /\ failed \in BOOLEAN
    BY DEF TypeOK
  <2>2. {"wait", "gone", "work", "lock", "ok", "error"} \subseteq Stages
    BY DEF Stages
  <2>3. CASE Start(c)
    BY <1>11, <2>1, <2>2, <2>3 DEF Start
  <2>4. CASE Enter(c) \/ Lock(c) \/ Ends(c) \/ Wait(c)
    BY <1>11, <2>1, <2>2, <2>4 DEF Enter, Lock, Ends, Wait
  <2>5. CASE Writes(c)
    BY <1>11, <2>1, <2>2, <2>5 DEF Writes
  <2>6. CASE Spawn(c)
    BY <2>6 DEF Spawn, TypeOK, Stages, Active, Agents
  <2> QED BY <1>12, <2>3, <2>4, <2>5, <2>6
<1>13. ASSUME Dismiss PROVE TypeOK'
  <2>1. "child" \in Agents /\ "cancelling" \in Active
    BY DEF Agents, Active
  <2>2. status' \in [Agents -> {"absent", "completed"} \cup Active \cup (Outcomes \ {"success"})]
    BY <1>13, <2>1 DEF Dismiss, TypeOK
  <2>3. CASE pc["child"] = "off"
    BY <1>13, <2>2, <2>3 DEF Dismiss, TypeOK
  <2>4. CASE pc["child"] # "off"
    BY <1>13, <2>1, <2>2, <2>4, InterruptTyped DEF Dismiss, TypeOK
  <2> QED BY <2>3, <2>4
<1>14. ASSUME NEW c \in Calls, CancelAgent(c) PROVE TypeOK'
  <2>1. effects \in [Calls -> Nat] /\ failed \in BOOLEAN
    BY DEF TypeOK
  <2>2. {"gone", "ok", "error"} \subseteq Stages
    BY DEF Stages
  <2> QED BY <1>11, <1>13, <1>14, <2>1, <2>2 DEF CancelAgent
<1>15. CASE Take
  BY <1>15 DEF Take, TypeOK, Active, Outcomes
<1>16. CASE Closed
  <2>1. "cancelled" \in Outcomes /\ "unrecoverable_error" \in Outcomes /\ "none" \notin Outcomes
    BY DEF Outcomes
  <2>2. PICK o \in Outcomes \cup {end["parent"]} : end' = [end EXCEPT !["parent"] = o]
    BY <1>16, <2>1 DEF Closed, TypeOK
  <2>3. o # "none" /\ o \in Outcomes \cup {"none"}
    BY <1>16, <2>1 DEF Closed, TypeOK, Agents
  <2>4. \A a \in Agents : pc'[a] \in {"abort", "close", "finish"} => end'[a] # "none"
    BY <1>16, <2>2, <2>3 DEF Closed, TypeOK
  <2> QED BY <1>16, <2>2, <2>3, <2>4 DEF Closed, TypeOK
<1>17. ASSUME NEW a \in Agents, Finish(a) PROVE TypeOK'
  BY <1>17 DEF Finish, TypeOK, Outcomes
<1>18. CASE GiveBack \/ RequestCancel \/ Resume
  <2>1. CASE GiveBack \/ RequestCancel
    BY <1>18, <2>1 DEF GiveBack, RequestCancel, TypeOK
  <2>2. CASE Resume
    <3>1. resumes' \in 0..MaxResumes
      BY <2>2, BoundsAssumption DEF Resume, TypeOK
    <3> QED BY <2>2, <3>1 DEF Resume, TypeOK
  <2> QED BY <1>18, <2>1, <2>2
<1>19. ASSUME Fault PROVE faults' \in 0..MaxFaults /\ plan' \in Plans /\ resumes' \in 0..MaxResumes
  BY <1>19, BoundsAssumption DEF Fault, TypeOK
<1>20. CASE Shutdown
  <2>1. CASE /\ Interrupt("parent")
             /\ stop' = (stop \/ \E c \in Of("parent") : Exclusive(c) /\ stage[c] = "work")
    <3>1. stop' \in BOOLEAN
      BY <2>1
    <3> QED BY <1>19, <1>20, <2>1, <3>1, InterruptTyped DEF Shutdown, TypeOK, Agents
  <2>2. CASE /\ pc' = [pc EXCEPT !["parent"] = "off"]
             /\ end' = [end EXCEPT !["parent"] = "none"]
             /\ stop' = FALSE
             /\ UNCHANGED <<ledger, stage, failed, threads>>
    BY <1>19, <1>20, <2>2 DEF Shutdown, TypeOK, Agents
  <2> QED BY <1>20, <2>1, <2>2 DEF Shutdown
<1>21. ASSUME NEW a \in Agents, StoreFails(a) PROVE TypeOK'
  <2>1. "unrecoverable_error" \in Outcomes
    BY DEF Outcomes
  <2>2. CASE Abandon(a, "unrecoverable_error") /\ UNCHANGED stop
    BY <1>19, <1>21, <2>1, <2>2, AbandonTyped DEF StoreFails, TypeOK
  <2>3. CASE stage' = AllOut(a) /\ Leave(a, "unrecoverable_error") /\ UNCHANGED <<stop, threads>>
    BY <1>19, <1>21, <2>1, <2>3, AllOutTyped, LeaveTyped DEF StoreFails, TypeOK
  <2>4. CASE /\ pc' = [pc EXCEPT ![a] = "off"]
             /\ end' = [end EXCEPT ![a] = "none"]
             /\ stop' = (stop /\ a = "child")
             /\ failed' = (failed \/ a = "child")
             /\ UNCHANGED <<stage, threads>>
    BY <1>19, <1>21, <2>4 DEF StoreFails, TypeOK
  <2> QED BY <1>21, <2>2, <2>3, <2>4 DEF StoreFails
<1>22. CASE Crash
  <2>1. effects' \in [Calls -> Nat]
    BY <1>22 DEF Crash, TypeOK
  <2>2. pc' = [a \in Agents |-> "off"] /\ end' = [a \in Agents |-> "none"] /\ stage' = [c \in Calls |-> "out"]
    BY <1>22 DEF Crash
  <2>3. /\ pc' \in [Agents -> {"off", "recover", "skip", "loop", "run", "record",
                                "abort", "close", "finish"}]
        /\ end' \in [Agents -> Outcomes \cup {"none"}] /\ stage' \in [Calls -> Stages]
        /\ \A a \in Agents : pc'[a] \in {"abort", "close", "finish"} => end'[a] # "none"
    BY <2>2 DEF Stages
  <2> QED BY <1>19, <1>22, <2>1, <2>3 DEF Crash, TypeOK
<1>23. CASE TakeAway
  BY <1>19, <1>23 DEF TakeAway, TypeOK
<1>24. CASE UNCHANGED vars \/ \E c \in Calls : ThreadEnds(c)
  BY <1>24 DEF vars, ThreadEnds, TypeOK
<1> QED
  BY <1>1, <1>2, <1>4, <1>5, <1>6, <1>7, <1>8, <1>9, <1>10, <1>12, <1>13, <1>14, <1>15,
     <1>16, <1>17, <1>18, <1>20, <1>21, <1>22, <1>23, <1>24
     DEF Next, System, Task, Batch, Agent, Closing

\* The types hold before the first run.
LEMMA TypeInit == Init => TypeOK
<1> SUFFICES ASSUME Init PROVE TypeOK
  OBVIOUS
<1>1. faults \in 0..MaxFaults /\ resumes \in 0..MaxResumes
  BY BoundsAssumption DEF Init
<1>2. /\ state \in [Calls -> States] /\ stage \in [Calls -> Stages]
      /\ result \in [Calls -> {"none", "ok", "error", "skipped"}] /\ effects \in [Calls -> Nat]
  BY DEF Init, States, Stages
<1>3. /\ status \in [Agents -> {"absent", "completed"} \cup Active \cup (Outcomes \ {"success"})]
      /\ end \in [Agents -> Outcomes \cup {"none"}]
  BY DEF Init, Active
<1>4. pc \in [Agents -> {"off", "recover", "skip", "loop", "run", "record", "abort", "close", "finish"}]
  BY DEF Init
<1> QED BY <1>1, <1>2, <1>3, <1>4 DEF Init, TypeOK

\* States, stages and outcomes stay within their sets in every order of tasks,
\* cancellations, failures and crashes.
THEOREM TypeCorrect == Spec => []TypeOK
  BY TypeInit, TypeStep, PTL DEF Spec

-----------------------------------------------------------------------------
(* The inductive invariants. *)

\* Where the run is whose batch a task belongs to.
Placed ==
  \A c \in Calls :
    /\ stage[c] = "marked" => pc[c[1]] \in {"loop", "abort"}
    /\ stage[c] \in {"due", "wait", "lock", "work"} => pc[c[1]] = "run"
    /\ stage[c] \in {"ok", "error"} => pc[c[1]] \in {"run", "record", "abort"}
    /\ stage[c] = "gone" => pc[c[1]] \in {"run", "abort"}
    /\ stage[c] = "kept" => pc[c[1]] \in {"record", "abort"}
    /\ stage[c] = "drain" => pc[c[1]] = "abort"

\* What the ledger and the tasks say of the changes of the workspace: before a
\* write runs it is marked and has changed nothing, and outside of its batch
\* only a write that was never marked may run.
Account(c) ==
  /\ effects[c] <= 1
  /\ plan[c] # "write" => effects[c] = 0
  /\ state[c] \in {"absent", "pending"} => effects[c] = 0 /\ stage[c] = "out"
  /\ stage[c] \in {"marked", "due", "wait", "lock", "work", "drain"} =>
       effects[c] = 0 /\ result[c] = "none"
  /\ stage[c] \in {"ok", "error"} /\ pc[c[1]] # "abort" => result[c] = "none"
  /\ stage[c] = "kept" => result[c] # "none"
  /\ plan[c] = "write" /\ result[c] = "none" /\ stage[c] = "out"
       /\ pc[c[1]] \in {"loop", "run", "record", "skip"} =>
         state[c] \in {"absent", "pending"}
  /\ plan[c] = "write" /\ (stage[c] = "ok" \/ result[c] = "ok") => effects[c] = 1
  /\ result[c] = "skipped" => effects[c] = 0
Accounted == \A c \in Calls : Account(c)

\* A batch is one call or reads and searches only, and a run has a successful finish_task
\* exactly from the step on that skips the rest.
Session(a) ==
  /\ pc[a] = "skip" => Finals(a) # {}
  /\ pc[a] \in {"loop", "run", "record"} => Finals(a) = {}
  /\ end[a] = "success" => pc[a] \in {"close", "finish"}
  /\ end[a] = "success" \/ status[a] = "completed" => Finals(a) # {} /\ Open(a) = {}
  /\ \A c \in Of(a) : pc[a] = "loop" /\ stage[c] = "marked" => c \in Group(a)
  /\ \A c, d \in Of(a) :
       stage[c] # "out" /\ stage[d] # "out" /\ ~Shared(c) => c = d
Sessions == \A a \in Agents : Session(a)

\* The barrier: an exclusive call is alone inside.
Barrier ==
  /\ foreign => Working = {}
  /\ \A c, d \in Inside : Exclusive(c) => c = d

\* The child runs within the run of its parent, and only a fault leaves it to
\* be run again.
Nested ==
  /\ pc["child"] # "off" \/ started => pc["parent"] \notin {"off", "finish"}
  /\ failed => faults > 0
  /\ pc["parent"] \in {"off", "finish"} /\ faults = 0 => status["child"] \notin Active

\* Only a read_file is left behind: all else is waited for inside the barrier.
Readers == \A c \in threads : plan[c] = "read"

IInv == TypeOK /\ Placed /\ Accounted /\ Sessions /\ Barrier /\ Readers /\ Nested

\* What becomes of the tasks of an abandoned batch.
LEMMA AbandonStages ==
  ASSUME TypeOK, NEW a \in Agents, NEW o \in Outcomes, Abandon(a, o), NEW c \in Calls
  PROVE  /\ c[1] # a \/ stage[c] \notin {"due", "wait", "lock", "work"} => stage'[c] = stage[c]
         /\ c[1] = a /\ stage[c] \in {"due", "wait", "lock"} => stage'[c] = "gone"
         /\ c[1] = a /\ stage[c] = "work" => stage'[c] \in {"gone", "drain"}
         /\ c[1] = a /\ stage[c] = "work" /\ Exclusive(c) => stage'[c] = "drain"
  BY AbandonTyped DEF Dropped, Drains

\* The three ways in which a task's cancellation meets a run.
LEMMA Interrupted ==
  ASSUME NEW a \in Agents, Interrupt(a), NEW P,
         Abandon(a, "cancelled") /\ InFlight(a) => P,
         Drained(a) /\ stage' = AllOut(a) /\ Leave(a, "cancelled") /\ UNCHANGED <<ledger, threads>> => P,
         pc[a] \in {"close", "finish"} /\ end' = [end EXCEPT ![a] = "cancelled"]
           /\ UNCHANGED <<pc, ledger, stage, failed, threads>> => P
  PROVE  P
  BY DEF Interrupt

\* A run that is abandoned in one way or another keeps its tasks in place.
LEMMA PlacedAbandon ==
  ASSUME IInv, NEW a \in Agents, NEW o \in Outcomes, Abandon(a, o)
  PROVE  Placed'
<1> SUFFICES ASSUME NEW c \in Calls
             PROVE  /\ stage'[c] = "marked" => pc'[c[1]] \in {"loop", "abort"}
                    /\ stage'[c] \in {"due", "wait", "lock", "work"} => pc'[c[1]] = "run"
                    /\ stage'[c] \in {"ok", "error"} => pc'[c[1]] \in {"run", "record", "abort"}
                    /\ stage'[c] = "gone" => pc'[c[1]] \in {"run", "abort"}
                    /\ stage'[c] = "kept" => pc'[c[1]] \in {"record", "abort"}
                    /\ stage'[c] = "drain" => pc'[c[1]] = "abort"
  BY DEF Placed
<1>1. c[1] \in Agents
  BY CallParts
<1> QED BY <1>1, AbandonStages, AbandonTyped DEF IInv, Placed, TypeOK

\* A run that ends its batch leaves each call where its run is.
LEMMA PlacedAllOut ==
  ASSUME IInv, NEW a \in Agents, stage' = AllOut(a),
         \A b \in Agents \ {a} : pc'[b] = pc[b]
  PROVE  Placed'
<1> SUFFICES ASSUME NEW c \in Calls
             PROVE  /\ stage'[c] = "marked" => pc'[c[1]] \in {"loop", "abort"}
                    /\ stage'[c] \in {"due", "wait", "lock", "work"} => pc'[c[1]] = "run"
                    /\ stage'[c] \in {"ok", "error"} => pc'[c[1]] \in {"run", "record", "abort"}
                    /\ stage'[c] = "gone" => pc'[c[1]] \in {"run", "abort"}
                    /\ stage'[c] = "kept" => pc'[c[1]] \in {"record", "abort"}
                    /\ stage'[c] = "drain" => pc'[c[1]] = "abort"
  BY DEF Placed
<1>1. c[1] \in Agents
  BY CallParts
<1> QED BY <1>1, AllOutTyped DEF IInv, Placed

\* Where an agent without a task goes does not matter.
LEMMA PlacedIdle ==
  ASSUME IInv, NEW a \in Agents, stage' = stage, \A b \in Agents \ {a} : pc'[b] = pc[b],
         pc[a] \notin {"loop", "run", "record", "abort"} \/ pc'[a] = pc[a] \/ \A c \in Of(a) : stage[c] = "out"
  PROVE  Placed'
  BY CallParts DEF IInv, Placed, Of

\* Without marked calls an agent between two batches has no tasks.
LEMMA NoTasks ==
  ASSUME IInv, NEW a \in Agents, Open(a) = {}, pc[a] \in {"loop", "skip"}
  PROVE  \A c \in Of(a) : stage[c] = "out"
<1> SUFFICES ASSUME NEW c \in Of(a), stage[c] # "out" PROVE FALSE
  OBVIOUS
<1>1. c \in Calls /\ c[1] = a
  BY DEF Of
<1>2. stage[c] \in Stages
  BY <1>1 DEF IInv, TypeOK
<1>3. stage[c] = "marked"
  BY <1>1, <1>2 DEF IInv, Placed, Stages
<1>4. result[c] = "none" /\ state[c] # "absent"
  BY <1>1, <1>3 DEF IInv, Accounted, Account
<1> QED BY <1>1, <1>4 DEF Open, Asked

\* Every step keeps a call's task within the part of the run it belongs to.
LEMMA PlacedStep == ASSUME IInv, [Next]_vars PROVE Placed'
<1> USE DEF ledger, run, manager, outside, bounds
<1> TypeOK
  BY DEF IInv
<1>1. ASSUME NEW a \in Agents, Recover(a) \/ Ask(a) \/ ModelFails(a) \/ Succeed(a) \/ Finish(a) PROVE Placed'
  <2>1. stage' = stage /\ \A b \in Agents \ {a} : pc'[b] = pc[b]
    BY <1>1 DEF Recover, Ask, ModelFails, Succeed, Finish, Leave, TypeOK
  <2>2. pc[a] \in {"recover", "finish"} \/ pc'[a] = pc[a] \/ (pc[a] \in {"loop", "skip"} /\ Open(a) = {})
    BY <1>1 DEF Recover, Ask, ModelFails, Succeed, Finish
  <2> QED BY <2>1, <2>2, PlacedIdle, NoTasks
<1>2. ASSUME NEW c \in Calls, Mark(c) PROVE Placed'
  <2> DEFINE a == c[1]
  <2>1. a \in Agents /\ pc[a] = "loop"
    BY <1>2, CallParts DEF Mark, MayMark
  <2>2. \A d \in Of(a) : stage[d] \in {"out", "marked"}
    BY <2>1 DEF IInv, Placed, TypeOK, Stages, Of
  <2>3. CASE \A d \in Group(a) \ {c} : stage[d] = "marked"
    <3>1. /\ pc' = [pc EXCEPT ![a] = "run"]
          /\ \A d \in Calls : stage'[d] = IF d \in Group(a) THEN "due" ELSE IF d = c THEN "marked" ELSE stage[d]
      BY <1>2, <2>3 DEF Mark
    <3>2. \A d \in Of(a) : stage[d] = "marked" => d \in Group(a)
      BY <2>1 DEF IInv, Sessions, Session
    <3>3. c \in Group(a) /\ Group(a) \subseteq Of(a)
      BY <1>2 DEF Mark, MayMark, First, Group, Open, Asked
    <3> QED BY <2>1, <2>2, <3>1, <3>2, <3>3, CallParts DEF IInv, Placed, TypeOK, Of
  <2>4. CASE ~\A d \in Group(a) \ {c} : stage[d] = "marked"
    BY <1>2, <2>1, <2>4 DEF Mark, IInv, Placed, TypeOK
  <2> QED BY <2>3, <2>4
<1>3. ASSUME NEW c \in Calls, Record(c) PROVE Placed'
  <2> DEFINE a == c[1]
  <2>1. a \in Agents /\ pc[a] \in {"run", "record"} /\ c \in Of(a)
    BY <1>3, CallParts DEF Record, MayRecord, Of
  <2>2. CASE In(a, {"ok", "error"}) = {c}
    <3>1. stage' = AllOut(a) /\ \A b \in Agents \ {a} : pc'[b] = pc[b]
      BY <1>3, <2>2 DEF Record, TypeOK
    <3> QED BY <2>1, <3>1, PlacedAllOut
  <2>3. CASE In(a, {"ok", "error"}) # {c}
    <3>1. stage' = [stage EXCEPT ![c] = "kept"] /\ pc' = [pc EXCEPT ![a] = "record"]
      BY <1>3, <2>3 DEF Record
    <3>2. \A d \in Of(a) : stage[d] \in {"out", "ok", "error", "kept"}
      BY <1>3 DEF Record, MayRecord
    <3> QED BY <2>1, <3>1, <3>2, CallParts DEF IInv, Placed, TypeOK, Of
  <2> QED BY <2>2, <2>3
<1>4. ASSUME NEW c \in Calls, Skip(c) PROVE Placed'
  BY <1>4 DEF Skip, IInv, Placed
<1>5. ASSUME NEW a \in Agents, StopSeen(a) PROVE Placed'
  BY <1>5, PlacedAbandon DEF StopSeen, Outcomes
<1>6. ASSUME NEW c \in Calls, Unmark(c) PROVE Placed'
  BY <1>6 DEF Unmark, IInv, Placed, TypeOK
<1>7. ASSUME NEW a \in Agents, Abandoned(a) PROVE Placed'
  <2>1. \A b \in Agents \ {a} : pc'[b] = pc[b]
    BY <1>7 DEF Abandoned, Leave, TypeOK
  <2> QED BY <1>7, <2>1, PlacedAllOut DEF Abandoned
<1>8. ASSUME NEW c \in Calls,
             Start(c) \/ Enter(c) \/ Lock(c) \/ Ends(c) \/ Writes(c) \/ Spawn(c) \/ Wait(c)
      PROVE  Placed'
  <2>1. c[1] \in Agents
    BY CallParts
  <2>2. CASE Start(c)
    BY <2>1, <2>2 DEF Start, Moves, IInv, Placed, TypeOK
  <2>3. CASE Enter(c)
    BY <2>1, <2>3 DEF Enter, MayEnter, Moves, IInv, Placed, TypeOK
  <2>4. CASE Lock(c) \/ Wait(c)
    BY <2>1, <2>4 DEF Lock, Wait, Moves, IInv, Placed, TypeOK
  <2>5. CASE Ends(c)
    BY <2>1, <2>5 DEF Ends, Moves, IInv, Placed, TypeOK
  <2>6. CASE Writes(c)
    BY <2>1, <2>6 DEF Writes, Moves, IInv, Placed, TypeOK
  <2>7. CASE Spawn(c)
    BY <2>1, <2>7 DEF Spawn, IInv, Placed, TypeOK
  <2> QED BY <1>8, <2>2, <2>3, <2>4, <2>5, <2>6, <2>7
<1>9. ASSUME NEW a \in Agents, Interrupt(a) PROVE Placed'
  <2>1. Abandon(a, "cancelled") /\ InFlight(a) => Placed'
    BY PlacedAbandon DEF Outcomes
  <2>2. Drained(a) /\ stage' = AllOut(a) /\ Leave(a, "cancelled") /\ UNCHANGED <<ledger, threads>> => Placed'
    BY PlacedAllOut DEF Leave, TypeOK
  <2>3. UNCHANGED <<pc, ledger, stage, failed, threads>> => Placed'
    BY DEF IInv, Placed
  <2> QED BY <1>9, <2>1, <2>2, <2>3, Interrupted
<1>10. ASSUME Dismiss PROVE Placed'
  BY <1>9, <1>10 DEF Dismiss, IInv, Placed, Agents
<1>11. ASSUME NEW c \in Calls, CancelAgent(c) PROVE Placed'
  <2>1. CASE Dismiss
    BY <1>10, <2>1
  <2>2. CASE (stage[c] = "work" /\ (Moves(c, "error") \/ Moves(c, "ok"))) \/ (stage[c] = "drain" /\ Moves(c, "gone"))
    BY <2>2, CallParts DEF Moves, IInv, Placed, TypeOK
  <2> QED BY <1>11, <2>1, <2>2 DEF CancelAgent
<1>12. ASSUME Take \/ Closed \/ Resume PROVE Placed'
  <2>1. PICK a \in Agents : /\ stage' = stage /\ pc[a] \in {"off", "close"}
                             /\ \A b \in Agents \ {a} : pc'[b] = pc[b]
    BY <1>12 DEF Take, MayTake, Closed, Resume, TypeOK, Agents
  <2> QED BY <2>1, PlacedIdle
<1>13. CASE GiveBack \/ RequestCancel \/ TakeAway \/ UNCHANGED vars \/ \E c \in Calls : ThreadEnds(c)
  BY <1>13 DEF GiveBack, RequestCancel, TakeAway, ThreadEnds, vars, IInv, Placed
<1>14. CASE Shutdown
  <2>1. CASE Interrupt("parent")
    BY <1>9, <2>1 DEF Agents
  <2>2. CASE pc["parent"] = "finish" /\ stage' = stage /\ pc' = [pc EXCEPT !["parent"] = "off"]
    BY <2>2, PlacedIdle DEF Agents, TypeOK
  <2> QED BY <1>14, <2>1, <2>2 DEF Shutdown
<1>15. ASSUME NEW a \in Agents, StoreFails(a) PROVE Placed'
  <2>1. CASE Abandon(a, "unrecoverable_error")
    BY <2>1, PlacedAbandon DEF Outcomes
  <2>2. CASE stage' = AllOut(a) /\ Leave(a, "unrecoverable_error")
    BY <2>2, PlacedAllOut DEF Leave, TypeOK
  <2>3. CASE /\ pc[a] = "finish" \/ (a = "child" /\ MayTake)
             /\ pc' = [pc EXCEPT ![a] = "off"] /\ UNCHANGED stage
    BY <2>3, PlacedIdle DEF MayTake, TypeOK
  <2> QED BY <1>15, <2>1, <2>2, <2>3 DEF StoreFails
<1>16. CASE Crash
  BY <1>16 DEF Crash, Placed
<1> QED
  BY <1>1, <1>2, <1>3, <1>4, <1>5, <1>6, <1>7, <1>8, <1>10, <1>11, <1>12, <1>13, <1>14,
     <1>15, <1>16 DEF Next, System, Task, Batch, Agent, Closing

-----------------------------------------------------------------------------
(* The barrier. *)

\* Nothing comes inside the barrier and no work is begun.
LEMMA BarrierShrinks ==
  ASSUME Barrier, plan' = plan, foreign' => foreign,
         \A c \in Calls : Locks(c) /\ stage'[c] \in {"lock", "work", "drain"} =>
           \/ stage'[c] = stage[c]
           \/ stage[c] \in {"work", "drain"}
  PROVE  Barrier'
<1>1. Inside' \subseteq Inside /\ Working' \subseteq Working
  BY DEF Inside, Working, Locks, Shared, Exclusive
<1>2. \A c \in Calls : Exclusive(c)' <=> Exclusive(c)
  BY DEF Exclusive
<1>3. Inside \subseteq Calls
  BY DEF Inside
<1> QED BY <1>1, <1>2, <1>3 DEF Barrier

\* A cancelled batch lets nobody new in.
LEMMA BarrierAbandon ==
  ASSUME IInv, NEW a \in Agents, NEW o \in Outcomes, Abandon(a, o), plan' = plan, foreign' = foreign
  PROVE  Barrier'
<1>1. ASSUME NEW c \in Calls, stage'[c] \in {"lock", "work", "drain"}
      PROVE  stage'[c] = stage[c] \/ stage[c] \in {"work", "drain"}
  BY <1>1, AbandonStages DEF IInv
<1> QED BY <1>1, BarrierShrinks DEF IInv

\* A batch that is taken out lets nobody new in.
LEMMA BarrierAllOut ==
  ASSUME IInv, NEW a \in Agents, stage' = AllOut(a), plan' = plan, foreign' = foreign
  PROVE  Barrier'
<1>1. ASSUME NEW c \in Calls, stage'[c] \in {"lock", "work", "drain"}
      PROVE  stage'[c] = stage[c]
  BY <1>1, AllOutTyped DEF IInv
<1> QED BY <1>1, BarrierShrinks DEF IInv

\* A step that leaves the tasks alone.
LEMMA BarrierIdle ==
  ASSUME IInv, stage' = stage, plan' = plan, foreign' => foreign
  PROVE  Barrier'
  BY BarrierShrinks DEF IInv

\* A call that moves on to no exclusive place keeps the barrier.
LEMMA BarrierMoves ==
  ASSUME IInv, NEW c \in Calls, NEW s, Moves(c, s),
         Locks(c) => s \notin {"lock", "work", "drain"}
  PROVE  Barrier'
<1>1. plan' = plan /\ foreign' = foreign
  BY DEF Moves, outside
<1>2. ASSUME NEW d \in Calls, Locks(d), stage'[d] \in {"lock", "work", "drain"}
      PROVE  stage'[d] = stage[d]
  BY <1>2 DEF Moves, IInv, TypeOK
<1> QED BY <1>1, <1>2, BarrierShrinks DEF IInv

\* Every step keeps an exclusive call alone inside.
LEMMA BarrierStep == ASSUME IInv, [Next]_vars PROVE Barrier'
<1> USE DEF ledger, run, manager, outside, bounds
<1> TypeOK /\ Barrier
  BY DEF IInv
<1>1. ASSUME NEW a \in Agents, Recover(a) \/ Ask(a) \/ ModelFails(a) \/ Succeed(a) \/ Finish(a) PROVE Barrier'
  BY <1>1, BarrierIdle DEF Recover, Ask, ModelFails, Succeed, Finish
<1>2. ASSUME NEW c \in Calls, Mark(c) PROVE Barrier'
  <2>1. ASSUME NEW d \in Calls, stage'[d] \in {"lock", "work", "drain"} PROVE stage'[d] = stage[d]
    BY <1>2, <2>1 DEF Mark
  <2> QED BY <1>2, <2>1, BarrierShrinks DEF Mark
<1>3. ASSUME NEW c \in Calls, Record(c) PROVE Barrier'
  <2>1. c[1] \in Agents
    BY CallParts
  <2>2. CASE stage' = AllOut(c[1])
    BY <1>3, <2>1, <2>2, BarrierAllOut DEF Record
  <2>3. CASE stage' = [stage EXCEPT ![c] = "kept"]
    <3>1. ASSUME NEW d \in Calls, stage'[d] \in {"lock", "work", "drain"} PROVE stage'[d] = stage[d]
      BY <2>3, <3>1 DEF TypeOK
    <3> QED BY <1>3, <3>1, BarrierShrinks DEF Record
  <2> QED BY <1>3, <2>2, <2>3 DEF Record
<1>4. ASSUME NEW c \in Calls, Skip(c) PROVE Barrier'
  BY <1>4, BarrierIdle DEF Skip
<1>5. ASSUME NEW a \in Agents, StopSeen(a) PROVE Barrier'
  BY <1>5, BarrierAbandon DEF StopSeen, Outcomes
<1>6. ASSUME NEW c \in Calls, Unmark(c) PROVE Barrier'
  <2>1. ASSUME NEW d \in Calls, stage'[d] \in {"lock", "work", "drain"} PROVE stage'[d] = stage[d]
    BY <1>6, <2>1 DEF Unmark, TypeOK
  <2> QED BY <1>6, <2>1, BarrierShrinks DEF Unmark
<1>7. ASSUME NEW a \in Agents, Abandoned(a) PROVE Barrier'
  BY <1>7, BarrierAllOut DEF Abandoned
<1>8. ASSUME NEW c \in Calls, Start(c) PROVE Barrier'
  BY <1>8, BarrierMoves DEF Start, Locks, Exclusive
<1>9. ASSUME NEW c \in Calls, Enter(c) PROVE Barrier'
  <2>1. /\ plan' = plan /\ foreign' = foreign /\ stage' = [stage EXCEPT ![c] = "lock"]
        /\ stage[c] \in {"due", "wait"}
    BY <1>9 DEF Enter, MayEnter, Moves
  <2>2. Working' = Working
    BY <2>1 DEF Working, TypeOK, Shared, Exclusive
  <2>3. Inside' = Inside \cup {c}
    BY <1>9, <2>1 DEF Enter, MayEnter, Inside, Locks, Shared, Exclusive, TypeOK
  <2>4. \A d \in Calls : Exclusive(d)' <=> Exclusive(d)
    BY <2>1 DEF Exclusive
  <2>5. Inside \subseteq Calls
    BY DEF Inside
  <2>6. CASE Shared(c) /\ \A d \in Calls : Exclusive(d) => d \notin Inside
    BY <2>1, <2>2, <2>3, <2>4, <2>5, <2>6 DEF Barrier, Shared, Exclusive
  <2>7. CASE Inside = {}
    BY <2>1, <2>2, <2>3, <2>4, <2>7 DEF Barrier
  <2> QED BY <1>9, <2>6, <2>7 DEF Enter, MayEnter
<1>10. ASSUME NEW c \in Calls, Lock(c) PROVE Barrier'
  <2>1. /\ plan' = plan /\ foreign' = foreign /\ ~foreign /\ stage[c] = "lock"
        /\ \E s \in {"gone", "work"} : stage' = [stage EXCEPT ![c] = s]
    BY <1>10 DEF Lock, Moves
  <2>2. Inside' \subseteq Inside
    BY <2>1 DEF Inside, Locks, Shared, Exclusive, TypeOK
  <2>3. \A d \in Calls : Exclusive(d)' <=> Exclusive(d)
    BY <2>1 DEF Exclusive
  <2>4. Inside \subseteq Calls
    BY DEF Inside
  <2> QED BY <2>1, <2>2, <2>3, <2>4 DEF Barrier
<1>11. ASSUME NEW c \in Calls, Ends(c) \/ Writes(c) \/ Wait(c) PROVE Barrier'
  BY <1>11, BarrierMoves DEF Ends, Writes, Wait
<1>12. ASSUME NEW c \in Calls, Spawn(c) PROVE Barrier'
  <2>1. ASSUME NEW d \in Calls, stage'[d] \in {"lock", "work", "drain"} PROVE stage'[d] = stage[d]
    BY <1>12, <2>1 DEF Spawn, TypeOK
  <2> QED BY <1>12, <2>1, BarrierShrinks DEF Spawn
<1>13. ASSUME NEW a \in Agents, Interrupt(a), plan' = plan, foreign' = foreign PROVE Barrier'
  <2>1. Abandon(a, "cancelled") /\ InFlight(a) => Barrier'
    BY <1>13, BarrierAbandon DEF Outcomes
  <2>2. Drained(a) /\ stage' = AllOut(a) /\ Leave(a, "cancelled") /\ UNCHANGED <<ledger, threads>> => Barrier'
    BY <1>13, BarrierAllOut
  <2>3. UNCHANGED <<pc, ledger, stage, failed, threads>> => Barrier'
    BY <1>13, BarrierIdle
  <2> QED BY <1>13, <2>1, <2>2, <2>3, Interrupted
<1>14. ASSUME Dismiss PROVE Barrier'
  BY <1>13, <1>14, BarrierIdle DEF Dismiss, Agents
<1>15. ASSUME NEW c \in Calls, CancelAgent(c) PROVE Barrier'
  BY <1>14, <1>15, BarrierMoves DEF CancelAgent
<1>16. CASE Take \/ Closed \/ Resume \/ GiveBack \/ RequestCancel \/ UNCHANGED vars
            \/ \E c \in Calls : ThreadEnds(c)
  BY <1>16, BarrierIdle DEF Take, Closed, Resume, GiveBack, RequestCancel, ThreadEnds, vars
<1>17. CASE Shutdown
  BY <1>13, <1>17, BarrierIdle DEF Shutdown, Fault, Agents
<1>18. ASSUME NEW a \in Agents, StoreFails(a) PROVE Barrier'
  <2>1. plan' = plan /\ foreign' = foreign
    BY <1>18 DEF StoreFails, Fault
  <2> QED BY <1>18, <2>1, BarrierAbandon, BarrierAllOut, BarrierIdle DEF StoreFails, Outcomes
<1>19. CASE Crash
  <2>1. ASSUME NEW d \in Calls PROVE stage'[d] = "out"
    BY <1>19 DEF Crash
  <2> QED BY <1>19, <2>1, BarrierShrinks DEF Crash, Fault
<1>20. CASE TakeAway
  <2>1. Inside' = Inside /\ Working' = Working /\ plan' = plan
    BY <1>20 DEF TakeAway, Fault, Inside, Working, Locks, Shared, Exclusive
  <2> QED BY <1>20, <2>1 DEF TakeAway, Barrier, Exclusive
<1> QED
  BY <1>1, <1>2, <1>3, <1>4, <1>5, <1>6, <1>7, <1>8, <1>9, <1>10, <1>11, <1>12, <1>14, <1>15,
     <1>16, <1>17, <1>18, <1>19, <1>20 DEF Next, System, Task, Batch, Agent, Closing

\* A batch that is abandoned leaves nobody behind but the threads of its reads.
LEMMA ReadersAbandon ==
  ASSUME Readers, NEW a \in Agents, NEW o, Abandon(a, o), plan' = plan
  PROVE  Readers'
<1>1. \A c \in LeftBehind(a) : plan[c] = "read"
  BY DEF LeftBehind, Shared, Drains
<1> QED BY <1>1 DEF Readers, Abandon

\* No other step leaves a thread behind.
LEMMA ReadersStep == ASSUME IInv, [Next]_vars PROVE Readers'
<1> USE DEF ledger, run, manager, outside, bounds
<1> Readers
  BY DEF IInv
<1>1. ASSUME UNCHANGED plan, threads' \subseteq threads PROVE Readers'
  BY <1>1 DEF Readers
<1>2. ASSUME NEW a \in Agents, Agent(a) PROVE Readers'
  <2>1. CASE StopSeen(a)
    BY <2>1, ReadersAbandon DEF StopSeen
  <2>2. CASE Recover(a) \/ Ask(a) \/ ModelFails(a) \/ Succeed(a) \/ Abandoned(a) \/ Finish(a)
    BY <1>1, <2>2 DEF Recover, Ask, ModelFails, Succeed, Abandoned, Finish
  <2> QED BY <1>2, <2>1, <2>2 DEF Agent
<1>3. ASSUME NEW c \in Calls, Batch(c) PROVE Readers'
  BY <1>1, <1>3 DEF Batch, Mark, Record, Skip, Unmark
<1>4. ASSUME NEW a \in Agents, Interrupt(a), plan' = plan PROVE Readers'
  <2>1. CASE Abandon(a, "cancelled")
    BY <1>4, <2>1, ReadersAbandon
  <2>2. CASE UNCHANGED threads
    BY <1>1, <1>4, <2>2
  <2> QED BY <1>4, <2>1, <2>2 DEF Interrupt
<1>5. ASSUME Dismiss PROVE Readers'
  BY <1>1, <1>4, <1>5 DEF Dismiss, Agents
<1>6. ASSUME NEW c \in Calls, Task(c) PROVE Readers'
  <2>1. CASE CancelAgent(c)
    BY <1>1, <1>5, <2>1 DEF CancelAgent, Moves
  <2>2. CASE Start(c) \/ Enter(c) \/ Lock(c) \/ Ends(c) \/ Writes(c) \/ Wait(c) \/ Spawn(c)
    BY <1>1, <2>2 DEF Start, Enter, Lock, Ends, Writes, Wait, Spawn, Moves
  <2> QED BY <1>6, <2>1, <2>2 DEF Task
<1>7. CASE Take \/ Closed \/ GiveBack \/ RequestCancel \/ Resume \/ Crash \/ TakeAway
           \/ UNCHANGED vars \/ \E c \in Calls : ThreadEnds(c)
  BY <1>1, <1>7 DEF Take, Closed, GiveBack, RequestCancel, Resume, Crash, TakeAway, Fault, ThreadEnds, vars
<1>8. CASE Shutdown
  BY <1>1, <1>4, <1>8 DEF Shutdown, Fault, Agents
<1>9. ASSUME NEW a \in Agents, StoreFails(a) PROVE Readers'
  <2>1. CASE Abandon(a, "unrecoverable_error")
    BY <1>9, <2>1, ReadersAbandon DEF StoreFails, Fault
  <2>2. CASE UNCHANGED threads
    BY <1>1, <1>9, <2>2 DEF StoreFails, Fault
  <2> QED BY <1>9, <2>1, <2>2 DEF StoreFails
<1> QED
  BY <1>2, <1>3, <1>5, <1>6, <1>7, <1>8, <1>9 DEF Next, System, Closing

-----------------------------------------------------------------------------
(* What the ledger says of the workspace. *)

\* Only what a call's account speaks of counts.
LEMMA AccountKept ==
  ASSUME NEW c \in Calls, Account(c), plan' = plan,
         effects'[c] = effects[c], result'[c] = result[c], state'[c] = state[c], stage'[c] = stage[c],
         \/ pc'[c[1]] = pc[c[1]]
         \/ pc[c[1]] # "abort" /\ pc'[c[1]] \notin {"loop", "run", "record", "skip"}
         \/ pc'[c[1]] = "abort"
  PROVE  Account(c)'
  BY DEF Account

\* Neither a task that is abandoned nor one that is forgotten adds to it.
LEMMA AccountAbandon ==
  ASSUME IInv, NEW a \in Agents, NEW o \in Outcomes, Abandon(a, o), plan' = plan, effects' = effects,
         NEW c \in Calls, result'[c] = result[c],
         state'[c] = state[c] \/ (c[1] = a /\ state'[c] = "running")
  PROVE  Account(c)'
<1> TypeOK /\ Account(c) /\ c[1] \in Agents
  BY CallParts DEF IInv, Accounted
<1>1. CASE c[1] # a
  BY <1>1, AbandonTyped, AccountKept DEF TypeOK
<1>2. CASE c[1] = a
  <2>1. pc'[c[1]] = "abort"
    BY <1>2, AbandonTyped DEF TypeOK
  <2>2. \/ stage'[c] = stage[c]
        \/ stage[c] \in {"due", "wait", "lock", "work"} /\ stage'[c] \in {"gone", "drain"}
    BY <1>2, AbandonStages
  <2> QED BY <2>1, <2>2 DEF Account
<1> QED BY <1>1, <1>2

\* The account of a call stands when its batch is over.
LEMMA AccountAllOut ==
  ASSUME IInv, NEW a \in Agents, stage' = AllOut(a), plan' = plan, effects' = effects,
         NEW c \in Calls, result'[c] = result[c], state'[c] = state[c],
         pc'[a] \notin {"loop", "run", "record", "skip"}, \A b \in Agents \ {a} : pc'[b] = pc[b]
  PROVE  Account(c)'
<1> TypeOK /\ Account(c) /\ c[1] \in Agents
  BY CallParts DEF IInv, Accounted
<1>1. CASE c[1] # a
  BY <1>1, AllOutTyped, AccountKept
<1>2. CASE c[1] = a
  BY <1>2, AllOutTyped DEF Account
<1> QED BY <1>1, <1>2

\* What a call still open behind a finish_task has done: nothing.
LEMMA SkipsNothing ==
  ASSUME IInv, NEW c \in Calls, MaySkip(c)
  PROVE  stage[c] = "out" /\ effects[c] = 0 /\ result[c] = "none"
<1>1. pc[c[1]] = "skip" /\ result[c] = "none"
  BY DEF MaySkip, First, Open
<1>2. stage[c] = "out"
  BY <1>1 DEF IInv, Placed, TypeOK, Stages
<1> QED BY <1>1, <1>2 DEF IInv, Accounted, Account

\* A skipped call was never marked, so that it has changed nothing.
LEMMA AccountSkip ==
  ASSUME IInv, NEW c \in Calls, MaySkip(c), Store(c, "skipped"), plan' = plan, effects' = effects,
         stage'[c] = "out", pc'[c[1]] \in {"skip", "abort"}
  PROVE  Account(c)'
<1>1. result'[c] = "skipped" /\ state'[c] = "cancelled"
  BY DEF Store, IInv, TypeOK
<1> QED BY <1>1, SkipsNothing DEF IInv, Accounted, Account

\* A cancelled call that is at work stays accounted for.
LEMMA AccountInterrupt ==
  ASSUME IInv, NEW a \in Agents, Abandon(a, "cancelled"), InFlight(a), plan' = plan, effects' = effects
  PROVE  Accounted'
<1> TypeOK /\ "cancelled" \in Outcomes
  BY DEF IInv, Outcomes
<1> SUFFICES ASSUME NEW c \in Calls PROVE Account(c)'
  BY DEF Accounted
<1>1. CASE UNCHANGED ledger
  BY <1>1, AccountAbandon DEF ledger
<1>2. ASSUME NEW d \in Of(a), state' = [state EXCEPT ![d] = "running"], UNCHANGED result
      PROVE  Account(c)'
  <2>1. state'[c] = state[c] \/ (c[1] = a /\ state'[c] = "running")
    BY <1>2 DEF TypeOK, Of
  <2> QED BY <1>2, <2>1, AccountAbandon
<1>3. ASSUME NEW d \in Of(a), MayRecord(d), stage[d] \in {"ok", "error"}, Store(d, stage[d])
      PROVE  Account(c)'
  <2>1. d \in Calls /\ d[1] = a
    BY DEF Of
  <2>2. CASE c # d
    BY <1>3, <2>1, <2>2, Stored, AccountAbandon
  <2>3. CASE c = d
    <3>1. stage'[d] = stage[d] /\ pc'[a] = "abort"
      BY <1>3, <2>1, AbandonStages, AbandonTyped DEF TypeOK
    <3>2. result'[d] = stage[d] /\ state'[d] \in {"completed", "failed", "cancelled"}
      BY <1>3, <2>1, Stored
    <3> QED BY <1>3, <2>1, <2>3, <3>1, <3>2 DEF IInv, Accounted, Account
  <2> QED BY <2>2, <2>3
<1>4. ASSUME NEW d \in Of(a), MaySkip(d), Store(d, "skipped")
      PROVE  Account(c)'
  <2>1. d \in Calls /\ d[1] = a
    BY DEF Of
  <2>2. CASE c # d
    BY <1>4, <2>1, <2>2, Stored, AccountAbandon
  <2>3. CASE c = d
    <3>1. stage'[d] = stage[d] /\ pc'[a] = "abort" /\ stage[d] = "out"
      BY <1>4, <2>1, AbandonStages, AbandonTyped, SkipsNothing DEF TypeOK
    <3> QED BY <1>4, <2>1, <2>3, <3>1, AccountSkip
  <2> QED BY <2>2, <2>3
<1> QED BY <1>1, <1>2, <1>3, <1>4, Committed

\* Every step keeps the changes of a call in line with its records.
LEMMA AccountedStep == ASSUME IInv, [Next]_vars PROVE Accounted'
<1> USE DEF ledger, run, manager, outside, bounds
<1> TypeOK /\ Accounted
  BY DEF IInv
<1>1. ASSUME UNCHANGED <<plan, ledger, effects, stage>>,
             \A a \in Agents : \/ pc'[a] = pc[a]
                               \/ pc[a] # "abort" /\ pc'[a] \notin {"loop", "run", "record", "skip"}
      PROVE  Accounted'
  BY <1>1, AccountKept, CallParts DEF Accounted
<1>2. ASSUME NEW a \in Agents, Recover(a) PROVE Accounted'
  <2>1. CASE Leave(a, "blocked")
    BY <1>1, <1>2, <2>1 DEF Recover, Leave, TypeOK
  <2>2. CASE ~Blocked(a) /\ pc' = [pc EXCEPT ![a] = IF Finals(a) # {} THEN "skip" ELSE "loop"]
    <3> SUFFICES ASSUME NEW c \in Calls PROVE Account(c)'
      BY DEF Accounted
    <3>1. CASE c[1] # a
      BY <1>2, <2>2, <3>1, AccountKept, CallParts DEF Recover, Accounted, TypeOK
    <3>2. CASE c[1] = a
      <4>1. stage[c] = "out"
        BY <1>2, <3>2 DEF Recover, IInv, Placed, TypeOK, Stages
      <4>2. plan[c] = "write" /\ result[c] = "none" => state[c] \in {"absent", "pending"}
        BY <2>2, <3>2 DEF Blocked, Open, Asked, Of
      <4> QED BY <1>2, <3>2, <4>1, <4>2 DEF Recover, Accounted, Account
    <3> QED BY <3>1, <3>2
  <2> QED BY <1>2, <2>1, <2>2 DEF Recover
<1>3. ASSUME NEW a \in Agents, Ask(a) PROVE Accounted'
  <2>1. ASSUME NEW c \in Calls
        PROVE  state'[c] = state[c] \/ (state[c] = "absent" /\ state'[c] = "pending")
    BY <1>3, <2>1 DEF Ask, Asked, TypeOK
  <2> QED BY <1>3, <2>1 DEF Ask, Accounted, Account
<1>4. ASSUME NEW a \in Agents, ModelFails(a) \/ Succeed(a) \/ Finish(a) PROVE Accounted'
  BY <1>1, <1>4 DEF ModelFails, Succeed, Finish, Leave, TypeOK
<1>5. ASSUME NEW c \in Calls, Mark(c) PROVE Accounted'
  <2> DEFINE a == c[1]
  <2>1. a \in Agents /\ pc[a] = "loop" /\ stage[c] = "out" /\ c \in Group(a)
    BY <1>5, CallParts DEF Mark, MayMark, First
  <2>2. result[c] = "none" /\ effects[c] = 0
    BY <2>1 DEF Group, Open, Asked, Of, Accounted, Account
  <2>3. /\ UNCHANGED <<plan, result, effects>> /\ pc'[a] \in {"loop", "run"}
        /\ \A b \in Agents \ {a} : pc'[b] = pc[b]
        /\ state'[c] = "running" /\ stage'[c] \in {"marked", "due"}
    BY <1>5, <2>1 DEF Mark, TypeOK
  <2>4. ASSUME NEW d \in Calls \ {c}
        PROVE  state'[d] = state[d] /\ (stage'[d] = stage[d] \/ (stage[d] = "marked" /\ stage'[d] = "due"))
    BY <1>5 DEF Mark, TypeOK
  <2>5. Account(c)'
    BY <2>1, <2>2, <2>3 DEF Accounted, Account
  <2>6. ASSUME NEW d \in Calls \ {c} PROVE Account(d)'
    <3>1. d[1] # a => pc'[d[1]] = pc[d[1]]
      BY <2>3, CallParts
    <3> QED BY <2>1, <2>3, <2>4, <3>1 DEF Accounted, Account
  <2> QED BY <2>5, <2>6 DEF Accounted
<1>6. ASSUME NEW c \in Calls, Record(c) PROVE Accounted'
  <2> DEFINE a == c[1]
  <2>1. /\ a \in Agents /\ pc[a] \in {"run", "record"} /\ stage[c] \in {"ok", "error"} /\ c \in Of(a)
        /\ \A d \in Of(a) : stage[d] \in {"out", "ok", "error", "kept"}
    BY <1>6, CallParts DEF Record, MayRecord, First, In, Of
  <2>2. /\ UNCHANGED <<plan, effects>> /\ \A b \in Agents \ {a} : pc'[b] = pc[b]
        /\ pc'[a] \in {"record", "skip", "loop"}
    BY <1>6, <2>1 DEF Record, TypeOK
  <2>3. /\ result'[c] = stage[c] /\ state'[c] \in {"completed", "failed", "cancelled"}
        /\ \A d \in Calls \ {c} : result'[d] = result[d] /\ state'[d] = state[d]
    BY <1>6, <2>1, Stored DEF Record
  <2>4. CASE In(a, {"ok", "error"}) = {c}
    <3>1. stage' = AllOut(a)
      BY <1>6, <2>4 DEF Record
    <3>2. Account(c)'
      BY <2>1, <2>2, <2>3, <3>1, AllOutTyped DEF Accounted, Account
    <3>3. ASSUME NEW d \in Calls \ {c}, d[1] = a PROVE Account(d)'
      <4>1. stage[d] \in {"out", "kept"} /\ stage'[d] = "out"
        BY <2>1, <2>4, <3>1, <3>3, AllOutTyped DEF In, Of
      <4> QED BY <2>1, <2>2, <2>3, <3>3, <4>1 DEF Accounted, Account
    <3>4. ASSUME NEW d \in Calls \ {c}, d[1] # a PROVE Account(d)'
      BY <2>1, <2>2, <2>3, <3>1, <3>4, AllOutTyped, AccountKept, CallParts DEF Accounted
    <3> QED BY <3>2, <3>3, <3>4 DEF Accounted
  <2>5. CASE In(a, {"ok", "error"}) # {c}
    <3>1. stage' = [stage EXCEPT ![c] = "kept"] /\ pc'[a] = "record"
      BY <1>6, <2>1, <2>5 DEF Record, TypeOK
    <3>2. Account(c)'
      BY <2>1, <2>2, <2>3, <3>1 DEF Accounted, Account, TypeOK
    <3>3. ASSUME NEW d \in Calls \ {c} PROVE Account(d)'
      <4>1. stage'[d] = stage[d]
        BY <3>1 DEF TypeOK
      <4>2. d[1] # a => pc'[d[1]] = pc[d[1]]
        BY <2>2, CallParts
      <4> QED BY <2>1, <2>2, <2>3, <3>1, <4>1, <4>2 DEF Accounted, Account
    <3> QED BY <3>2, <3>3 DEF Accounted
  <2> QED BY <2>4, <2>5
<1>7. ASSUME NEW c \in Calls, Skip(c) PROVE Accounted'
  <2>1. Account(c)'
    BY <1>7, AccountSkip, SkipsNothing DEF Skip, MaySkip
  <2>2. ASSUME NEW d \in Calls \ {c} PROVE Account(d)'
    BY <1>7, Stored, AccountKept DEF Skip, Accounted
  <2> QED BY <2>1, <2>2 DEF Accounted
<1>8. ASSUME NEW a \in Agents, StopSeen(a) PROVE Accounted'
  BY <1>8, AccountAbandon DEF StopSeen, Outcomes, Accounted
<1>9. ASSUME NEW c \in Calls, Unmark(c) PROVE Accounted'
  <2>1. pc[c[1]] = "abort" /\ state'[c] = "cancelled" /\ stage'[c] = "out"
    BY <1>9 DEF Unmark, MayUnmark, Drained, TypeOK
  <2>2. Account(c)'
    BY <1>9, <2>1 DEF Unmark, Accounted, Account
  <2>3. ASSUME NEW d \in Calls \ {c} PROVE Account(d)'
    BY <1>9, AccountKept DEF Unmark, Accounted, TypeOK
  <2> QED BY <2>2, <2>3 DEF Accounted
<1>10. ASSUME NEW a \in Agents, NEW o \in Outcomes, Leave(a, o), stage' = AllOut(a),
              UNCHANGED <<plan, ledger, effects>>
       PROVE  Accounted'
  <2>1. pc'[a] \notin {"loop", "run", "record", "skip"} /\ \A b \in Agents \ {a} : pc'[b] = pc[b]
    BY <1>10 DEF Leave, TypeOK
  <2> QED BY <1>10, <2>1, AccountAllOut DEF Accounted
<1>11. ASSUME NEW a \in Agents, Abandoned(a) PROVE Accounted'
  <2>1. end[a] \in Outcomes
    BY <1>11 DEF Abandoned, Drained, TypeOK, Outcomes
  <2> QED BY <1>10, <1>11, <2>1 DEF Abandoned
\* The steps of tasks.
<1>12. ASSUME NEW c \in Calls, NEW s, stage' = [stage EXCEPT ![c] = s],
              UNCHANGED <<plan, ledger, effects, pc>>,
              \/ stage[c] \in {"due", "wait", "lock"} /\ s \in {"wait", "lock", "work", "gone"}
              \/ stage[c] = "work" /\ s \in {"ok", "error", "gone"} /\ plan[c] # "write"
              \/ stage[c] = "drain" /\ s = "gone"
       PROVE  Accounted'
  <2>1. Account(c)'
    BY <1>12 DEF Accounted, Account, TypeOK
  <2>2. ASSUME NEW d \in Calls \ {c} PROVE Account(d)'
    BY <1>12, AccountKept DEF Accounted, TypeOK
  <2> QED BY <2>1, <2>2 DEF Accounted
<1>13. ASSUME NEW c \in Calls, Start(c) \/ Enter(c) \/ Lock(c) PROVE Accounted'
  <2>1. PICK s \in {"wait", "lock", "work", "gone"} : Moves(c, s)
    BY <1>13 DEF Start, Enter, Lock
  <2>2. stage[c] \in {"due", "wait", "lock"} /\ effects' = effects
    BY <1>13 DEF Start, Enter, MayEnter, Lock
  <2> QED BY <1>12, <2>1, <2>2 DEF Moves
<1>14. ASSUME NEW c \in Calls, Ends(c) \/ Wait(c) \/ Spawn(c) PROVE Accounted'
  <2>1. CASE Ends(c)
    BY <1>12, <2>1 DEF Ends, Moves, Shared
  <2>2. CASE Wait(c)
    BY <1>12, <2>2 DEF Wait, Moves
  <2>3. CASE Spawn(c)
    BY <1>12, <2>3 DEF Spawn
  <2> QED BY <1>14, <2>1, <2>2, <2>3
<1>15. ASSUME NEW c \in Calls, Writes(c) PROVE Accounted'
  <2>1. PICK done \in BOOLEAN, r \in {"ok", "error", "gone"} :
          /\ stage[c] = (IF r = "gone" THEN "drain" ELSE "work")
          /\ r = "ok" => done
          /\ effects' = IF done THEN [effects EXCEPT ![c] = @ + 1] ELSE effects
          /\ Moves(c, r)
    BY <1>15 DEF Writes
  <2>2. /\ effects[c] = 0 /\ result[c] = "none" /\ state[c] \notin {"absent", "pending"}
        /\ plan[c] = "write"
    BY <1>15, <2>1 DEF Writes, Accounted, Account
  <2>3. effects'[c] \in {0, 1} /\ (r = "ok" => effects'[c] = 1)
    BY <2>1, <2>2 DEF TypeOK
  <2>4. Account(c)'
    BY <2>1, <2>2, <2>3 DEF Moves, Account, TypeOK
  <2>5. ASSUME NEW d \in Calls \ {c} PROVE Account(d)'
    BY <2>1, AccountKept DEF Moves, Accounted, TypeOK
  <2> QED BY <2>4, <2>5 DEF Accounted
<1>16. ASSUME NEW a \in Agents, Interrupt(a), UNCHANGED <<plan, effects>> PROVE Accounted'
  <2>1. Abandon(a, "cancelled") /\ InFlight(a) => Accounted'
    BY <1>16, AccountInterrupt
  <2>2. Drained(a) /\ stage' = AllOut(a) /\ Leave(a, "cancelled") /\ UNCHANGED <<ledger, threads>> => Accounted'
    BY <1>10, <1>16 DEF Outcomes
  <2>3. UNCHANGED <<pc, ledger, stage, failed, threads>> => Accounted'
    BY <1>1, <1>16
  <2> QED BY <1>16, <2>1, <2>2, <2>3, Interrupted
<1>17. ASSUME Dismiss PROVE Accounted'
  BY <1>1, <1>16, <1>17 DEF Dismiss, Agents
<1>18. ASSUME NEW c \in Calls, CancelAgent(c) PROVE Accounted'
  <2>1. CASE Dismiss
    BY <1>17, <2>1
  <2>2. CASE ((stage[c] = "work" /\ (Moves(c, "error") \/ Moves(c, "ok"))) \/ (stage[c] = "drain" /\ Moves(c, "gone")))
             /\ UNCHANGED effects
    BY <1>12, <1>18, <2>2 DEF CancelAgent, Moves
  <2> QED BY <1>18, <2>1, <2>2 DEF CancelAgent
<1>19. CASE Take \/ Closed \/ Resume
  <2>1. CASE Take
    <3>1. pc' = [pc EXCEPT !["child"] = pc'["child"]] /\ pc'["child"] \in {"finish", "recover"} /\ pc["child"] = "off"
      BY <2>1 DEF Take, MayTake, TypeOK, Agents
    <3>2. UNCHANGED <<plan, ledger, effects, stage>>
      BY <2>1 DEF Take
    <3>3. \A a \in Agents : pc'[a] = pc[a] \/ (pc[a] # "abort" /\ pc'[a] \notin {"loop", "run", "record", "skip"})
      BY <3>1 DEF Agents, TypeOK
    <3> QED BY <1>1, <3>2, <3>3
  <2>2. CASE Closed \/ Resume
    BY <1>1, <2>2 DEF Closed, Resume, TypeOK
  <2> QED BY <1>19, <2>1, <2>2
<1>20. CASE GiveBack \/ RequestCancel \/ TakeAway \/ UNCHANGED vars \/ \E c \in Calls : ThreadEnds(c)
  BY <1>1, <1>20 DEF GiveBack, RequestCancel, TakeAway, ThreadEnds, Fault, vars
<1>21. CASE Shutdown
  <2>1. CASE Interrupt("parent")
    BY <1>16, <1>21, <2>1 DEF Shutdown, Fault, Agents
  <2>2. CASE pc["parent"] = "finish" /\ pc' = [pc EXCEPT !["parent"] = "off"] /\ UNCHANGED <<ledger, stage, failed>>
    BY <1>1, <1>21, <2>2 DEF Shutdown, Fault, TypeOK
  <2> QED BY <1>21, <2>1, <2>2 DEF Shutdown
<1>22. ASSUME NEW a \in Agents, StoreFails(a) PROVE Accounted'
  <2>1. UNCHANGED <<plan, ledger, effects>> /\ "unrecoverable_error" \in Outcomes
    BY <1>22 DEF StoreFails, Fault, Outcomes
  <2>2. CASE Abandon(a, "unrecoverable_error")
    BY <2>1, <2>2, AccountAbandon DEF Accounted
  <2>3. CASE stage' = AllOut(a) /\ Leave(a, "unrecoverable_error")
    BY <1>10, <2>1, <2>3
  <2>4. CASE /\ pc[a] = "finish" \/ (a = "child" /\ MayTake)
             /\ pc' = [pc EXCEPT ![a] = "off"] /\ UNCHANGED stage
    BY <1>1, <2>1, <2>4 DEF MayTake, TypeOK
  <2> QED BY <1>22, <2>2, <2>3, <2>4 DEF StoreFails
<1>23. CASE Crash
  <2> SUFFICES ASSUME NEW c \in Calls PROVE Account(c)'
    BY DEF Accounted
  <2>1. /\ UNCHANGED <<plan, ledger>> /\ stage'[c] = "out" /\ pc'[c[1]] = "off"
    BY <1>23, CallParts DEF Crash, Fault
  <2>2. \/ effects'[c] = effects[c]
        \/ effects'[c] = effects[c] + 1 /\ c \in Working /\ plan[c] = "write"
    BY <1>23 DEF Crash
  <2>3. CASE effects'[c] = effects[c]
    BY <2>1, <2>3 DEF Accounted, Account
  <2>4. CASE effects'[c] = effects[c] + 1 /\ c \in Working /\ plan[c] = "write"
    BY <2>1, <2>4 DEF Accounted, Account, Working
  <2> QED BY <2>2, <2>3, <2>4
<1> QED
  BY <1>2, <1>3, <1>4, <1>5, <1>6, <1>7, <1>8, <1>9, <1>11, <1>13, <1>14, <1>15, <1>17, <1>18,
     <1>19, <1>20, <1>21, <1>22, <1>23 DEF Next, System, Task, Batch, Agent, Closing

-----------------------------------------------------------------------------
(* The batches and the sessions. *)

\* An open call that is no read or search is a batch of its own.
LEMMA GroupReads ==
  ASSUME NEW a \in Agents, NEW c \in Group(a), NEW d \in Group(a), ~Shared(c)
  PROVE  c = d
<1>1. /\ c \in Open(a) /\ d \in Open(a) /\ c \in Calls /\ d \in Calls /\ c[1] = a /\ d[1] = a
  BY DEF Group, Open, Asked, Of
<1>2. c[2] \in Nat /\ d[2] \in Nat /\ c = <<c[1], c[2]>> /\ d = <<d[1], d[2]>>
  BY <1>1, CallParts
<1>3. First(c, Open(a))
  BY <1>1, <1>2 DEF Group
<1>4. First(d, Open(a))
  BY <1>1, <1>2, <1>3 DEF Group, First
<1>5. c[2] = d[2]
  BY <1>1, <1>2, <1>3, <1>4 DEF First
<1> QED BY <1>1, <1>2, <1>5

\* Results only come in, and open calls stay what they are, unless one is recorded.
LEMMA SameSession ==
  ASSUME NEW a \in Agents, plan' = plan,
         \A c \in Of(a) : result'[c] = result[c] /\ (state'[c] = "absent" <=> state[c] = "absent")
  PROVE  Finals(a)' = Finals(a) /\ Open(a)' = Open(a) /\ Group(a)' = Group(a)
<1>1. Of(a)' = Of(a)
  BY DEF Of
<1>2. Finals(a)' = Finals(a) /\ Asked(a)' = Asked(a)
  BY <1>1 DEF Finals, Asked
<1>3. Open(a)' = Open(a)
  BY <1>2 DEF Open, Asked
<1>4. Group(a)' = Group(a)
  BY <1>3, <1>1 DEF Group, First, Open, Asked, Shared
<1> QED BY <1>2, <1>3, <1>4

\* A step that leaves a session's ledger as it is.
LEMMA SessionKept ==
  ASSUME NEW a \in Agents, Session(a), plan' = plan,
         \A c \in Of(a) : result'[c] = result[c] /\ (state'[c] = "absent" <=> state[c] = "absent"),
         \A c \in Of(a) : stage'[c] = "out" \/ stage[c] # "out",
         \A c \in Of(a) : stage'[c] = "marked" => stage[c] = "marked",
         \/ pc'[a] = pc[a]
         \/ pc'[a] \notin {"skip", "loop", "run", "record"},
         \/ end'[a] = end[a] /\ (pc'[a] = pc[a] \/ pc'[a] = "finish" \/ end[a] # "success")
         \/ end'[a] # "success",
         status'[a] = "completed" => status[a] = "completed" \/ end[a] = "success"
  PROVE  Session(a)'
<1>1. Finals(a)' = Finals(a) /\ Open(a)' = Open(a) /\ Group(a)' = Group(a) /\ Of(a)' = Of(a)
  BY SameSession DEF Of
<1> QED BY <1>1 DEF Session, Shared

\* A run that is cancelled within a store does not end in success.
LEMMA SessionEnding ==
  ASSUME NEW a \in Agents, Session(a), plan' = plan, pc'[a] = "abort", end'[a] # "success",
         status'[a] # "completed", \A c \in Of(a) : stage'[c] = "out" \/ stage[c] # "out"
  PROVE  Session(a)'
<1>1. Of(a)' = Of(a)
  BY DEF Of
<1> QED BY <1>1 DEF Session, Shared

\* What an abandoned or forgotten batch leaves to the conditions above.
LEMMA AbandonedTasks ==
  ASSUME TypeOK, NEW a \in Agents, NEW o \in Outcomes, Abandon(a, o), NEW b \in Agents
  PROVE  /\ \A c \in Of(b) : stage'[c] = "out" \/ stage[c] # "out"
         /\ \A c \in Of(b) : stage'[c] = "marked" => stage[c] = "marked"
         /\ b # a => pc'[b] = pc[b] /\ end'[b] = end[b]
         /\ b = a => pc'[b] = "abort" /\ end'[b] = o
<1>1. ASSUME NEW c \in Of(b)
      PROVE  \/ stage'[c] = stage[c]
             \/ stage[c] \in {"due", "wait", "lock", "work"} /\ stage'[c] \in {"gone", "drain"}
  BY AbandonStages DEF Of
<1> QED BY <1>1, AbandonTyped DEF TypeOK

\* A cancelled batch keeps the sessions as they are.
LEMMA SessionAbandon ==
  ASSUME IInv, NEW a \in Agents, NEW o \in Outcomes \ {"success"}, Abandon(a, o),
         UNCHANGED <<plan, ledger, status>>
  PROVE  Sessions'
<1> SUFFICES ASSUME NEW b \in Agents PROVE Session(b)'
  BY DEF Sessions
<1>1. Session(b)
  BY DEF IInv, Sessions
<1>2. \A c \in Of(b) : result'[c] = result[c] /\ (state'[c] = "absent" <=> state[c] = "absent")
  BY DEF ledger
<1> QED BY <1>1, <1>2, AbandonedTasks, SessionKept DEF IInv

\* A run that leaves without success has no finish_task.
LEMMA SessionLeave ==
  ASSUME IInv, NEW a \in Agents, NEW o \in Outcomes \ {"success"}, Leave(a, o), stage' = AllOut(a) \/ stage' = stage,
         UNCHANGED <<plan, ledger, status>>
  PROVE  Sessions'
<1> SUFFICES ASSUME NEW b \in Agents PROVE Session(b)'
  BY DEF Sessions
<1>1. Session(b) /\ TypeOK
  BY DEF IInv, Sessions
<1>2. \A c \in Of(b) : result'[c] = result[c] /\ (state'[c] = "absent" <=> state[c] = "absent")
  BY DEF ledger
<1>3. \A c \in Of(b) : stage'[c] = "out" \/ stage'[c] = stage[c]
  BY <1>1, AllOutTyped DEF Of
<1>4. /\ b # a => pc'[b] = pc[b] /\ end'[b] = end[b]
      /\ b = a => pc'[b] \in {"close", "finish"} /\ end'[b] = o
  BY <1>1, LeaveTyped DEF TypeOK
<1> QED BY <1>1, <1>2, <1>3, <1>4, SessionKept

\* A cancellation keeps the sessions as they are.
LEMMA SessionInterrupt ==
  ASSUME IInv, NEW a \in Agents, Abandon(a, "cancelled"), InFlight(a), plan' = plan,
         \A b \in Agents : status'[b] = "completed" => status[b] = "completed"
  PROVE  Sessions'
<1> TypeOK /\ "cancelled" \in Outcomes
  BY DEF IInv, Outcomes
<1> SUFFICES ASSUME NEW b \in Agents PROVE Session(b)'
  BY DEF Sessions
<1>1. Session(b) /\ Session(a)
  BY DEF IInv, Sessions
<1>2. ASSUME \A c \in Of(b) : result'[c] = result[c] /\ (state'[c] = "absent" <=> state[c] = "absent")
      PROVE  Session(b)'
  BY <1>1, <1>2, AbandonedTasks, SessionKept
<1>3. ASSUME b = a, status[a] # "completed" PROVE Session(b)'
  BY <1>1, <1>3, AbandonedTasks, SessionEnding
<1>4. CASE UNCHANGED ledger
  BY <1>2, <1>4 DEF ledger
<1>5. ASSUME NEW d \in Of(a), MayMark(d), state' = [state EXCEPT ![d] = "running"], UNCHANGED result
      PROVE  Session(b)'
  <2>1. state[d] # "absent"
    BY <1>5 DEF MayMark, First, Group, Open, Asked, Of
  <2> QED BY <1>2, <1>5, <2>1 DEF TypeOK, Of
<1>6. ASSUME NEW d \in Of(a), MayRecord(d) \/ MaySkip(d), NEW r \in {"ok", "error", "skipped"}, Store(d, r)
      PROVE  Session(b)'
  <2>1. d \in Calls /\ d[1] = a
    BY DEF Of
  <2>2. status[a] # "completed"
    <3>1. CASE MayRecord(d)
      BY <1>1, <2>1, <3>1 DEF MayRecord, Session
    <3>2. CASE MaySkip(d)
      BY <1>1, <2>1, <3>2 DEF MaySkip, First, Session
    <3> QED BY <1>6, <3>1, <3>2
  <2>3. CASE b # a
    <3>1. \A c \in Of(b) : c \in Calls \ {d}
      BY <2>1, <2>3 DEF Of
    <3> QED BY <1>2, <1>6, <2>1, <3>1, Stored
  <2> QED BY <1>3, <2>2, <2>3
<1> QED BY <1>4, <1>5, <1>6, Committed

\* Recovery succeeds only after a stored finish_task.
LEMMA SessionRecover == ASSUME IInv, NEW a \in Agents, Recover(a) PROVE Sessions'
<1> USE DEF ledger
<1> TypeOK /\ "blocked" \in Outcomes \ {"success"}
  BY DEF IInv, Outcomes
<1>1. CASE Leave(a, "blocked")
  BY <1>1, SessionLeave DEF Recover
<1>2. CASE ~Blocked(a) /\ pc' = [pc EXCEPT ![a] = IF Finals(a) # {} THEN "skip" ELSE "loop"] /\ UNCHANGED <<end, failed>>
  <2> SUFFICES ASSUME NEW b \in Agents PROVE Session(b)'
    BY DEF Sessions
  <2>1. Session(b) /\ UNCHANGED <<plan, state, result, status, stage, end>> /\ pc[a] = "recover"
    BY <1>2 DEF IInv, Sessions, Recover
  <2>2. CASE b # a
    BY <1>2, <2>1, <2>2, SessionKept
  <2>3. CASE b = a
    <3>1. \A c \in Of(a) : stage'[c] = "out"
      BY <2>1 DEF IInv, Placed, TypeOK, Stages, Of
    <3>2. pc'[a] = IF Finals(a) # {} THEN "skip" ELSE "loop"
      BY <1>2 DEF TypeOK
    <3>3. end[a] # "success"
      BY <2>1, <2>3 DEF Session
    <3>4. Finals(a)' = Finals(a) /\ Open(a)' = Open(a) /\ Of(a)' = Of(a)
      BY <2>1, SameSession DEF Of
    <3> QED BY <2>1, <2>3, <3>1, <3>2, <3>3, <3>4 DEF Session
  <2> QED BY <2>2, <2>3
<1> QED BY <1>1, <1>2 DEF Recover

\* A new batch is one call or reads and searches only.
LEMMA SessionAsk == ASSUME IInv, NEW a \in Agents, Ask(a) PROVE Sessions'
<1> USE DEF ledger, run
<1> TypeOK
  BY DEF IInv
<1> SUFFICES ASSUME NEW b \in Agents PROVE Session(b)'
  BY DEF Sessions
<1>1. Session(b) /\ UNCHANGED <<plan, result, status, stage, end, pc>> /\ pc[a] = "loop" /\ Open(a) = {}
  BY DEF IInv, Sessions, Ask
<1>2. \A c \in Calls : c[1] # a => state'[c] = state[c]
  BY DEF Ask, TypeOK, Of
<1>3. CASE b # a
  <2>1. \A c \in Of(b) : state'[c] = state[c]
    BY <1>2, <1>3 DEF Of
  <2> QED BY <1>1, <2>1, SessionKept
<1>4. CASE b = a
  <2>1. \A c \in Of(a) : stage'[c] = "out"
    BY <1>1, NoTasks
  <2>2. Finals(a)' = Finals(a) /\ Of(a)' = Of(a)
    BY <1>1 DEF Finals, Of
  <2> QED BY <1>1, <1>4, <2>1, <2>2 DEF Session
<1> QED BY <1>3, <1>4

\* Marking a call keeps its batch.
LEMMA SessionMark == ASSUME IInv, NEW c \in Calls, Mark(c) PROVE Sessions'
<1> DEFINE a == c[1]
<1> TypeOK
  BY DEF IInv
<1> SUFFICES ASSUME NEW b \in Agents PROVE Session(b)'
  BY DEF Sessions
<1>1. /\ Session(b) /\ UNCHANGED <<plan, result, status, end>> /\ pc[a] = "loop" /\ a \in Agents
      /\ c \in Group(a) /\ state[c] # "absent" /\ Group(a) \subseteq Of(a)
  BY CallParts DEF IInv, Sessions, Mark, MayMark, First, Group, Open, Asked, Of
<1>2. \A d \in Calls : state'[d] = "absent" <=> state[d] = "absent"
  BY <1>1 DEF Mark, TypeOK
<1>3. CASE b # a
  <2>1. \A d \in Of(b) : stage'[d] = stage[d]
    BY <1>1, <1>3 DEF Mark, Of
  <2>2. pc'[b] = pc[b]
    BY <1>3 DEF Mark, TypeOK
  <2>3. \A d \in Of(b) : d \in Calls
    BY DEF Of
  <2> QED BY <1>1, <1>2, <2>1, <2>2, <2>3, SessionKept
<1>4. CASE b = a
  <2>1. Finals(a)' = Finals(a) /\ Open(a)' = Open(a) /\ Group(a)' = Group(a) /\ Of(a)' = Of(a)
    BY <1>1, <1>2, SameSession DEF Of
  <2>2. pc'[a] \in {"loop", "run"}
    BY <1>1 DEF Mark, TypeOK
  <2>3. ASSUME NEW d \in Of(a), stage'[d] # "out" PROVE d \in Group(a)
    <3>1. stage[d] \in {"out", "marked"}
      BY <1>1 DEF IInv, Placed, TypeOK, Stages, Of
    <3>2. d = c \/ d \in Group(a) \/ stage[d] = "marked"
      BY <2>3, <3>1 DEF Mark, Of
    <3> QED BY <1>1, <1>4, <3>2 DEF Session
  <2>4. \A d, e \in Of(a) : stage'[d] # "out" /\ stage'[e] # "out" /\ ~Shared(d) => d = e
    BY <1>1, <2>3, GroupReads
  <2> QED BY <1>1, <1>4, <2>1, <2>2, <2>3, <2>4 DEF Session, Shared
<1> QED BY <1>3, <1>4

\* Recording the results of a batch keeps what its run may end as.
LEMMA SessionRecord == ASSUME IInv, NEW c \in Calls, Record(c) PROVE Sessions'
<1> DEFINE a == c[1]
<1> TypeOK
  BY DEF IInv
<1> SUFFICES ASSUME NEW b \in Agents PROVE Session(b)'
  BY DEF Sessions
<1>1. /\ Session(b) /\ Session(a) /\ UNCHANGED <<plan, status, end>>
      /\ pc[a] \in {"run", "record"} /\ a \in Agents
      /\ stage[c] \in {"ok", "error"} /\ c \in Of(a) /\ c \in In(a, {"ok", "error"})
  BY CallParts DEF IInv, Sessions, Record, MayRecord, First, In, Of
<1>2. /\ result'[c] = stage[c] /\ state'[c] \in {"completed", "failed", "cancelled"}
      /\ \A d \in Calls \ {c} : result'[d] = result[d] /\ state'[d] = state[d]
  BY <1>1, Stored DEF Record
<1>3. \A d \in Calls : d[1] # a => stage'[d] = stage[d]
  BY <1>1, AllOutTyped DEF Record, TypeOK
<1>4. CASE b # a
  <2>1. \A d \in Of(b) : d \in Calls \ {c} /\ d[1] # a
    BY <1>4 DEF Of
  <2>2. pc'[b] = pc[b]
    BY <1>4 DEF Record, TypeOK
  <2> QED BY <1>1, <1>2, <1>3, <2>1, <2>2, SessionKept
<1>5. CASE b = a
  <2>1. Finals(a) = {} /\ end[a] # "success" /\ status[a] # "completed"
    BY <1>1 DEF Session
  <2>2. Of(a)' = Of(a) /\ Of(a) \subseteq Calls
    BY DEF Of
  <2>3. Finals(a)' = IF plan[c] = "finish" /\ stage[c] = "ok" THEN {c} ELSE {}
    BY <1>1, <1>2, <2>1, <2>2 DEF Finals
  <2>4. CASE In(a, {"ok", "error"}) = {c}
    <3>1. \A d \in Of(a) : stage'[d] = "out"
      BY <1>1, <2>4, AllOutTyped DEF Record, Of
    <3>2. pc'[a] = IF plan[c] = "finish" /\ stage[c] = "ok" THEN "skip" ELSE "loop"
      BY <1>1, <2>4 DEF Record, TypeOK
    <3> QED BY <1>1, <1>5, <2>1, <2>2, <2>3, <3>1, <3>2 DEF Session
  <2>5. CASE In(a, {"ok", "error"}) # {c}
    <3>1. stage' = [stage EXCEPT ![c] = "kept"] /\ pc'[a] = "record"
      BY <1>1, <2>5 DEF Record, TypeOK
    <3>2. PICK d \in In(a, {"ok", "error"}) : d # c
      BY <1>1, <2>5
    <3>3. Shared(c)
      BY <1>1, <3>2 DEF Session, In, Of
    <3>4. \A e \in Of(a) : stage'[e] # "out" => stage[e] # "out"
      BY <1>1, <3>1 DEF TypeOK, Of
    <3> QED BY <1>1, <1>5, <2>1, <2>2, <2>3, <3>1, <3>3, <3>4 DEF Session, Shared
  <2> QED BY <2>4, <2>5
<1> QED BY <1>4, <1>5

\* Skipping what was not marked keeps the session.
LEMMA SessionSkip == ASSUME IInv, NEW c \in Calls, Skip(c) PROVE Sessions'
<1> USE DEF run
<1> DEFINE a == c[1]
<1> TypeOK
  BY DEF IInv
<1> SUFFICES ASSUME NEW b \in Agents PROVE Session(b)'
  BY DEF Sessions
<1>1. /\ Session(b) /\ Session(a) /\ UNCHANGED <<plan, status, end, pc, stage>>
      /\ pc[a] = "skip" /\ a \in Agents /\ c \in Open(a) /\ result[c] = "none"
  BY CallParts DEF IInv, Sessions, Skip, MaySkip, First, Open
<1>2. \A d \in Calls \ {c} : result'[d] = result[d] /\ state'[d] = state[d]
  BY Stored DEF Skip
<1>3. CASE b # a
  <2>1. \A d \in Of(b) : d \in Calls \ {c}
    BY <1>3 DEF Of
  <2> QED BY <1>1, <1>2, <2>1, SessionKept
<1>4. CASE b = a
  <2>1. end[a] # "success" /\ status[a] # "completed"
    BY <1>1 DEF Session
  <2>2. Of(a)' = Of(a) /\ Of(a) \subseteq Calls
    BY <1>1 DEF Of
  <2>3. Finals(a) \subseteq Finals(a)'
    BY <1>1, <1>2, <2>2 DEF Finals
  <2> QED BY <1>1, <1>4, <2>1, <2>2, <2>3 DEF Session, Shared
<1> QED BY <1>3, <1>4

\* Every step keeps batches homogeneous and success with a finish_task.
LEMMA SessionsStep == ASSUME IInv, [Next]_vars PROVE Sessions'
<1> USE DEF ledger, run, manager, outside, bounds
<1> TypeOK /\ Sessions
  BY DEF IInv
<1> "cancelled" \in Outcomes \ {"success"} /\ "unrecoverable_error" \in Outcomes \ {"success"}
  BY DEF Outcomes
\* Steps that leave every ledger and all stages alone.
<1>1. ASSUME UNCHANGED <<plan, ledger, stage>>,
             \A a \in Agents :
               /\ pc'[a] = pc[a] \/ pc'[a] \notin {"skip", "loop", "run", "record"}
               /\ \/ end'[a] = end[a] /\ (pc'[a] = pc[a] \/ pc'[a] = "finish" \/ end[a] # "success")
                  \/ end'[a] # "success"
               /\ status'[a] = "completed" => status[a] = "completed" \/ end[a] = "success"
      PROVE  Sessions'
  BY <1>1, SessionKept DEF Sessions
<1>2. ASSUME NEW c \in Calls, NEW s, stage' = [stage EXCEPT ![c] = s], s # "marked", stage[c] # "out",
             UNCHANGED <<plan, result, run>>, \A d \in Calls : state'[d] = "absent" <=> state[d] = "absent",
             \A a \in Agents : status'[a] = "completed" => status[a] = "completed"
      PROVE  Sessions'
  BY <1>2, SessionKept DEF Sessions, TypeOK, Of
<1>3. ASSUME NEW a \in Agents, ModelFails(a) PROVE Sessions'
  BY <1>3, SessionLeave DEF ModelFails
<1>4. ASSUME NEW a \in Agents, Succeed(a) PROVE Sessions'
  <2> SUFFICES ASSUME NEW b \in Agents PROVE Session(b)'
    BY DEF Sessions
  <2>1. /\ Session(b) /\ UNCHANGED <<plan, ledger, status, stage>>
        /\ pc[a] = "skip" /\ Open(a) = {} /\ Leave(a, "success")
    BY <1>4 DEF Sessions, Succeed
  <2>2. CASE b # a
    <3>1. pc'[b] = pc[b] /\ end'[b] = end[b]
      BY <2>1, <2>2 DEF Leave, TypeOK
    <3> QED BY <2>1, <3>1, SessionKept
  <2>3. CASE b = a
    <3>1. pc'[a] \in {"close", "finish"}
      BY <2>1 DEF Leave, TypeOK
    <3>2. Finals(a)' = Finals(a) /\ Open(a)' = Open(a) /\ Of(a)' = Of(a)
      BY <2>1, SameSession DEF Of
    <3> QED BY <2>1, <2>3, <3>1, <3>2 DEF Session, Shared
  <2> QED BY <2>2, <2>3
<1>5. ASSUME NEW a \in Agents, Finish(a) PROVE Sessions'
  BY <1>1, <1>5 DEF Finish, TypeOK, Outcomes
<1>6. ASSUME NEW a \in Agents, StopSeen(a) PROVE Sessions'
  BY <1>6, SessionAbandon DEF StopSeen
<1>7. ASSUME NEW c \in Calls, Unmark(c) PROVE Sessions'
  <2>1. stage[c] \in Marked
    BY <1>7 DEF Unmark, MayUnmark, First, In
  <2>2. stage[c] # "out" /\ state[c] # "absent"
    BY <2>1 DEF Marked, Ended, IInv, Accounted, Account
  <2>3. \A d \in Calls : state'[d] = "absent" <=> state[d] = "absent"
    BY <1>7, <2>2 DEF Unmark, TypeOK
  <2> QED BY <1>2, <1>7, <2>2, <2>3 DEF Unmark
<1>8. ASSUME NEW a \in Agents, Abandoned(a) PROVE Sessions'
  <2>1. end[a] \in Outcomes /\ end[a] # "success"
    BY <1>8 DEF Abandoned, Drained, Sessions, Session, TypeOK, Outcomes
  <2> QED BY <1>8, <2>1, SessionLeave DEF Abandoned
<1>9. ASSUME NEW c \in Calls, Start(c) \/ Enter(c) \/ Lock(c) \/ Ends(c) \/ Writes(c) \/ Wait(c) PROVE Sessions'
  <2>1. PICK s \in {"wait", "lock", "work", "ok", "error", "gone"} : Moves(c, s)
    BY <1>9 DEF Start, Enter, Lock, Ends, Writes, Wait
  <2>2. stage[c] # "out"
    BY <1>9 DEF Start, Enter, MayEnter, Lock, Ends, Writes, Wait
  <2>3. UNCHANGED <<plan, ledger, run, status>> /\ stage' = [stage EXCEPT ![c] = s]
    BY <2>1 DEF Moves
  <2> QED BY <1>2, <2>2, <2>3
<1>10. ASSUME NEW c \in Calls, Spawn(c) PROVE Sessions'
  <2>1. \A a \in Agents : status'[a] = "completed" => status[a] = "completed"
    BY <1>10 DEF Spawn, TypeOK
  <2> QED BY <1>2, <1>10, <2>1 DEF Spawn
<1>11. ASSUME NEW a \in Agents, Interrupt(a), plan' = plan,
              \A b \in Agents : status'[b] = "completed" => status[b] = "completed"
       PROVE  Sessions'
  <2>1. Abandon(a, "cancelled") /\ InFlight(a) => Sessions'
    BY <1>11, SessionInterrupt
  <2>2. ASSUME stage' = AllOut(a), Leave(a, "cancelled"), UNCHANGED ledger PROVE Sessions'
    <3> SUFFICES ASSUME NEW b \in Agents PROVE Session(b)'
      BY DEF Sessions
    <3>1. \A c \in Of(b) : stage'[c] = "out" \/ stage'[c] = stage[c]
      BY <2>2, AllOutTyped DEF Of
    <3>2. /\ b # a => pc'[b] = pc[b] /\ end'[b] = end[b]
          /\ b = a => pc'[b] \in {"close", "finish"} /\ end'[b] = "cancelled"
      BY <2>2, LeaveTyped DEF TypeOK
    <3> QED BY <1>11, <2>2, <3>1, <3>2, SessionKept DEF Sessions
  <2>3. ASSUME end' = [end EXCEPT ![a] = "cancelled"], UNCHANGED <<pc, ledger, stage, failed, threads>> PROVE Sessions'
    BY <1>1, <1>11, <2>3 DEF TypeOK
  <2> QED BY <1>11, <2>1, <2>2, <2>3, Interrupted
<1>12. ASSUME Dismiss PROVE Sessions'
  <2>1. \A b \in Agents : status'[b] = "completed" => status[b] = "completed"
    BY <1>12 DEF Dismiss, TypeOK
  <2> QED BY <1>1, <1>11, <1>12, <2>1 DEF Dismiss, Agents
<1>13. ASSUME NEW c \in Calls, CancelAgent(c) PROVE Sessions'
  <2>1. CASE Dismiss
    BY <1>12, <2>1
  <2>2. CASE \E s \in {"ok", "error", "gone"} : stage[c] \in {"work", "drain"} /\ Moves(c, s)
    BY <1>2, <2>2 DEF Moves
  <2> QED BY <1>13, <2>1, <2>2 DEF CancelAgent
<1>14. CASE Take
  <2>1. /\ pc'["child"] \in {"finish", "recover"} /\ end'["child"] \in {"cancelled", "none"}
        /\ status'["child"] \in {"cancelling", "running"}
        /\ \A a \in Agents \ {"child"} : pc'[a] = pc[a] /\ end'[a] = end[a] /\ status'[a] = status[a]
    BY <1>14 DEF Take, TypeOK, Agents
  <2> QED BY <1>1, <1>14, <2>1 DEF Take
<1>15. CASE Closed
  <2>1. /\ pc["parent"] = "close" /\ pc'["parent"] = "finish"
        /\ end'["parent"] = end["parent"] \/ end'["parent"] # "success"
        /\ \A a \in Agents \ {"parent"} : pc'[a] = pc[a] /\ end'[a] = end[a]
    BY <1>15 DEF Closed, TypeOK, Agents
  <2> QED BY <1>1, <1>15, <2>1 DEF Closed
<1>16. CASE Resume
  <2>1. pc["parent"] = "off" /\ pc' = [pc EXCEPT !["parent"] = "recover"] /\ end["parent"] # "success"
    BY <1>16 DEF Resume, Sessions, Session, Agents
  <2> QED BY <1>1, <1>16, <2>1 DEF Resume, TypeOK
<1>17. CASE GiveBack \/ RequestCancel \/ TakeAway \/ UNCHANGED vars \/ \E c \in Calls : ThreadEnds(c)
  BY <1>1, <1>17 DEF GiveBack, RequestCancel, TakeAway, ThreadEnds, Fault, vars
<1>18. CASE Shutdown
  <2>1. CASE Interrupt("parent")
    BY <1>11, <1>18, <2>1 DEF Shutdown, Fault, Agents
  <2>2. CASE /\ pc["parent"] = "finish" /\ pc' = [pc EXCEPT !["parent"] = "off"]
             /\ end' = [end EXCEPT !["parent"] = "none"]
             /\ UNCHANGED <<ledger, stage, failed>>
    BY <1>1, <1>18, <2>2 DEF Shutdown, Fault, TypeOK
  <2> QED BY <1>18, <2>1, <2>2 DEF Shutdown
<1>19. ASSUME NEW a \in Agents, StoreFails(a) PROVE Sessions'
  <2>1. UNCHANGED <<plan, ledger, status>>
    BY <1>19 DEF StoreFails, Fault
  <2>2. CASE Abandon(a, "unrecoverable_error")
    BY <2>1, <2>2, SessionAbandon
  <2>3. CASE stage' = AllOut(a) /\ Leave(a, "unrecoverable_error")
    BY <2>1, <2>3, SessionLeave
  <2>4. CASE /\ pc[a] = "finish" \/ (a = "child" /\ MayTake)
             /\ pc' = [pc EXCEPT ![a] = "off"] /\ end' = [end EXCEPT ![a] = "none"] /\ UNCHANGED stage
    BY <1>1, <2>1, <2>4 DEF TypeOK
  <2> QED BY <1>19, <2>2, <2>3, <2>4 DEF StoreFails
<1>20. CASE Crash
  <2> SUFFICES ASSUME NEW b \in Agents PROVE Session(b)'
    BY DEF Sessions
  <2>1. /\ UNCHANGED <<plan, ledger, status>> /\ pc'[b] = "off" /\ end'[b] = "none"
        /\ \A c \in Of(b) : stage'[c] = "out"
    BY <1>20 DEF Crash, Fault, Of
  <2> QED BY <2>1, SessionKept DEF Sessions
<1> QED
  BY <1>3, <1>4, <1>5, <1>6, <1>7, <1>8, <1>9, <1>10, <1>12, <1>13, <1>14, <1>15, <1>16, <1>17,
     <1>18, <1>19, <1>20, SessionRecover, SessionAsk, SessionMark, SessionRecord, SessionSkip
     DEF Next, System, Task, Batch, Agent, Closing

-----------------------------------------------------------------------------
(* The child within the run of its parent. *)

\* Every step keeps the child's run within its parent's.
LEMMA NestedStep == ASSUME IInv, [Next]_vars PROVE Nested'
<1> USE DEF ledger, run, manager, outside, bounds
<1> TypeOK /\ Nested /\ "parent" \in Agents /\ "child" \in Agents
  BY DEF IInv, Agents
<1>1. faults \in Nat
  BY BoundsAssumption DEF TypeOK
\* Nothing starts, and a run of the parent goes on as far as its child's end.
<1>2. ASSUME started' => started, failed' => failed, faults' = faults,
             pc'["child"] = "off" \/ pc["child"] # "off",
             \/ pc'["parent"] = pc["parent"]
             \/ pc'["parent"] \notin {"off", "finish"}
             \/ pc["parent"] = "finish" /\ pc'["parent"] = "off",
             status'["child"] \in Active => status["child"] \in Active
      PROVE  Nested'
  BY <1>2 DEF Nested
<1>3. ASSUME NEW a \in Agents, Recover(a) PROVE Nested'
  <2>1. /\ pc["parent"] \notin {"off", "finish"} \/ pc'["parent"] = pc["parent"]
        /\ pc'["parent"] = pc["parent"] \/ pc'["parent"] \in {"close", "skip", "loop"}
        /\ pc'["child"] = pc["child"] \/ pc["child"] = "recover"
        /\ failed' => failed
    BY <1>3 DEF Recover, Leave, TypeOK, Agents
  <2>2. started' => started \/ pc["parent"] = "recover"
    BY <1>3 DEF Recover
  <2>3. pc["parent"] = "recover" => pc'["parent"] \notin {"off", "finish"}
    BY <2>1
  <2> QED BY <1>3, <2>1, <2>2, <2>3 DEF Recover, Nested
<1>4. ASSUME NEW a \in Agents, Ask(a) PROVE Nested'
  BY <1>2, <1>4 DEF Ask
<1>5. ASSUME NEW a \in Agents, NEW o, Leave(a, o), pc[a] # "off", UNCHANGED <<started, status, faults>>
      PROVE  Nested'
  <2>1. /\ pc'["child"] = pc["child"] \/ pc["child"] # "off"
        /\ pc'["parent"] \in {pc["parent"], "close"} /\ (failed' => failed)
    BY <1>5 DEF Leave, TypeOK, Agents
  <2> QED BY <1>2, <1>5, <2>1
<1>6. ASSUME NEW a \in Agents, ModelFails(a) \/ Succeed(a) PROVE Nested'
  BY <1>5, <1>6 DEF ModelFails, Succeed
<1>7. ASSUME NEW c \in Calls, Mark(c) \/ Record(c) \/ Skip(c) \/ Unmark(c) PROVE Nested'
  <2>1. /\ UNCHANGED <<manager, status, faults>> /\ c[1] \in Agents
        /\ \E s \in {"run", "record", "skip", "loop"} :
             pc' = pc \/ (pc' = [pc EXCEPT ![c[1]] = s] /\ pc[c[1]] # "off")
    BY <1>7, CallParts DEF Mark, MayMark, Record, MayRecord, Skip, Unmark
  <2>2. /\ pc'["child"] = "off" \/ pc["child"] # "off"
        /\ pc'["parent"] = pc["parent"] \/ pc'["parent"] \notin {"off", "finish"}
    BY <2>1 DEF TypeOK, Agents
  <2> QED BY <1>2, <2>1, <2>2
<1>8. ASSUME NEW a \in Agents, NEW o, Abandon(a, o), pc[a] # "off",
             UNCHANGED <<started, status>>, faults' = faults \/ faults' > 0
      PROVE  Nested'
  <2>1. /\ a = "child" => pc'["parent"] = pc["parent"]
        /\ a = "parent" => pc'["parent"] = "abort" /\ pc'["child"] = pc["child"]
        /\ failed' = failed
    BY <1>8 DEF Abandon, TypeOK, Agents
  <2> QED BY <1>1, <1>8, <2>1 DEF Nested, Agents
<1>9. ASSUME NEW a \in Agents, StopSeen(a) PROVE Nested'
  BY <1>8, <1>9 DEF StopSeen
<1>10. ASSUME NEW a \in Agents, Abandoned(a) PROVE Nested'
  BY <1>5, <1>10 DEF Abandoned, Drained
<1>11. ASSUME NEW c \in Calls, Start(c) \/ Enter(c) \/ Lock(c) \/ Ends(c) \/ Writes(c) \/ Wait(c) PROVE Nested'
  <2>1. \E s : Moves(c, s)
    BY <1>11 DEF Start, Enter, Lock, Ends, Writes, Wait
  <2>2. failed' => failed
    BY <1>11 DEF Start, Enter, Lock, Ends, Writes, Wait
  <2>3. UNCHANGED <<started, status, pc, faults>>
    BY <2>1 DEF Moves
  <2> QED BY <1>2, <2>2, <2>3
<1>12. ASSUME NEW c \in Calls, Spawn(c) PROVE Nested'
  <2>1. c[1] = "parent"
    BY <1>12, CallParts, ReadOnlyAssumption DEF Spawn, TypeOK, Agents, Calls
  <2>2. pc["parent"] = "run"
    BY <1>12, <2>1 DEF Spawn, IInv, Placed
  <2> QED BY <1>12, <2>2 DEF Spawn, Nested
<1>13. ASSUME NEW a \in Agents, Interrupt(a),
              UNCHANGED started, status'["child"] \in Active => status["child"] \in Active,
              faults' = faults \/ faults' > 0
       PROVE  Nested'
  <2>1. /\ pc'["child"] = pc["child"] \/ pc["child"] # "off"
        /\ pc'["parent"] \in {pc["parent"], "abort", "close"} /\ (failed' => failed)
    BY <1>13 DEF Interrupt, Abandon, Leave, Drained, TypeOK, Agents
  <2> QED BY <1>1, <1>13, <2>1 DEF Nested
<1>14. ASSUME Dismiss PROVE Nested'
  <2>1. status["child"] \in Active
    BY <1>14 DEF Dismiss, Active
  <2> QED BY <1>2, <1>13, <1>14, <2>1 DEF Dismiss
<1>15. ASSUME NEW c \in Calls, CancelAgent(c) PROVE Nested'
  <2>1. CASE Dismiss
    BY <1>14, <2>1
  <2>2. CASE UNCHANGED failed /\ \E s : Moves(c, s)
    BY <1>2, <2>2 DEF Moves
  <2> QED BY <1>15, <2>1, <2>2 DEF CancelAgent
<1>16. CASE Take
  <2>1. /\ pc'["parent"] = pc["parent"] /\ UNCHANGED <<manager, faults>>
        /\ status["child"] \in Active /\ (started \/ pc["parent"] = "close")
    BY <1>16 DEF Take, MayTake, TypeOK, Agents
  <2> QED BY <2>1 DEF Nested
<1>17. CASE Closed
  <2>1. /\ started' = FALSE /\ UNCHANGED <<failed, status, faults>>
        /\ pc'["child"] = "off" /\ (status["child"] \notin Active \/ failed)
    BY <1>17 DEF Closed, TypeOK, Agents
  <2> QED BY <1>1, <2>1 DEF Nested
<1>18. ASSUME NEW a \in Agents, Finish(a) PROVE Nested'
  <2>1. /\ pc[a] = "finish" /\ pc' = [pc EXCEPT ![a] = "off"] /\ UNCHANGED <<manager, faults>>
        /\ status'["child"] \in Active => status["child"] \in Active
    BY <1>18 DEF Finish, TypeOK, Active, Outcomes, Agents
  <2>2. /\ pc'["child"] = "off" \/ pc["child"] # "off"
        /\ pc'["parent"] = pc["parent"] \/ (pc["parent"] = "finish" /\ pc'["parent"] = "off")
    BY <2>1 DEF TypeOK, Agents
  <2> QED BY <1>2, <2>1, <2>2
<1>19. CASE GiveBack \/ RequestCancel \/ UNCHANGED vars \/ \E c \in Calls : ThreadEnds(c)
  BY <1>2, <1>19 DEF GiveBack, RequestCancel, ThreadEnds, vars
<1>20. CASE Resume
  <2>1. /\ pc'["parent"] = "recover" /\ pc'["child"] = pc["child"] /\ UNCHANGED <<started, status, faults>>
        /\ failed' = FALSE
    BY <1>20 DEF Resume, TypeOK, Agents
  <2> QED BY <2>1, <1>2
<1>21. ASSUME Fault PROVE faults' > 0
  BY <1>1, <1>21 DEF Fault
<1>22. CASE Shutdown
  <2>1. CASE Interrupt("parent")
    BY <1>13, <1>21, <1>22, <2>1 DEF Shutdown
  <2>2. CASE pc["parent"] = "finish" /\ pc' = [pc EXCEPT !["parent"] = "off"] /\ UNCHANGED failed
    BY <1>21, <1>22, <2>2 DEF Shutdown, Nested, TypeOK, Agents
  <2> QED BY <1>22, <2>1, <2>2 DEF Shutdown
<1>23. ASSUME NEW a \in Agents, StoreFails(a) PROVE Nested'
  <2>1. faults' > 0 /\ UNCHANGED <<status, started>>
    BY <1>21, <1>23 DEF StoreFails
  <2>2. CASE /\ pc[a] \in {"recover", "skip"} \/ \E c \in Of(a) : MayMark(c) \/ MayRecord(c)
             /\ Abandon(a, "unrecoverable_error")
    <3>1. pc[a] # "off"
      BY <2>2 DEF MayMark, MayRecord, Of
    <3> QED BY <1>8, <2>1, <2>2, <3>1
  <2>3. CASE (\E c \in Of(a) : MayUnmark(c)) /\ Leave(a, "unrecoverable_error")
    <3>1. pc[a] # "off"
      BY <2>3 DEF MayUnmark, Drained, Of
    <3>2. /\ pc'["child"] = pc["child"] \/ pc["child"] # "off"
          /\ pc'["parent"] \in {pc["parent"], "close"} /\ (failed' => failed)
      BY <2>3, <3>1 DEF Leave, TypeOK, Agents
    <3> QED BY <2>1, <3>2 DEF Nested
  <2>4. CASE /\ pc[a] = "finish" \/ (a = "child" /\ MayTake)
             /\ pc' = [pc EXCEPT ![a] = "off"]
    <3>1. /\ pc'["child"] = "off" \/ pc'["child"] = pc["child"]
          /\ pc'["parent"] = pc["parent"] \/ pc["parent"] = "finish"
      BY <2>4 DEF TypeOK, Agents
    <3> QED BY <2>1, <3>1 DEF Nested
  <2> QED BY <1>23, <2>2, <2>3, <2>4 DEF StoreFails
<1>24. CASE Crash
  BY <1>21, <1>24 DEF Crash, Nested
<1>25. CASE TakeAway
  BY <1>21, <1>25 DEF TakeAway, Nested
<1> QED
  BY <1>3, <1>4, <1>6, <1>7, <1>9, <1>10, <1>11, <1>12, <1>14, <1>15, <1>16, <1>17, <1>18, <1>19,
     <1>20, <1>22, <1>23, <1>24, <1>25 DEF Next, System, Task, Batch, Agent, Closing

-----------------------------------------------------------------------------
(* The theorems. *)

\* The invariant holds before the first run.
LEMMA InvInit == Init => IInv
<1> SUFFICES ASSUME Init PROVE IInv
  OBVIOUS
<1>1. TypeOK
  BY TypeInit
<1>2. Placed /\ Accounted
  BY CallParts DEF Init, Placed, Accounted, Account
<1>3. Sessions
  <2>1. \A a \in Agents : Open(a) = {} /\ Finals(a) = {} /\ end[a] = "none" /\ status[a] # "completed"
    BY DEF Init, Open, Asked, Finals, Of
  <2>2. \A a \in Agents : pc[a] \in {"recover", "off"} /\ \A c \in Of(a) : stage[c] = "out"
    BY DEF Init, Of
  <2> QED BY <2>1, <2>2 DEF Sessions, Session
<1>4. Inside = {} /\ Working = {}
  BY DEF Init, Inside, Working
<1>5. Barrier /\ Readers /\ Nested
  BY <1>4 DEF Init, Barrier, Readers, Nested, Agents, Active
<1> QED BY <1>1, <1>2, <1>3, <1>5 DEF IInv

\* Every step of the two agents preserves the invariant.
LEMMA InvStep == IInv /\ [Next]_vars => IInv'
  BY TypeStep, PlacedStep, AccountedStep, SessionsStep, BarrierStep, ReadersStep, NestedStep DEF IInv

\* The invariant holds in every reachable state.
LEMMA Invariance == Spec => []IInv
  BY InvInit, InvStep, PTL DEF Spec

\* However calls of the two agents interleave and are cancelled, a write or
\* finish_task shares the workspace with no other process and with no other call
\* that is at work or drained.  What else may still be in it is the thread of a
\* read_file whose call was cancelled: the barrier does not wait for it, and the
\* theorem says that nothing else is left behind like that.
THEOREM Alone == Spec => []WorkspaceAlone
<1>1. IInv => WorkspaceAlone
  <2> SUFFICES ASSUME IInv, NEW c \in Working \cup threads, NEW d \in Working \cup threads,
                      ~Shared(c), c # d
               PROVE  d \in threads \ Working /\ plan[d] = "read"
    BY DEF IInv, Barrier, WorkspaceAlone
  <2>1. Working \subseteq Inside /\ \A e \in Working : ~Shared(e) => Exclusive(e)
    BY DEF Working, Inside, Locks
  <2>2. c \in Working /\ Exclusive(c)
    BY <2>1 DEF IInv, Readers, Shared
  <2>3. d \notin Working
    BY <2>1, <2>2 DEF IInv, Barrier
  <2> QED BY <2>3 DEF IInv, Readers
<1> QED BY <1>1, Invariance, PTL

\* No sequence of crashes, cancellations, failing stores and resumed runs
\* executes a write a second time.
THEOREM NeverTwice == Spec => []MutatedOnce
<1>1. IInv => MutatedOnce
  BY DEF IInv, Accounted, Account, MutatedOnce
<1> QED BY <1>1, Invariance, PTL

\* The results of the ledger and the status "completed" are never wrong about
\* the workspace and the calls.
THEOREM Truthful == Spec => []ResultsAreTrue
<1>1. IInv => ResultsAreTrue
  BY DEF IInv, Accounted, Account, Sessions, Session, ResultsAreTrue
<1> QED BY <1>1, Invariance, PTL

\* When a parent's run has ended, however it did, its child's run has, and no task
\* of the two is left, though perhaps the thread of a cancelled read_file.
THEOREM NothingLeftBehind == Spec => []NoOrphans
<1>1. IInv => NoOrphans
  <2> SUFFICES ASSUME IInv, pc["parent"] = "off"
               PROVE  /\ pc["child"] = "off" /\ \A c \in Calls : stage[c] = "out"
                      /\ faults = 0 => status["child"] \notin Active
    BY DEF NoOrphans
  <2>1. pc["child"] = "off" /\ (faults = 0 => status["child"] \notin Active)
    BY DEF IInv, Nested
  <2>2. \A c \in Calls : pc[c[1]] = "off"
    BY <2>1, CallParts DEF Agents
  <2>3. \A c \in Calls : stage[c] = "out"
    BY <2>2 DEF IInv, Placed, TypeOK, Stages
  <2> QED BY <2>1, <2>3
<1> QED BY <1>1, Invariance, PTL

-----------------------------------------------------------------------------
(* Nothing goes on for ever: every step leaves less to do. *)

\* What is left of the bounds.
Chances == (MaxFaults - faults) + (MaxResumes - resumes)
\* How far an agent's run is from its end; a child that is yet to run is furthest.
Distance(p) ==
  CASE p = "recover" -> 7
    [] p \in {"loop", "run", "record"} -> 6
    [] p = "skip" -> 5
    [] p = "abort" -> 4
    [] p = "close" -> 3
    [] p = "finish" -> 2
    [] OTHER -> 0
YetToRun(a) == a = "child" /\ pc[a] = "off" /\ status[a] \in Active \cup {"absent"}
Phase(a) == IF YetToRun(a) THEN 8 ELSE Distance(pc[a])
Delegation ==
  CASE status["child"] = "absent" -> 3
    [] status["child"] \in {"queued", "running"} -> 2
    [] status["child"] = "cancelling" -> 1
    [] OTHER -> 0
Requestable == IF stop THEN 0 ELSE 1
Hindered == IF foreign THEN 1 ELSE 0
Phases == Phase("parent") + Phase("child") + Delegation + Requestable + Hindered
\* What the ledger does not have yet.
Unasked == {c \in Calls : state[c] = "absent"}
Unanswered == {c \in Calls : result[c] = "none"}
\* How far a call's task is from its end; a batch that is abandoned starts none.
Rank(c) ==
  CASE stage[c] = "out" -> IF pc[c[1]] = "abort" THEN 0 ELSE 8
    [] stage[c] = "marked" -> 7
    [] stage[c] = "due" -> 6
    [] stage[c] = "wait" -> 5
    [] stage[c] = "lock" -> 4
    [] stage[c] = "work" -> 3
    [] stage[c] = "drain" -> 2
    [] stage[c] \in Ended -> 1
    [] OTHER -> 0

\* A step uses up one of the bounds or leaves them and, in this order, brings
\* the runs closer to their end, the ledger to its completion, the tasks of the
\* batches to theirs or a thread that was left behind to its own.
PhasesFall == Phases' < Phases
LedgerGrows ==
  /\ Phases' <= Phases
  /\ Unasked' \subseteq Unasked /\ Unanswered' \subseteq Unanswered
  /\ \E c \in Calls : c \in Unasked \ Unasked' \/ c \in Unanswered \ Unanswered'
TasksAdvance ==
  /\ Phases' <= Phases
  /\ Unasked' \subseteq Unasked /\ Unanswered' \subseteq Unanswered
  /\ \A c \in Calls : Rank(c)' <= Rank(c)
  /\ \E c \in Calls : Rank(c)' < Rank(c)
ThreadsDwindle ==
  /\ Phases' <= Phases
  /\ Unasked' \subseteq Unasked /\ Unanswered' \subseteq Unanswered
  /\ \A c \in Calls : Rank(c)' <= Rank(c)
  /\ threads' \subseteq threads /\ threads' # threads
MovesOn ==
  \/ Chances' < Chances
  \/ Chances' = Chances /\ (PhasesFall \/ LedgerGrows \/ TasksAdvance \/ ThreadsDwindle)

\* The distance of a run from its end is a natural number.
LEMMA DistanceIsNatural == ASSUME NEW p PROVE Distance(p) \in Nat
BY DEF Distance

\* The measures are natural numbers, before a step and after it: none falls for ever.
LEMMA Measured ==
  /\ \A a \in Agents : Phase(a) \in Nat /\ Phase(a)' \in Nat
  /\ Delegation \in Nat /\ Delegation' \in Nat
  /\ Requestable \in Nat /\ Requestable' \in Nat
  /\ Hindered \in Nat /\ Hindered' \in Nat
  /\ Phases \in Nat /\ Phases' \in Nat
  /\ \A c \in Calls : Rank(c) \in Nat /\ Rank(c)' \in Nat
<1>1. ASSUME NEW a \in Agents PROVE Phase(a) \in Nat /\ Phase(a)' \in Nat
  <2>1. Distance(pc[a]) \in Nat /\ Distance(pc'[a]) \in Nat
    BY DistanceIsNatural
  <2> QED BY <2>1 DEF Phase
<1>2. Delegation \in Nat /\ Delegation' \in Nat
  BY DEF Delegation
<1>3. Requestable \in Nat /\ Requestable' \in Nat /\ Hindered \in Nat /\ Hindered' \in Nat
  BY DEF Requestable, Hindered
<1>4. ASSUME NEW c \in Calls PROVE Rank(c) \in Nat /\ Rank(c)' \in Nat
  BY DEF Rank
<1>5. "parent" \in Agents /\ "child" \in Agents
  BY DEF Agents
<1>6. Phases \in Nat /\ Phases' \in Nat
  BY <1>1, <1>2, <1>3, <1>5 DEF Phases
<1> QED BY <1>1, <1>2, <1>3, <1>4, <1>6

\* So is what is left of the bounds.
LEMMA ChancesAreNatural == ASSUME TypeOK PROVE Chances \in Nat
BY BoundsAssumption DEF TypeOK, Chances

\* An agent's run gets closer to its end, and nothing else changes the phases.
LEMMA RunAdvances ==
  ASSUME TypeOK, TypeOK', NEW a \in Agents, NEW p, pc' = [pc EXCEPT ![a] = p],
         pc[a] # "off", p # "off", Distance(p) <= Distance(pc[a]),
         UNCHANGED <<status, stop, foreign>>
  PROVE  Phases' <= Phases /\ (Distance(p) < Distance(pc[a]) => PhasesFall)
<1>1. /\ pc'[a] = p /\ \A b \in Agents \ {a} : pc'[b] = pc[b]
      /\ Delegation' = Delegation /\ Requestable' = Requestable /\ Hindered' = Hindered
  BY DEF TypeOK, Delegation, Requestable, Hindered
<1>2. Phase(a) = Distance(pc[a]) /\ Phase(a)' = Distance(p)
  BY <1>1 DEF Phase, YetToRun, Distance
<1>3. \A b \in Agents \ {a} : Phase(b)' = Phase(b)
  BY <1>1 DEF Phase, YetToRun, Distance
<1>4. /\ \A b \in Agents : Phase(b) \in Nat /\ Phase(b)' \in Nat
      /\ Delegation \in Nat /\ Requestable \in Nat /\ Hindered \in Nat
  BY Measured
<1>5. CASE a = "parent"
  BY <1>1, <1>2, <1>3, <1>4, <1>5 DEF Phases, PhasesFall, Agents
<1>6. CASE a = "child"
  BY <1>1, <1>2, <1>3, <1>4, <1>6 DEF Phases, PhasesFall, Agents
<1> QED BY <1>5, <1>6 DEF Agents

\* Nothing changes the phases.
LEMMA PhasesStay ==
  ASSUME TypeOK, UNCHANGED <<pc, status, stop, foreign>>
  PROVE  Phases' = Phases /\ Phases \in Nat
<1>1. Phases' = Phases
  BY DEF Phases, Phase, YetToRun, Distance, Delegation, Requestable, Hindered
<1> QED BY <1>1, Measured

\* A run that leaves its loop is closer to its end.
LEMMA LeaveAdvances ==
  ASSUME TypeOK, TypeOK', NEW a \in Agents, NEW o \in Outcomes, Leave(a, o),
         pc[a] \notin {"off", "close", "finish"}, UNCHANGED <<status, stop, foreign>>
  PROVE  PhasesFall
<1>1. PICK p \in {"close", "finish"} : pc' = [pc EXCEPT ![a] = p]
  BY DEF Leave
<1>2. Distance(p) < Distance(pc[a])
  BY <1>1 DEF Distance, TypeOK
<1>3. Distance(p) <= Distance(pc[a]) /\ p # "off"
  BY <1>1, <1>2 DEF Distance, TypeOK
<1> QED BY <1>1, <1>2, <1>3, RunAdvances

\* A task advances, and nothing else changes.
LEMMA TaskAdvances ==
  ASSUME TypeOK, TypeOK', NEW c \in Calls, NEW s, Moves(c, s),
         stage[c] \notin {"out", "marked", "kept"} \cup Ended,
         s \in {"lock", "work", "wait"} \cup Ended,
         s = "wait" => stage[c] = "due", s = "lock" => stage[c] \in {"due", "wait"},
         s = "work" => stage[c] \in {"due", "lock"}
  PROVE  TasksAdvance
<1>1. /\ stage' = [stage EXCEPT ![c] = s] /\ UNCHANGED <<state, result, status, pc, stop, foreign>>
  BY DEF Moves, ledger, run, outside
<1>2. Phases' <= Phases
  BY <1>1, PhasesStay
<1>3. Unasked' = Unasked /\ Unanswered' = Unanswered
  BY <1>1 DEF Unasked, Unanswered
<1>4. \A d \in Calls \ {c} : Rank(d)' = Rank(d)
  BY <1>1 DEF Rank, TypeOK
<1>5. Rank(c)' < Rank(c)
  <2>1. stage'[c] = s /\ stage[c] \in {"due", "wait", "lock", "work", "drain"}
    BY <1>1 DEF TypeOK, Stages, Ended
  <2> QED BY <2>1 DEF Rank, Ended
<1>6. \A d \in Calls : Rank(d) \in Nat /\ Rank(d)' \in Nat
  BY Measured
<1>7. \A d \in Calls : Rank(d)' <= Rank(d)
  BY <1>4, <1>5, <1>6
<1> QED BY <1>2, <1>3, <1>5, <1>7 DEF TasksAdvance

\* A child that is dismissed is closer to its end, also one that waits for its slot.
LEMMA DismissAdvances == ASSUME TypeOK, TypeOK', Dismiss PROVE PhasesFall
<1>1. /\ status["child"] \in {"queued", "running"} /\ status' = [status EXCEPT !["child"] = "cancelling"]
      /\ UNCHANGED <<stop, foreign>> /\ status'["child"] = "cancelling"
      /\ "parent" \in Agents /\ "child" \in Agents
  BY DEF Dismiss, TypeOK, Agents
<1>2. Delegation = 2 /\ Delegation' = 1 /\ Requestable' = Requestable /\ Hindered' = Hindered
  BY <1>1 DEF Delegation, Requestable, Hindered
<1>3. pc'["parent"] = pc["parent"] /\ Distance(pc'["child"]) <= Distance(pc["child"])
      /\ (pc'["child"] = "off" <=> pc["child"] = "off")
  <2>1. CASE pc["child"] = "off"
    <3>1. pc' = pc
      BY <2>1 DEF Dismiss, run
    <3> QED BY <1>1, <3>1, DistanceIsNatural
  <2>2. CASE Interrupt("child")
    <3>1. pc["child"] \in {"recover", "loop", "run", "record", "skip"} /\ pc' = [pc EXCEPT !["child"] = "abort"]
          => pc'["parent"] = pc["parent"] /\ Distance(pc'["child"]) <= Distance(pc["child"])
             /\ (pc'["child"] = "off" <=> pc["child"] = "off")
      BY <1>1 DEF Distance, TypeOK
    <3>2. pc["child"] = "abort" /\ pc' = [pc EXCEPT !["child"] = "finish"]
          => pc'["parent"] = pc["parent"] /\ Distance(pc'["child"]) <= Distance(pc["child"])
             /\ (pc'["child"] = "off" <=> pc["child"] = "off")
      BY <1>1 DEF Distance, TypeOK
    <3>3. pc' = pc => pc'["parent"] = pc["parent"] /\ Distance(pc'["child"]) <= Distance(pc["child"])
                      /\ (pc'["child"] = "off" <=> pc["child"] = "off")
      BY <1>1, DistanceIsNatural
    <3> QED BY <2>2, <3>1, <3>2, <3>3 DEF Interrupt, Abandon, Leave, Drained
  <2> QED BY <2>1, <2>2 DEF Dismiss
<1>4. Phase("parent")' = Phase("parent")
  BY <1>3 DEF Phase, YetToRun, Distance
<1>5. Phase("child")' <= Phase("child")
  <2>1. CASE pc["child"] = "off"
    <3>1. YetToRun("child") /\ YetToRun("child")'
      BY <1>1, <1>3, <2>1 DEF YetToRun, Active
    <3> QED BY <3>1 DEF Phase
  <2>2. CASE pc["child"] # "off"
    <3>1. ~YetToRun("child") /\ ~YetToRun("child")'
      BY <1>3, <2>2 DEF YetToRun
    <3>2. Phase("child") = Distance(pc["child"]) /\ Phase("child")' = Distance(pc'["child"])
      BY <3>1 DEF Phase, Distance
    <3> QED BY <1>3, <3>2
  <2> QED BY <2>1, <2>2
<1>6. /\ Phase("parent") \in Nat /\ Phase("child") \in Nat /\ Phase("child")' \in Nat
      /\ Requestable \in Nat /\ Hindered \in Nat
  BY <1>1, Measured
<1> QED BY <1>2, <1>4, <1>5, <1>6 DEF PhasesFall, Phases

\* Every step leaves less to do.
LEMMA StepMovesOn == ASSUME IInv, Next, TypeOK' PROVE MovesOn
<1> USE DEF ledger, run, manager, outside, bounds
<1> TypeOK
  BY DEF IInv
<1>1. ASSUME UNCHANGED <<faults, resumes>>, PhasesFall \/ LedgerGrows \/ TasksAdvance \/ ThreadsDwindle
      PROVE  MovesOn
  BY <1>1 DEF MovesOn, Chances
<1>2. ASSUME NEW a \in Agents, Recover(a) PROVE MovesOn
  <2>1. CASE Leave(a, "blocked")
    <3>1. PhasesFall
      BY <1>2, <2>1, LeaveAdvances DEF Recover, Outcomes
    <3> QED BY <1>1, <1>2, <3>1 DEF Recover
  <2>2. ASSUME NEW p \in {"skip", "loop"}, pc' = [pc EXCEPT ![a] = p] PROVE MovesOn
    <3>1. pc[a] = "recover" /\ Distance(p) < Distance(pc[a]) /\ Distance(p) <= Distance(pc[a]) /\ p # "off"
      BY <1>2, <2>2 DEF Recover, Distance
    <3>2. PhasesFall
      BY <1>2, <2>2, <3>1, RunAdvances DEF Recover
    <3> QED BY <1>1, <1>2, <3>2 DEF Recover
  <2> QED BY <1>2, <2>1, <2>2 DEF Recover
<1>3. ASSUME NEW a \in Agents, ModelFails(a) \/ Succeed(a) PROVE MovesOn
  <2>1. PhasesFall
    BY <1>3, LeaveAdvances DEF ModelFails, Succeed, Outcomes
  <2> QED BY <1>1, <1>3, <2>1 DEF ModelFails, Succeed
<1>4. ASSUME NEW a \in Agents, StopSeen(a) PROVE MovesOn
  <2>1. /\ pc[a] \in {"loop", "run"} /\ pc' = [pc EXCEPT ![a] = "abort"]
        /\ Distance("abort") < Distance(pc[a]) /\ Distance("abort") <= Distance(pc[a])
    BY <1>4 DEF StopSeen, Abandon, Distance
  <2>2. PhasesFall
    BY <1>4, <2>1, RunAdvances DEF StopSeen
  <2> QED BY <1>1, <1>4, <2>2 DEF StopSeen
<1>5. ASSUME NEW a \in Agents, Abandoned(a) PROVE MovesOn
  <2>1. end[a] \in Outcomes /\ pc[a] = "abort"
    BY <1>5 DEF Abandoned, Drained, TypeOK, Outcomes
  <2>2. PhasesFall
    BY <1>5, <2>1, LeaveAdvances DEF Abandoned
  <2> QED BY <1>1, <1>5, <2>2 DEF Abandoned
<1>6. ASSUME NEW a \in Agents, Ask(a) PROVE MovesOn
  <2>1. PICK last \in Of(a) \ Asked(a) :
          state' = [c \in Calls |-> IF c \in Of(a) \ Asked(a) /\ c[2] <= last[2] THEN "pending" ELSE state[c]]
    BY <1>6 DEF Ask
  <2>2. last \in Unasked \ Unasked'
    <3>1. last \in Calls /\ state[last] = "absent" /\ last[2] <= last[2]
      BY <2>1, CallParts DEF Of, Asked
    <3> QED BY <2>1, <3>1 DEF Unasked
  <2>3. Unasked' \subseteq Unasked /\ Unanswered' = Unanswered
    BY <1>6, <2>1 DEF Ask, Unasked, Unanswered
  <2>4. Phases' <= Phases
    BY <1>6, PhasesStay DEF Ask
  <2>5. LedgerGrows
    BY <2>2, <2>3, <2>4 DEF LedgerGrows, Unasked
  <2> QED BY <1>1, <1>6, <2>5 DEF Ask
<1>7. ASSUME NEW c \in Calls, Mark(c) PROVE MovesOn
  <2> DEFINE a == c[1]
  <2>1. a \in Agents /\ pc[a] = "loop" /\ stage[c] = "out" /\ c \in Group(a) /\ state[c] # "absent"
    BY <1>7, CallParts DEF Mark, MayMark, First, Group, Open, Asked
  <2>2. Unasked' = Unasked /\ Unanswered' = Unanswered
    BY <1>7, <2>1 DEF Mark, Unasked, Unanswered, TypeOK
  <2>3. Phases' <= Phases
    <3>1. CASE pc' = pc
      BY <1>7, <3>1, PhasesStay DEF Mark
    <3>2. CASE pc' = [pc EXCEPT ![a] = "run"]
      <4>1. Distance("run") <= Distance(pc[a])
        BY <2>1 DEF Distance
      <4> HIDE DEF a
      <4> QED BY <1>7, <2>1, <3>2, <4>1, RunAdvances DEF Mark
    <3> QED BY <1>7, <3>1, <3>2 DEF Mark
  <2>4. \A d \in Calls : pc'[d[1]] = "abort" <=> pc[d[1]] = "abort"
    BY <1>7, <2>1, CallParts DEF Mark, TypeOK
  <2>5. ASSUME NEW d \in Calls PROVE Rank(d)' <= Rank(d) /\ (d = c => Rank(d)' < Rank(d))
    <3>1. CASE stage'[d] = stage[d] /\ d # c
      BY <2>4, <3>1, Measured DEF Rank
    <3>2. CASE stage'[d] \in {"marked", "due"} /\ d = c
      BY <2>1, <3>2 DEF Rank, Ended
    <3>3. CASE stage'[d] = "due" /\ stage[d] = "marked" /\ d # c
      BY <3>3 DEF Rank, Ended
    <3> QED BY <1>7, <3>1, <3>2, <3>3 DEF Mark
  <2>6. TasksAdvance
    BY <2>2, <2>3, <2>5 DEF TasksAdvance
  <2> QED BY <1>1, <1>7, <2>6 DEF Mark
<1>8. ASSUME NEW c \in Calls, NEW r \in {"ok", "error", "skipped"}, Store(c, r), result[c] = "none", Phases' <= Phases
      PROVE  LedgerGrows
  <2>1. /\ result'[c] = r /\ state'[c] # "absent"
        /\ \A d \in Calls \ {c} : result'[d] = result[d] /\ state'[d] = state[d]
    BY <1>8, Stored
  <2>2. Unasked' \subseteq Unasked /\ Unanswered' \subseteq Unanswered /\ c \in Unanswered \ Unanswered'
    BY <1>8, <2>1 DEF Unasked, Unanswered
  <2> QED BY <1>8, <2>2 DEF LedgerGrows
<1>9. ASSUME NEW c \in Calls, Record(c) PROVE MovesOn
  <2> DEFINE a == c[1]
  <2>1. a \in Agents /\ pc[a] \in {"run", "record"} /\ stage[c] \in {"ok", "error"} /\ Store(c, stage[c])
    BY <1>9, CallParts DEF Record, MayRecord, First, In
  <2>2. result[c] = "none"
    BY <2>1 DEF IInv, Accounted, Account
  <2>3. PICK p \in {"record", "skip", "loop"} : pc' = [pc EXCEPT ![a] = p]
    BY <1>9 DEF Record
  <2>4. Distance(p) <= Distance(pc[a]) /\ pc[a] # "off" /\ p # "off"
    BY <2>1, <2>3 DEF Distance
  <2>5. Phases' <= Phases
    <3> HIDE DEF a
    <3> QED BY <1>9, <2>1, <2>3, <2>4, RunAdvances DEF Record
  <2>6. LedgerGrows
    BY <1>8, <2>1, <2>2, <2>5
  <2> QED BY <1>1, <1>9, <2>6 DEF Record
<1>10. ASSUME NEW c \in Calls, Skip(c) PROVE MovesOn
  <2>1. Phases' <= Phases
    BY <1>10, PhasesStay DEF Skip
  <2>2. LedgerGrows
    BY <1>8, <1>10, <2>1, SkipsNothing DEF Skip
  <2> QED BY <1>1, <1>10, <2>2 DEF Skip
<1>11. ASSUME NEW c \in Calls, Unmark(c) PROVE MovesOn
  <2>1. pc[c[1]] = "abort" /\ stage[c] \in Marked /\ stage'[c] = "out" /\ state'[c] = "cancelled"
        /\ \A d \in Calls \ {c} : stage'[d] = stage[d] /\ state'[d] = state[d]
    BY <1>11 DEF Unmark, MayUnmark, Drained, First, In, TypeOK
  <2>2. Phases' <= Phases
    BY <1>11, PhasesStay DEF Unmark
  <2>3. Unasked' \subseteq Unasked /\ Unanswered' \subseteq Unanswered
    BY <1>11, <2>1 DEF Unmark, Unasked, Unanswered
  <2>4. ASSUME NEW d \in Calls PROVE Rank(d)' <= Rank(d) /\ (d = c => Rank(d)' < Rank(d))
    <3>1. CASE d = c
      BY <1>11, <2>1, <3>1 DEF Rank, Unmark, Marked, Ended
    <3>2. CASE d # c
      BY <1>11, <2>1, <3>2, Measured DEF Rank, Unmark
    <3> QED BY <3>1, <3>2
  <2>5. TasksAdvance
    BY <2>2, <2>3, <2>4 DEF TasksAdvance
  <2> QED BY <1>1, <1>11, <2>5 DEF Unmark
<1>12. ASSUME NEW c \in Calls, NEW s, Moves(c, s), stage[c] \notin {"out", "marked", "kept"} \cup Ended,
              s \in {"lock", "work", "wait"} \cup Ended,
              s = "wait" => stage[c] = "due", s = "lock" => stage[c] \in {"due", "wait"},
              s = "work" => stage[c] \in {"due", "lock"}
       PROVE  MovesOn
  <2>1. TasksAdvance
    BY <1>12, TaskAdvances
  <2> QED BY <1>1, <1>12, <2>1 DEF Moves
<1>13. ASSUME NEW c \in Calls, Start(c) \/ Enter(c) \/ Lock(c) PROVE MovesOn
  BY <1>12, <1>13 DEF Start, Enter, MayEnter, Lock, Ended
<1>14. ASSUME NEW c \in Calls, Ends(c) \/ Writes(c) \/ Wait(c) PROVE MovesOn
  BY <1>12, <1>14 DEF Ends, Writes, Wait, Ended
<1>15. ASSUME NEW c \in Calls, Spawn(c) PROVE MovesOn
  <2>1. PICK r \in {"ok", "error"} : stage' = [stage EXCEPT ![c] = r]
    BY <1>15 DEF Spawn
  <2>2. CASE status' = status
    <3>1. Moves(c, r)
      BY <1>15, <2>1, <2>2 DEF Spawn, Moves
    <3> QED BY <1>12, <1>15, <2>1, <3>1 DEF Spawn, Ended
  <2>3. CASE status["child"] = "absent" /\ status' = [status EXCEPT !["child"] = "queued"]
    <3>1. status'["child"] = "queued" /\ UNCHANGED <<pc, stop, foreign>>
      BY <1>15, <2>3 DEF Spawn, TypeOK, Agents
    <3>2. Delegation = 3 /\ Delegation' = 2 /\ Requestable' = Requestable /\ Hindered' = Hindered
      BY <2>3, <3>1 DEF Delegation, Requestable, Hindered
    <3>3. Phase("child")' = Phase("child") /\ Phase("parent")' = Phase("parent")
      BY <2>3, <3>1 DEF Phase, YetToRun, Active, Distance
    <3>4. /\ Phase("parent") \in Nat /\ Phase("child") \in Nat /\ Requestable \in Nat /\ Hindered \in Nat
      BY Measured DEF Agents
    <3>5. PhasesFall
      BY <3>2, <3>3, <3>4 DEF PhasesFall, Phases
    <3> QED BY <1>1, <1>15, <3>5 DEF Spawn
  <2> QED BY <1>15, <2>2, <2>3 DEF Spawn
<1>16. ASSUME Dismiss PROVE MovesOn
  BY <1>1, <1>16, DismissAdvances DEF Dismiss
<1>17. ASSUME NEW c \in Calls, CancelAgent(c) PROVE MovesOn
  BY <1>12, <1>16, <1>17 DEF CancelAgent, Ended
<1>18. CASE Take
  <2>1. /\ pc["child"] = "off" /\ status["child"] \in Active /\ UNCHANGED <<stop, foreign>>
        /\ "parent" \in Agents /\ "child" \in Agents
    BY <1>18 DEF Take, MayTake, Agents
  <2>2. /\ pc'["child"] \in {"finish", "recover"} /\ pc'["parent"] = pc["parent"]
        /\ status'["child"] \in {"cancelling", "running"}
        /\ (status["child"] = "cancelling" => status'["child"] = "cancelling")
    BY <1>18, <2>1 DEF Take, TypeOK
  <2>3. Phase("child") = 8 /\ Phase("child")' \in {2, 7} /\ Phase("parent")' = Phase("parent")
    BY <2>1, <2>2 DEF Phase, YetToRun, Distance
  <2>4. Delegation' <= Delegation /\ Requestable' = Requestable /\ Hindered' = Hindered
    BY <2>1, <2>2 DEF Delegation, Requestable, Hindered, Active
  <2>5. /\ Phase("parent") \in Nat /\ Delegation \in Nat /\ Delegation' \in Nat
        /\ Requestable \in Nat /\ Hindered \in Nat
    BY <2>1, Measured
  <2>6. PhasesFall
    BY <2>3, <2>4, <2>5 DEF PhasesFall, Phases
  <2> QED BY <1>1, <1>18, <2>6 DEF Take
<1>19. CASE Closed
  <2>1. /\ pc["parent"] = "close" /\ pc' = [pc EXCEPT !["parent"] = "finish"]
        /\ Distance("finish") < Distance(pc["parent"]) /\ Distance("finish") <= Distance(pc["parent"])
        /\ "parent" \in Agents
    BY <1>19 DEF Closed, Distance, Agents
  <2>2. PhasesFall
    BY <1>19, <2>1, RunAdvances DEF Closed
  <2> QED BY <1>1, <1>19, <2>2 DEF Closed
<1>20. ASSUME NEW a \in Agents, Finish(a) PROVE MovesOn
  <2>1. /\ pc[a] = "finish" /\ pc'[a] = "off" /\ (\A b \in Agents \ {a} : pc'[b] = pc[b] /\ status'[b] = status[b])
        /\ status'[a] \in {"completed", "cancelled", "blocked", "unrecoverable_error"}
        /\ stop' = (stop /\ a = "child") /\ foreign' = foreign
        /\ "parent" \in Agents /\ "child" \in Agents
    BY <1>20 DEF Finish, TypeOK, Outcomes, Agents
  <2>2. Phase(a) = 2 /\ Phase(a)' = 0
    BY <2>1 DEF Phase, YetToRun, Distance, Active
  <2>3. \A b \in Agents \ {a} : Phase(b)' = Phase(b)
    BY <2>1 DEF Phase, YetToRun, Distance
  <2>4. Delegation' <= Delegation /\ Hindered' = Hindered /\ Requestable' <= Requestable + 1
    <3>1. CASE a = "parent"
      <4>1. Delegation' = Delegation
        BY <2>1, <3>1 DEF Delegation
      <4> QED BY <2>1, <4>1, Measured DEF Hindered, Requestable
    <3>2. CASE a = "child"
      <4>1. Delegation' = 0 /\ stop' = stop
        BY <2>1, <3>2 DEF Delegation, TypeOK
      <4> QED BY <2>1, <4>1, Measured DEF Hindered, Requestable
    <3> QED BY <3>1, <3>2 DEF Agents
  <2>5. /\ \A b \in Agents : Phase(b) \in Nat /\ Phase(b)' \in Nat
        /\ Delegation \in Nat /\ Delegation' \in Nat
        /\ Requestable \in Nat /\ Requestable' \in Nat /\ Hindered \in Nat
    BY Measured
  <2>6. PhasesFall
    <3>1. CASE a = "parent"
      BY <2>1, <2>2, <2>3, <2>4, <2>5, <3>1 DEF PhasesFall, Phases
    <3>2. CASE a = "child"
      BY <2>1, <2>2, <2>3, <2>4, <2>5, <3>2 DEF PhasesFall, Phases
    <3> QED BY <3>1, <3>2 DEF Agents
  <2> QED BY <1>1, <1>20, <2>6 DEF Finish
<1>21. CASE GiveBack \/ RequestCancel
  <2>1. Phase("child")' = Phase("child") /\ Phase("parent")' = Phase("parent") /\ Delegation' = Delegation
    BY <1>21 DEF GiveBack, RequestCancel, Phase, YetToRun, Distance, Delegation
  <2>2. \/ Requestable' = Requestable /\ Hindered' < Hindered
        \/ Requestable' < Requestable /\ Hindered' = Hindered
    BY <1>21 DEF GiveBack, RequestCancel, Requestable, Hindered, TypeOK
  <2>3. /\ Phase("parent") \in Nat /\ Phase("child") \in Nat /\ Delegation \in Nat
        /\ Requestable \in Nat /\ Requestable' \in Nat /\ Hindered \in Nat /\ Hindered' \in Nat
    BY Measured DEF Agents
  <2>4. PhasesFall
    BY <2>1, <2>2, <2>3 DEF PhasesFall, Phases
  <2>5. UNCHANGED <<faults, resumes>>
    BY <1>21 DEF GiveBack, RequestCancel
  <2> QED BY <1>1, <2>4, <2>5
<1>22. CASE Resume
  BY <1>22, BoundsAssumption DEF Resume, Chances, MovesOn, TypeOK
<1>23. CASE Fault
  BY <1>23, BoundsAssumption DEF Fault, Chances, MovesOn, TypeOK
<1>24. ASSUME NEW c \in Calls, ThreadEnds(c) PROVE MovesOn
  <2>1. UNCHANGED <<state, result, stage, pc, status, stop, foreign, faults, resumes>>
    BY <1>24 DEF ThreadEnds
  <2>2. Unasked' = Unasked /\ Unanswered' = Unanswered /\ \A d \in Calls : Rank(d)' = Rank(d)
    BY <2>1 DEF Unasked, Unanswered, Rank
  <2>3. Phases' <= Phases /\ \A d \in Calls : Rank(d)' <= Rank(d)
    BY <2>1, <2>2, PhasesStay, Measured
  <2>4. threads' \subseteq threads /\ threads' # threads
    BY <1>24 DEF ThreadEnds
  <2> QED BY <1>1, <2>1, <2>2, <2>3, <2>4 DEF ThreadsDwindle
<1>25. Shutdown \/ Crash \/ TakeAway \/ (\E a \in Agents : StoreFails(a)) => Fault
  BY DEF Shutdown, Crash, TakeAway, StoreFails
<1> QED
  BY <1>2, <1>3, <1>4, <1>5, <1>6, <1>7, <1>9, <1>10, <1>11, <1>13, <1>14, <1>15, <1>16, <1>17,
     <1>18, <1>19, <1>20, <1>21, <1>22, <1>23, <1>24, <1>25
  DEF Next, System, Task, Batch, Agent, Closing

\* Nothing goes on for ever, for all plans and bounds: every step of an Agent, its
\* child, their tasks or their surroundings lowers a well-founded measure.
THEOREM RunsMoveOn == Spec => [][MovesOn]_vars
<1>1. IInv /\ [Next]_vars => [MovesOn]_vars
  BY StepMovesOn, TypeStep DEF IInv
<1> QED BY <1>1, Invariance, PTL DEF Spec

-----------------------------------------------------------------------------
(* No one waits for ever: while a run goes on somebody can go on. *)

\* The guards of a task, of the ledger's operations and of a run.
TaskGoes(c) ==
  \/ stage[c] = "due" /\ ~Shared(c)
  \/ MayEnter(c)
  \/ stage[c] = "lock" /\ ~foreign
  \/ (Shared(c) \/ Exclusive(c)) /\ stage[c] \in {"work", "drain"}
  \/ plan[c] = "spawn" /\ stage[c] = "work"
  \/ /\ plan[c] \in {"wait", "cancel"} /\ stage[c] = "work"
     /\ failed \/ status["child"] = "absent" \/ Over
  \/ plan[c] = "cancel" /\ stage[c] = "drain" /\ pc["child"] = "off"
BatchGoes(c) == MayMark(c) \/ MayRecord(c) \/ MaySkip(c) \/ MayUnmark(c)
AgentGoes(a) ==
  \/ pc[a] \in {"recover", "finish"}
  \/ pc[a] \in {"loop", "skip"} /\ Open(a) = {}
  \/ pc[a] \in {"loop", "run"} /\ Stopped(a)
  \/ Drained(a) /\ In(a, Marked) = {}
MayClose ==
  /\ pc["parent"] = "close" /\ pc["child"] = "off"
  /\ status["child"] \notin Active \/ failed
Goes ==
  \/ \E c \in Calls : TaskGoes(c) \/ BatchGoes(c)
  \/ \E a \in Agents : AgentGoes(a)
  \/ MayTake \/ MayClose \/ foreign

\* What there is left to do in a batch, and what a task waits for.
Pending(a) ==
  /\ pc[a] = "loop" => Open(a) = {} \/ \E c \in Group(a) : stage[c] = "out"
  /\ pc[a] = "run" => \E c \in Of(a) : stage[c] # "out"
  /\ pc[a] = "record" => In(a, {"ok", "error"}) # {}
Waited(c) ==
  /\ state[c] # "absent" => plan[c] # "none"
  /\ stage[c] = "drain" => plan[c] \in {"search", "write", "finish", "cancel"}
  /\ stage[c] = "wait" => Exclusive(c)
  /\ stage[c] = "gone" /\ pc[c[1]] = "run" => Stopped(c[1])
Timely ==
  /\ \A a \in Agents : Pending(a)
  /\ \A c \in Calls : Waited(c)
  /\ pc["child"] # "close"
  /\ pc["parent"] \in {"loop", "run", "record"} => started

\* As long as the run of the parent is not over, a task, an agent, the manager of
\* the child or the other process that holds the lock of the workspace can go on.
SomeoneGoes == pc["parent"] # "off" => Goes

\* A set of calls of an agent that is not empty has a first one.
LEMMA Firsts ==
  ASSUME NEW a \in Agents, NEW S, S \subseteq Of(a), S # {}
  PROVE  \E c \in S : First(c, S)
<1> DEFINE T == {c[2] : c \in S}
<1>1. T \in SUBSET Nat /\ T # {}
  BY CallParts DEF Of
<1>2. PICK n \in T : \A m \in T : n <= m
  <2> HIDE DEF T
  <2> DEFINE R == {ss \in Nat \X Nat : ss[1] < ss[2]}
  <2>1. IsWellFoundedOn(R, Nat)
    BY NatLessThanWellFounded DEF OpToRel
  <2>2. PICK n \in T : \A m \in T : ~(<<m, n>> \in R)
    <3> HIDE DEF R
    <3> QED BY <1>1, <2>1, WFMin
  <2>3. \A m \in T : m \in Nat /\ n \in Nat /\ ~(m < n)
    BY <1>1, <2>2
  <2> QED BY <2>2, <2>3
<1> QED BY <1>2 DEF First

\* A run between two batches has a call to mark, if it has any that is open.
LEMMA LoopPending ==
  ASSUME NEW a \in Agents, \A c \in Of(a) : stage'[c] = "out", pc'[a] = "loop"
  PROVE  Pending(a)'
<1>1. ASSUME Open(a)' # {} PROVE \E c \in Group(a)' : stage'[c] = "out"
  <2>1. Open(a)' \subseteq Of(a)
    BY DEF Open, Asked
  <2>2. PICK c \in Open(a)' : First(c, Open(a)')
    BY <1>1, <2>1, Firsts
  <2> QED BY <2>1, <2>2 DEF Group
<1> QED BY <1>1 DEF Pending

\* What an agent does leaves the other where it was.
LEMMA TimelyElsewhere ==
  ASSUME Timely, plan' = plan, NEW a \in Agents, \A b \in Agents \ {a} : pc'[b] = pc[b],
         \A c \in Calls \ Of(a) : state'[c] = state[c] /\ result'[c] = result[c] /\ stage'[c] = stage[c],
         \A c \in Of(a) : Waited(c)', Pending(a)',
         a = "child" => started' = started /\ stop' = stop /\ pc'[a] # "close",
         pc'["parent"] \in {"loop", "run", "record"} => started'
  PROVE  Timely'
<1>1. ASSUME NEW c \in Calls PROVE Waited(c)'
  <2>1. CASE c \in Of(a)
    BY <2>1
  <2>2. CASE c \notin Of(a)
    <3>1. c[1] \in Agents \ {a}
      BY <2>2, CallParts DEF Of
    <3>2. Waited(c) /\ state'[c] = state[c] /\ stage'[c] = stage[c] /\ pc'[c[1]] = pc[c[1]]
      BY <2>2, <3>1 DEF Timely
    <3>3. Stopped(c[1])' <=> Stopped(c[1])
      BY <3>1 DEF Stopped, Agents
    <3> QED BY <3>2, <3>3 DEF Waited, Exclusive
  <2> QED BY <2>1, <2>2
<1>2. ASSUME NEW b \in Agents \ {a} PROVE Pending(b)'
  <2>1. \A c \in Of(b) : state'[c] = state[c] /\ result'[c] = result[c] /\ stage'[c] = stage[c]
    BY <1>2 DEF Of
  <2>2. Asked(b)' = Asked(b)
    BY <2>1 DEF Asked
  <2>3. Open(b)' = Open(b) /\ Open(b) \subseteq Of(b)
    BY <2>1, <2>2 DEF Open, Asked
  <2>4. Group(b)' = Group(b) /\ Group(b) \subseteq Of(b)
    BY <2>3 DEF Group, Shared
  <2>5. In(b, {"ok", "error"})' = In(b, {"ok", "error"})
    BY <2>1 DEF In
  <2>6. pc'[b] = pc[b] /\ Pending(b)
    BY <1>2 DEF Timely
  <2> QED BY <2>1, <2>3, <2>4, <2>5, <2>6 DEF Pending
<1>3. pc'["child"] # "close"
  BY DEF Timely, Agents
<1> QED BY <1>1, <1>2, <1>3 DEF Timely

\* A run that leaves its batches leaves nothing to wait for.
LEMMA TimelyLeaves ==
  ASSUME Timely, plan' = plan, NEW a \in Agents, \A b \in Agents \ {a} : pc'[b] = pc[b],
         pc'[a] \notin {"loop", "run", "record"},
         \A c \in Calls \ Of(a) : state'[c] = state[c] /\ result'[c] = result[c] /\ stage'[c] = stage[c],
         \A c \in Of(a) : /\ state'[c] # "absent" => state[c] # "absent"
                          /\ stage'[c] = "drain" => stage[c] = "drain" \/ Drains(c)
                          /\ stage'[c] = "wait" => stage[c] = "wait",
         a = "child" => started' = started /\ stop' = stop /\ pc'[a] # "close"
  PROVE  Timely'
<1>1. ASSUME NEW c \in Of(a) PROVE Waited(c)'
  <2>1. c \in Calls /\ c[1] = a /\ Waited(c)
    BY DEF Of, Timely
  <2> QED BY <2>1 DEF Waited, Exclusive, Drains
<1>2. Pending(a)'
  BY DEF Pending
<1>3. pc'["parent"] \in {"loop", "run", "record"} => started'
  BY DEF Timely, Agents
<1> QED BY <1>1, <1>2, <1>3, TimelyElsewhere

\* So does one that abandons its batch.
LEMMA TimelyAbandon ==
  ASSUME IInv, Timely, plan' = plan, NEW a \in Agents, NEW o \in Outcomes, Abandon(a, o),
         \A c \in Calls \ Of(a) : state'[c] = state[c] /\ result'[c] = result[c],
         \A c \in Of(a) : state'[c] # "absent" => state[c] # "absent",
         started' = started, a = "child" => stop' = stop
  PROVE  Timely'
<1>1. pc' = [pc EXCEPT ![a] = "abort"] /\ stage' = [c \in Calls |-> IF c \in Of(a) THEN Dropped(c) ELSE stage[c]]
  BY DEF Abandon
<1>2. \A c \in Of(a) : /\ stage'[c] = "drain" => stage[c] = "drain" \/ Drains(c)
                       /\ stage'[c] = "wait" => stage[c] = "wait"
  BY <1>1 DEF Dropped, Of
<1>3. pc'[a] = "abort" /\ \A b \in Agents \ {a} : pc'[b] = pc[b]
  BY <1>1 DEF IInv, TypeOK
<1> QED BY <1>1, <1>2, <1>3, TimelyLeaves

\* So does one that ends.
LEMMA TimelyLeave ==
  ASSUME IInv, Timely, plan' = plan, NEW a \in Agents, NEW o \in Outcomes, Leave(a, o),
         stage' \in {stage, AllOut(a)}, UNCHANGED ledger, started' = started, a = "child" => stop' = stop
  PROVE  Timely'
<1>1. pc'[a] \in {"close", "finish"} /\ (a = "child" => pc'[a] # "close")
      /\ \A b \in Agents \ {a} : pc'[b] = pc[b]
  BY DEF Leave, IInv, TypeOK
<1>2. /\ \A c \in Calls \ Of(a) : stage'[c] = stage[c]
      /\ \A c \in Of(a) : stage'[c] \in {stage[c], "out"}
  BY DEF AllOut, Of
<1> QED BY <1>1, <1>2, TimelyLeaves DEF ledger

\* A step that leaves the runs, the tasks and the ledger alone.
LEMMA TimelyIdle ==
  ASSUME Timely, UNCHANGED <<plan, ledger, pc, stage, started>>, stop => stop'
  PROVE  Timely'
<1>1. \A c \in Calls : Waited(c)'
  BY DEF Timely, Waited, Exclusive, Stopped, ledger
<1>2. ASSUME NEW a \in Agents PROVE Pending(a)'
  <2>1. Open(a)' = Open(a) /\ Group(a)' = Group(a) /\ In(a, {"ok", "error"})' = In(a, {"ok", "error"})
    BY DEF Open, Asked, Group, In, ledger, Shared
  <2> QED BY <2>1 DEF Timely, Pending
<1> QED BY <1>1, <1>2 DEF Timely

\* A task that advances is still to be waited for.
LEMMA TimelyMoves ==
  ASSUME IInv, Timely, UNCHANGED <<plan, ledger, pc, stop, started>>, NEW c \in Calls, NEW s,
         stage' = [stage EXCEPT ![c] = s], stage[c] \in {"due", "wait", "lock", "work", "drain"},
         s \notin {"out", "drain"}, s = "wait" => Exclusive(c),
         s = "gone" => stage[c] = "drain" \/ Stopped(c[1])
  PROVE  Timely'
<1> DEFINE a == c[1]
<1>1. a \in Agents /\ stage'[c] = s /\ \A d \in Calls \ {c} : stage'[d] = stage[d]
  BY CallParts DEF IInv, TypeOK
<1>2. pc[a] \in {"run", "abort"} /\ (stage[c] = "drain" => pc[a] = "abort") /\ c \in Of(a)
  BY DEF IInv, Placed, Of
<1>3. ASSUME NEW d \in Of(a) PROVE Waited(d)'
  <2>1. d \in Calls /\ d[1] = a /\ Waited(d)
    BY DEF Of, Timely
  <2>2. CASE d = c
    BY <1>1, <1>2, <2>1, <2>2 DEF Waited, Exclusive, Stopped, ledger
  <2>3. CASE d # c
    BY <1>1, <2>1, <2>3 DEF Waited, Exclusive, Stopped, ledger
  <2> QED BY <2>2, <2>3
<1>4. Pending(a)'
  BY <1>1, <1>2 DEF Pending
<1>5. \A d \in Calls \ Of(a) : stage'[d] = stage[d]
  BY <1>1, <1>2
<1> HIDE DEF a
<1> QED BY <1>1, <1>3, <1>4, <1>5, TimelyElsewhere DEF Timely, ledger

\* A call a step of a batch is about was asked for.
LEMMA AskedFor ==
  ASSUME IInv, NEW c \in Calls, stage[c] # "out" \/ MayMark(c) \/ MayRecord(c) \/ MaySkip(c) \/ MayUnmark(c)
  PROVE  state[c] # "absent"
<1>1. ASSUME stage[c] # "out" PROVE state[c] # "absent"
  BY <1>1 DEF IInv, Accounted, Account
<1>2. ASSUME MayMark(c) \/ MaySkip(c) PROVE state[c] # "absent"
  BY <1>2 DEF MayMark, MaySkip, First, Group, Open, Asked
<1>3. ASSUME MayRecord(c) \/ MayUnmark(c) PROVE stage[c] # "out"
  BY <1>3 DEF MayRecord, MayUnmark, First, In, Marked, Ended
<1> QED BY <1>1, <1>2, <1>3

\* A cancellation leaves nothing to wait for, wherever it strikes.
LEMMA TimelyInterrupt ==
  ASSUME IInv, Timely, plan' = plan, NEW a \in Agents, Interrupt(a),
         started' = started, a = "child" => stop' = stop
  PROVE  Timely'
<1> TypeOK
  BY DEF IInv
<1>1. ASSUME Abandon(a, "cancelled"), InFlight(a) PROVE Timely'
  <2>1. \A c \in Calls \ Of(a) : state'[c] = state[c] /\ result'[c] = result[c]
    <3>1. CASE UNCHANGED ledger
      BY <3>1 DEF ledger
    <3>2. ASSUME NEW d \in Of(a), state' = [state EXCEPT ![d] = "running"], UNCHANGED result
          PROVE  \A c \in Calls \ Of(a) : state'[c] = state[c] /\ result'[c] = result[c]
      BY <3>2 DEF TypeOK
    <3>3. ASSUME NEW d \in Of(a), NEW r \in {"ok", "error", "skipped"}, Store(d, r)
          PROVE  \A c \in Calls \ Of(a) : state'[c] = state[c] /\ result'[c] = result[c]
      BY <3>3, Stored DEF Of
    <3> QED BY <1>1, <3>1, <3>2, <3>3, Committed
  <2>2. \A c \in Of(a) : state'[c] # "absent" => state[c] # "absent"
    <3>1. CASE UNCHANGED ledger
      BY <3>1 DEF ledger
    <3>2. ASSUME NEW d \in Of(a), MayMark(d), state' = [state EXCEPT ![d] = "running"]
          PROVE  \A c \in Of(a) : state'[c] # "absent" => state[c] # "absent"
      <4>1. d \in Calls /\ state[d] # "absent"
        BY <3>2, AskedFor DEF Of
      <4> QED BY <3>2, <4>1 DEF TypeOK, Of
    <3>3. ASSUME NEW d \in Of(a), MayRecord(d) \/ MaySkip(d), NEW r \in {"ok", "error", "skipped"}, Store(d, r)
          PROVE  \A c \in Of(a) : state'[c] # "absent" => state[c] # "absent"
      <4>1. d \in Calls /\ state[d] # "absent"
        BY <3>3, AskedFor DEF Of
      <4> QED BY <3>3, <4>1, Stored DEF Of
    <3> QED BY <1>1, <3>1, <3>2, <3>3, Committed
  <2> QED BY <1>1, <2>1, <2>2, TimelyAbandon DEF Outcomes
<1>2. ASSUME stage' = AllOut(a), Leave(a, "cancelled"), UNCHANGED ledger PROVE Timely'
  BY <1>2, TimelyLeave DEF Outcomes
<1>3. ASSUME pc[a] \in {"close", "finish"}, UNCHANGED <<pc, ledger, stage>> PROVE Timely'
  <2>1. a = "child" => pc'[a] # "close"
    BY <1>3 DEF Timely
  <2> QED BY <1>3, <2>1, TimelyLeaves DEF ledger
<1> QED BY <1>1, <1>2, <1>3 DEF Interrupt

\* After every step there is something to wait for.
LEMMA TimelyStep == ASSUME IInv, Timely, [Next]_vars PROVE Timely'
<1> USE DEF ledger, run, manager, outside, bounds
<1> TypeOK
  BY DEF IInv
<1>1. ASSUME NEW a \in Agents, Recover(a) PROVE Timely'
  <2>1. \A c \in Of(a) : stage[c] = "out"
    BY <1>1 DEF Recover, IInv, TypeOK, Placed, Of, Stages
  <2>2. CASE Leave(a, "blocked") /\ UNCHANGED started
    BY <1>1, <2>2, TimelyLeave DEF Recover, Outcomes
  <2>3. CASE /\ pc' = [pc EXCEPT ![a] = IF Finals(a) # {} THEN "skip" ELSE "loop"]
             /\ started' = (started \/ (a = "parent" /\ Finals(a) = {}))
    <3>1. ASSUME NEW c \in Of(a) PROVE Waited(c)'
      <4>1. c \in Calls /\ c[1] = a /\ Waited(c)
        BY DEF Of, Timely
      <4> QED BY <1>1, <2>1, <4>1 DEF Recover, Waited
    <3>2. Pending(a)'
      <4>1. CASE Finals(a) # {}
        <5>1. pc'[a] = "skip"
          BY <2>3, <4>1 DEF TypeOK
        <5> QED BY <5>1 DEF Pending
      <4>2. CASE Finals(a) = {}
        <5>1. pc'[a] = "loop" /\ \A c \in Of(a) : stage'[c] = "out"
          BY <1>1, <2>1, <2>3, <4>2 DEF Recover, TypeOK
        <5> QED BY <5>1, LoopPending
      <4> QED BY <4>1, <4>2
    <3>3. pc'[a] \in {"skip", "loop"} /\ (\A b \in Agents \ {a} : pc'[b] = pc[b])
          /\ (pc'[a] = "loop" => Finals(a) = {})
      BY <2>3 DEF TypeOK
    <3>4. pc'["parent"] \in {"loop", "run", "record"} => started'
      <4>1. CASE a = "parent"
        BY <2>3, <3>3, <4>1
      <4>2. CASE a # "parent"
        BY <2>3, <3>3, <4>2 DEF Timely, Agents
      <4> QED BY <4>1, <4>2
    <3>5. a = "child" => started' = started /\ stop' = stop /\ pc'[a] # "close"
      <4>1. started \in BOOLEAN
        BY DEF TypeOK
      <4> QED BY <1>1, <2>3, <3>3, <4>1 DEF Recover
    <3>6. plan' = plan /\ state' = state /\ result' = result /\ stage' = stage
      BY <1>1 DEF Recover
    <3> QED BY <3>1, <3>2, <3>3, <3>4, <3>5, <3>6, TimelyElsewhere
  <2> QED BY <1>1, <2>2, <2>3 DEF Recover
<1>2. ASSUME NEW a \in Agents, ModelFails(a) \/ Succeed(a) PROVE Timely'
  BY <1>2, TimelyLeave DEF ModelFails, Succeed, Outcomes
<1>3. ASSUME NEW a \in Agents, StopSeen(a) PROVE Timely'
  BY <1>3, TimelyAbandon DEF StopSeen, Outcomes
<1>4. ASSUME NEW a \in Agents, Abandoned(a) PROVE Timely'
  <2>1. end[a] \in Outcomes
    BY <1>4 DEF Abandoned, Drained, TypeOK
  <2> QED BY <1>4, <2>1, TimelyLeave DEF Abandoned
<1>5. ASSUME NEW a \in Agents, Ask(a) PROVE Timely'
  <2>1. pc[a] = "loop" /\ \A c \in Of(a) : stage[c] = "out"
    BY <1>5, NoTasks DEF Ask
  <2>2. PICK last \in Of(a) \ Asked(a) :
          /\ plan[last] # "none"
          /\ state' = [c \in Calls |-> IF c \in Of(a) \ Asked(a) /\ c[2] <= last[2] THEN "pending" ELSE state[c]]
    BY <1>5 DEF Ask
  <2>3. ASSUME NEW c \in Of(a) PROVE Waited(c)'
    <3>1. /\ c \in Calls /\ last \in Calls /\ c[1] = a /\ last[1] = a
          /\ c[2] \in 1..MaxCalls /\ last[2] \in 1..MaxCalls /\ c = <<a, c[2]>> /\ last = <<a, last[2]>>
      BY <2>2, CallParts DEF Of, Calls
    <3>2. c[2] <= last[2] => plan[c] # "none"
      BY <2>2, <3>1, ListsAssumption DEF TypeOK
    <3>3. Waited(c) /\ plan' = plan /\ stage'[c] = "out"
      BY <1>5, <2>1, <3>1 DEF Ask, Timely
    <3> QED BY <2>2, <3>1, <3>2, <3>3 DEF Waited
  <2>4. Pending(a)'
    BY <1>5, <2>1, LoopPending DEF Ask
  <2>5. \A c \in Calls \ Of(a) : state'[c] = state[c]
    BY <2>2
  <2> QED BY <1>5, <2>1, <2>3, <2>4, <2>5, TimelyElsewhere DEF Ask, Timely
<1>6. ASSUME NEW c \in Calls, Mark(c) PROVE Timely'
  <2> DEFINE a == c[1]
  <2>1. a \in Agents /\ pc[a] = "loop" /\ c \in Group(a) /\ c \in Of(a) /\ stage[c] = "out" /\ state[c] # "absent"
    BY <1>6, CallParts DEF Mark, MayMark, First, Group, Open, Asked
  <2>2. /\ \A d \in Calls : (state'[d] = "absent" <=> state[d] = "absent")
        /\ \A d \in Calls \ {c} : state'[d] = state[d]
        /\ plan' = plan /\ result' = result /\ stop' = stop /\ started' = started
    BY <1>6, <2>1 DEF Mark, TypeOK
  <2>3. Group(a)' = Group(a)
    <3> HIDE DEF a
    <3> QED BY <2>1, <2>2, SameSession DEF Of
  <2>4. Group(a) \subseteq Of(a)
    BY DEF Group, Open, Asked
  <2>5. ASSUME NEW d \in Of(a) PROVE Waited(d)'
    <3>1. d \in Calls /\ d[1] = a /\ Waited(d) /\ stage'[d] \in {"due", "marked", stage[d]}
      BY <1>6 DEF Of, Timely, Mark
    <3>2. stage[d] \notin {"gone", "wait", "drain"}
      BY <2>1, <3>1 DEF IInv, Placed
    <3> QED BY <2>2, <3>1, <3>2 DEF Waited
  <2>6. CASE \A d \in Group(a) \ {c} : stage[d] = "marked"
    <3>1. pc' = [pc EXCEPT ![a] = "run"] /\ stage'[c] = "due" /\ \A d \in Calls \ Group(a) : d # c => stage'[d] = stage[d]
      BY <1>6, <2>1, <2>6 DEF Mark
    <3>2. pc'[a] = "run" /\ \A b \in Agents \ {a} : pc'[b] = pc[b]
      BY <2>1, <3>1 DEF TypeOK
    <3>3. Pending(a)'
      BY <2>1, <3>1, <3>2 DEF Pending
    <3>4. \A d \in Calls \ Of(a) : stage'[d] = stage[d] /\ state'[d] = state[d]
      BY <2>1, <2>2, <2>4, <3>1
    <3>5. pc'["parent"] \in {"loop", "run", "record"} => started'
      BY <2>1, <2>2, <3>2 DEF Timely, Agents
    <3> HIDE DEF a
    <3> QED BY <2>1, <2>2, <2>5, <3>2, <3>3, <3>4, <3>5, TimelyElsewhere
  <2>7. CASE ~\A d \in Group(a) \ {c} : stage[d] = "marked"
    <3>1. pc' = pc /\ \A d \in Calls \ {c} : stage'[d] = stage[d]
      BY <1>6, <2>1, <2>7 DEF Mark
    <3>2. PICK d \in Group(a) \ {c} : stage[d] # "marked"
      BY <2>7
    <3>3. d \in Calls /\ d[1] = a /\ stage[d] = "out"
      BY <2>1, <2>4, <3>2 DEF IInv, Placed, TypeOK, Stages, Of
    <3>4. Pending(a)'
      BY <2>1, <2>3, <3>1, <3>2, <3>3 DEF Pending
    <3>5. \A e \in Calls \ Of(a) : stage'[e] = stage[e] /\ state'[e] = state[e]
      BY <2>1, <2>2, <3>1
    <3>6. (pc'["parent"] \in {"loop", "run", "record"} => started') /\ pc'[a] # "close"
      BY <2>1, <2>2, <3>1 DEF Timely
    <3> HIDE DEF a
    <3> QED BY <2>1, <2>2, <2>5, <3>1, <3>4, <3>5, <3>6, TimelyElsewhere
  <2> QED BY <2>6, <2>7
<1>7. ASSUME NEW c \in Calls, Record(c) PROVE Timely'
  <2> DEFINE a == c[1]
  <2>1. a \in Agents /\ pc[a] \in {"run", "record"} /\ c \in Of(a) /\ c \in In(a, {"ok", "error"})
        /\ stage[c] \in {"ok", "error"} /\ state[c] # "absent" /\ Store(c, stage[c])
    BY <1>7, CallParts, AskedFor DEF Record, MayRecord, First, In, Of
  <2>2. /\ \A d \in Calls \ {c} : state'[d] = state[d] /\ result'[d] = result[d]
        /\ plan' = plan /\ stop' = stop /\ started' = started
    BY <1>7, <2>1, Stored DEF Record
  <2>3. ASSUME NEW d \in Of(a) PROVE Waited(d)'
    <3>1. d \in Calls /\ d[1] = a /\ Waited(d) /\ (d = c => plan[d] # "none")
      BY <2>1 DEF Of, Timely, Waited
    <3>2. stage'[d] \in {"out", "kept", "ok", "error"}
      <4>1. stage[d] \in {"out", "ok", "error", "kept"}
        BY <1>7 DEF Record, MayRecord
      <4> QED BY <1>7, <3>1, <4>1 DEF Record, AllOut, TypeOK
    <3> QED BY <2>2, <3>1, <3>2 DEF Waited
  <2>4. CASE In(a, {"ok", "error"}) = {c}
    <3>1. /\ stage' = AllOut(a) /\ pc'[a] \in {"skip", "loop"} /\ \A b \in Agents \ {a} : pc'[b] = pc[b]
      BY <1>7, <2>1, <2>4 DEF Record, TypeOK
    <3>2. /\ \A d \in Of(a) : stage'[d] = "out"
          /\ \A d \in Calls \ Of(a) : stage'[d] = stage[d] /\ d # c
      BY <2>1, <3>1 DEF AllOut, Of
    <3>3. Pending(a)'
      <4>1. CASE pc'[a] = "loop"
        <5> HIDE DEF a
        <5> QED BY <2>1, <3>2, <4>1, LoopPending
      <4>2. CASE pc'[a] = "skip"
        BY <4>2 DEF Pending
      <4> QED BY <3>1, <4>1, <4>2
    <3>4. (pc'["parent"] \in {"loop", "run", "record"} => started') /\ pc'[a] # "close"
      BY <2>1, <2>2, <3>1 DEF Timely, Agents
    <3> HIDE DEF a
    <3> QED BY <2>1, <2>2, <2>3, <3>1, <3>2, <3>3, <3>4, TimelyElsewhere
  <2>5. CASE In(a, {"ok", "error"}) # {c}
    <3>1. /\ stage' = [stage EXCEPT ![c] = "kept"] /\ pc'[a] = "record" /\ \A b \in Agents \ {a} : pc'[b] = pc[b]
      BY <1>7, <2>1, <2>5 DEF Record, TypeOK
    <3>2. \A d \in Calls \ Of(a) : stage'[d] = stage[d] /\ d # c
      BY <2>1, <3>1 DEF Of
    <3>3. Pending(a)'
      <4>1. PICK d \in In(a, {"ok", "error"}) : d # c
        BY <2>1, <2>5
      <4>2. d \in Of(a) /\ stage'[d] = stage[d] /\ stage[d] \in {"ok", "error"}
        BY <3>1, <4>1 DEF In, Of
      <4>3. d \in In(a, {"ok", "error"})'
        BY <4>2 DEF In, Of
      <4> QED BY <3>1, <4>3 DEF Pending
    <3>4. (pc'["parent"] \in {"loop", "run", "record"} => started') /\ pc'[a] # "close"
      BY <2>1, <2>2, <3>1 DEF Timely, Agents
    <3> HIDE DEF a
    <3> QED BY <2>1, <2>2, <2>3, <3>1, <3>2, <3>3, <3>4, TimelyElsewhere
  <2> QED BY <2>4, <2>5
<1>8. ASSUME NEW c \in Calls, Skip(c) \/ Unmark(c) PROVE Timely'
  <2> DEFINE a == c[1]
  <2>1. a \in Agents /\ c \in Of(a) /\ pc[a] \in {"skip", "abort"} /\ state[c] # "absent"
    BY <1>8, CallParts, AskedFor DEF Skip, MaySkip, Unmark, MayUnmark, Drained, Of
  <2>2. /\ \A d \in Calls \ {c} : state'[d] = state[d] /\ result'[d] = result[d] /\ stage'[d] = stage[d]
        /\ stage'[c] \in {stage[c], "out"}
        /\ UNCHANGED <<plan, pc, stop, started>>
    <3>1. CASE Skip(c)
      BY <3>1, Stored DEF Skip
    <3>2. CASE Unmark(c)
      BY <3>2 DEF Unmark, TypeOK
    <3> QED BY <1>8, <3>1, <3>2
  <2> HIDE DEF a
  <2> QED BY <2>1, <2>2, TimelyLeaves DEF Of
<1>9. ASSUME NEW c \in Calls, Start(c) \/ Enter(c) \/ Lock(c) PROVE Timely'
  <2>1. PICK s : /\ Moves(c, s) /\ stage[c] \in {"due", "wait", "lock"} /\ s \in {"wait", "gone", "work", "lock"}
                 /\ s = "wait" => Exclusive(c)
                 /\ s = "gone" => Stopped(c[1])
    BY <1>9 DEF Start, Enter, MayEnter, Lock
  <2> QED BY <2>1, TimelyMoves DEF Moves
<1>10. ASSUME NEW c \in Calls, Ends(c) \/ Writes(c) \/ Wait(c) PROVE Timely'
  <2>1. PICK s \in {"ok", "error", "gone"} :
           Moves(c, s) /\ stage[c] \in {"work", "drain"} /\ (s = "gone" => stage[c] = "drain")
    BY <1>10 DEF Ends, Writes, Wait
  <2> QED BY <2>1, TimelyMoves DEF Moves
<1>11. ASSUME NEW c \in Calls, Spawn(c) PROVE Timely'
  <2>1. PICK s \in {"ok", "error"} : stage[c] = "work" /\ stage' = [stage EXCEPT ![c] = s]
    BY <1>11 DEF Spawn
  <2> QED BY <1>11, <2>1, TimelyMoves DEF Spawn
<1>12. ASSUME Dismiss PROVE Timely'
  <2>1. CASE UNCHANGED <<run, ledger, stage, failed>>
    BY <1>12, <2>1, TimelyIdle DEF Dismiss
  <2>2. CASE Interrupt("child")
    BY <1>12, <2>2, TimelyInterrupt DEF Dismiss, Agents
  <2> QED BY <1>12, <2>1, <2>2 DEF Dismiss
<1>13. ASSUME NEW c \in Calls, CancelAgent(c) PROVE Timely'
  <2>1. ASSUME NEW s \in {"ok", "error", "gone"}, Moves(c, s), stage[c] \in {"work", "drain"},
               s = "gone" => stage[c] = "drain" PROVE Timely'
    BY <2>1, TimelyMoves DEF Moves
  <2> QED BY <1>12, <1>13, <2>1 DEF CancelAgent
<1>14. ASSUME NEW a \in Agents, \A b \in Agents \ {a} : pc'[b] = pc[b],
              pc'[a] \in {"off", "recover", "finish"}, UNCHANGED <<plan, ledger, stage>>,
              a = "child" => started' = started /\ stop' = stop
       PROVE  Timely'
  BY <1>14, TimelyLeaves
<1>15. CASE Take
  <2>1. pc'["child"] \in {"recover", "finish"} /\ pc'["parent"] = pc["parent"]
    BY <1>15 DEF Take, TypeOK, Agents
  <2> QED BY <1>14, <1>15, <2>1 DEF Take, Agents
<1>16. CASE Closed \/ Resume
  <2>1. pc'["parent"] \in {"recover", "finish"} /\ pc'["child"] = pc["child"]
    BY <1>16 DEF Closed, Resume, TypeOK, Agents
  <2> QED BY <1>14, <1>16, <2>1 DEF Closed, Resume, Agents
<1>17. ASSUME NEW a \in Agents, Finish(a) PROVE Timely'
  <2>1. pc'[a] = "off" /\ \A b \in Agents \ {a} : pc'[b] = pc[b]
    BY <1>17 DEF Finish, TypeOK
  <2>2. a = "child" => stop' = stop
    BY <1>17 DEF Finish, TypeOK
  <2> QED BY <1>14, <1>17, <2>1, <2>2 DEF Finish
<1>18. CASE RequestCancel \/ TakeAway \/ GiveBack
  BY <1>18, TimelyIdle DEF RequestCancel, TakeAway, GiveBack, Fault
<1>19. CASE Shutdown
  <2>1. CASE Interrupt("parent")
    BY <1>19, <2>1, TimelyInterrupt DEF Shutdown, Fault, Agents
  <2>2. CASE pc' = [pc EXCEPT !["parent"] = "off"] /\ UNCHANGED <<ledger, stage, failed>>
    <3>1. pc'["parent"] = "off" /\ pc'["child"] = pc["child"]
      BY <2>2 DEF TypeOK, Agents
    <3> QED BY <1>14, <1>19, <2>2, <3>1 DEF Shutdown, Fault, Agents
  <2> QED BY <1>19, <2>1, <2>2 DEF Shutdown
<1>20. ASSUME NEW a \in Agents, StoreFails(a) PROVE Timely'
  <2>1. CASE Abandon(a, "unrecoverable_error") /\ UNCHANGED stop
    BY <1>20, <2>1, TimelyAbandon DEF StoreFails, Fault, Outcomes
  <2>2. CASE stage' = AllOut(a) /\ Leave(a, "unrecoverable_error") /\ UNCHANGED stop
    BY <1>20, <2>2, TimelyLeave DEF StoreFails, Fault, Outcomes
  <2>3. CASE pc' = [pc EXCEPT ![a] = "off"] /\ stop' = (stop /\ a = "child") /\ UNCHANGED stage
    <3>1. pc'[a] = "off" /\ (\A b \in Agents \ {a} : pc'[b] = pc[b]) /\ (a = "child" => stop' = stop)
      BY <2>3 DEF TypeOK
    <3> QED BY <1>14, <1>20, <2>3, <3>1 DEF StoreFails, Fault
  <2> QED BY <1>20, <2>1, <2>2, <2>3 DEF StoreFails
<1>21. CASE Crash
  <2>1. /\ \A a \in Agents : pc'[a] = "off"
        /\ \A c \in Calls : stage'[c] = "out" /\ state'[c] = state[c] /\ c[1] \in Agents
        /\ plan' = plan
    BY <1>21, CallParts DEF Crash, Fault
  <2>2. \A c \in Calls : Waited(c)'
    BY <2>1 DEF Timely, Waited
  <2>3. \A a \in Agents : Pending(a)'
    BY <2>1 DEF Pending
  <2> QED BY <2>1, <2>2, <2>3 DEF Timely, Agents
<1>22. CASE UNCHANGED vars \/ \E c \in Calls : ThreadEnds(c)
  BY <1>22, TimelyIdle DEF ThreadEnds, vars
<1> QED
  BY <1>1, <1>2, <1>3, <1>4, <1>5, <1>6, <1>7, <1>8, <1>9, <1>10, <1>11, <1>12, <1>13,
     <1>15, <1>16, <1>17, <1>18, <1>19, <1>20, <1>21, <1>22
  DEF Next, System, Task, Batch, Agent, Closing

\* At the start nothing is asked for.
LEMMA TimelyInit == ASSUME Init PROVE Timely
<1>1. \A c \in Calls : Waited(c)
  BY DEF Init, Waited
<1>2. \A a \in Agents : Pending(a)
  BY DEF Init, Pending
<1> QED BY <1>1, <1>2 DEF Init, Timely, Agents

\* A call that is inside the barrier, or waits for it, does not wait for ever.
LEMMA BarrierGoes ==
  ASSUME IInv, Timely, NEW c \in Calls, c \in Inside \/ stage[c] \in {"due", "wait", "lock"}
  PROVE  Goes
<1>1. ASSUME NEW d \in Calls, d \in Inside PROVE Goes
  <2>1. stage[d] \in {"lock", "work", "drain"} /\ (Shared(d) \/ Exclusive(d))
    BY <1>1 DEF Inside, Locks, Shared, Exclusive
  <2> QED BY <2>1 DEF Goes, TaskGoes
<1>2. ASSUME NEW d \in Calls, stage[d] = "wait" PROVE Goes
  <2>1. Exclusive(d)
    BY <1>2 DEF Timely, Waited
  <2>2. CASE Inside = {}
    BY <1>2, <2>1, <2>2 DEF Goes, TaskGoes, MayEnter
  <2>3. CASE Inside # {}
    BY <1>1, <2>3 DEF Inside
  <2> QED BY <2>2, <2>3
<1>3. CASE stage[c] = "due"
  <2>1. CASE ~Shared(c)
    BY <1>3, <2>1 DEF Goes, TaskGoes
  <2>2. CASE Shared(c) /\ \A d \in Calls : Exclusive(d) => d \notin Inside /\ stage[d] # "wait"
    BY <1>3, <2>2 DEF Goes, TaskGoes, MayEnter
  <2>3. CASE \E d \in Calls : d \in Inside \/ stage[d] = "wait"
    BY <1>1, <1>2, <2>3
  <2> QED BY <2>1, <2>2, <2>3
<1>4. CASE stage[c] = "lock"
  BY <1>4 DEF Goes, TaskGoes
<1> QED BY <1>1, <1>2, <1>3, <1>4

\* A run that has begun goes on, or waits for a child that does.
LEMMA RunGoes ==
  ASSUME IInv, Timely, NEW a \in Agents, pc[a] \notin {"off", "close"},
         a = "parent" /\ pc["child"] # "off" => Goes
  PROVE  Goes
<1> TypeOK
  BY DEF IInv
<1>1. ASSUME NEW c \in Calls, BatchGoes(c) \/ TaskGoes(c) PROVE Goes
  BY <1>1 DEF Goes
<1>2. ASSUME AgentGoes(a) PROVE Goes
  BY <1>2 DEF Goes
<1>3. CASE pc[a] \in {"recover", "finish"}
  BY <1>2, <1>3 DEF AgentGoes
<1>4. CASE pc[a] = "skip"
  <2>1. CASE Open(a) = {}
    BY <1>2, <1>4, <2>1 DEF AgentGoes
  <2>2. CASE Open(a) # {}
    <3>1. Open(a) \subseteq Of(a)
      BY DEF Open, Asked
    <3>2. PICK c \in Open(a) : First(c, Open(a))
      BY <2>2, <3>1, Firsts
    <3>3. c \in Calls /\ c[1] = a
      BY <3>1, <3>2 DEF Of
    <3> QED BY <1>1, <1>4, <3>2, <3>3 DEF BatchGoes, MaySkip
  <2> QED BY <2>1, <2>2
<1>5. CASE pc[a] = "loop"
  <2>1. CASE Open(a) = {} \/ Stopped(a)
    BY <1>2, <1>5, <2>1 DEF AgentGoes
  <2>2. CASE Open(a) # {} /\ ~Stopped(a)
    <3> DEFINE Left == {d \in Group(a) : stage[d] = "out"}
    <3>1. Left # {} /\ Left \subseteq Of(a)
      BY <1>5, <2>2 DEF Timely, Pending, Group, Open, Asked
    <3>2. PICK c \in Left : First(c, Left)
      <4> HIDE DEF Left
      <4> QED BY <3>1, Firsts
    <3>3. c \in Calls /\ c[1] = a
      BY <3>1, <3>2 DEF Of
    <3>4. MayMark(c)
      BY <1>5, <2>2, <3>2, <3>3 DEF MayMark
    <3> QED BY <1>1, <3>3, <3>4 DEF BatchGoes
  <2> QED BY <2>1, <2>2
<1>6. ASSUME pc[a] \in {"run", "record"}, \A d \in Of(a) : stage[d] \in {"out", "ok", "error", "kept"},
             In(a, {"ok", "error"}) # {}
      PROVE  Goes
  <2>1. In(a, {"ok", "error"}) \subseteq Of(a)
    BY DEF In
  <2>2. PICK c \in In(a, {"ok", "error"}) : First(c, In(a, {"ok", "error"}))
    BY <1>6, <2>1, Firsts
  <2>3. c \in Calls /\ c[1] = a
    BY <2>1, <2>2 DEF Of
  <2>4. MayRecord(c)
    BY <1>6, <2>2, <2>3 DEF MayRecord
  <2> QED BY <1>1, <2>3, <2>4 DEF BatchGoes
<1>7. CASE pc[a] = "record"
  <2>1. \A d \in Of(a) : stage[d] \in {"out", "ok", "error", "kept"}
    BY <1>7 DEF IInv, Placed, TypeOK, Stages, Of
  <2> QED BY <1>6, <1>7, <2>1 DEF Timely, Pending
<1>8. ASSUME NEW c \in Calls, c[1] = a, plan[c] \in {"spawn", "wait", "cancel"} PROVE a = "parent"
  <2>1. c = <<a, c[2]>> /\ c[2] \in 1..MaxCalls
    BY <1>8, CallParts DEF Calls
  <2> QED BY <1>8, <2>1, ReadOnlyAssumption DEF TypeOK, Agents
<1>9. CASE pc[a] = "run"
  <2>1. CASE \A d \in Of(a) : stage[d] \in {"out", "ok", "error", "kept"}
    <3>1. PICK c \in Of(a) : stage[c] # "out"
      BY <1>9 DEF Timely, Pending
    <3>2. c \in Calls /\ c[1] = a /\ stage[c] # "kept"
      BY <1>9 DEF IInv, Placed, Of
    <3>3. In(a, {"ok", "error"}) # {}
      BY <2>1, <3>1, <3>2 DEF In
    <3> QED BY <1>6, <1>9, <2>1, <3>3
  <2>2. CASE \E d \in Of(a) : stage[d] \notin {"out", "ok", "error", "kept"}
    <3>1. PICK c \in Of(a) : stage[c] \notin {"out", "ok", "error", "kept"}
      BY <2>2
    <3>2. c \in Calls /\ c[1] = a
      BY DEF Of
    <3>3. stage[c] \in {"due", "wait", "lock", "work", "gone"}
      BY <1>9, <3>1, <3>2 DEF IInv, Placed, TypeOK, Stages
    <3>4. CASE stage[c] \in {"due", "wait", "lock"}
      BY <3>2, <3>4, BarrierGoes
    <3>5. CASE stage[c] = "gone"
      <4>1. Stopped(a)
        BY <1>9, <3>2, <3>5 DEF Timely, Waited
      <4> QED BY <1>2, <1>9, <4>1 DEF AgentGoes
    <3>6. CASE stage[c] = "work"
      <4>1. state[c] # "absent" /\ plan[c] # "none"
        BY <3>2, <3>6, AskedFor DEF Timely, Waited
      <4>2. plan[c] \in Kinds
        BY <3>2, <4>1, PlansAssumption DEF TypeOK
      <4>3. CASE Shared(c) \/ Exclusive(c) \/ plan[c] = "spawn"
        BY <1>1, <3>2, <3>6, <4>3 DEF TaskGoes
      <4>4. CASE plan[c] \in {"wait", "cancel"}
        <5>1. a = "parent" /\ started
          BY <1>8, <1>9, <3>2, <4>4 DEF Timely
        <5>2. CASE failed \/ status["child"] = "absent" \/ Over
          BY <1>1, <3>2, <3>6, <4>4, <5>2 DEF TaskGoes
        <5>3. CASE pc["child"] # "off"
          BY <5>1, <5>3
        <5>4. CASE ~failed /\ status["child"] \in Active /\ pc["child"] = "off"
          BY <5>1, <5>4 DEF Goes, MayTake
        <5> QED BY <5>2, <5>3, <5>4 DEF Over
      <4> QED BY <4>1, <4>2, <4>3, <4>4 DEF Kinds, Shared, Exclusive
    <3> QED BY <3>3, <3>4, <3>5, <3>6
  <2> QED BY <2>1, <2>2
<1>10. CASE pc[a] = "abort"
  <2>1. CASE In(a, {"drain"}) # {}
    <3>1. PICK c \in Of(a) : stage[c] = "drain"
      BY <2>1 DEF In
    <3>2. c \in Calls /\ c[1] = a /\ plan[c] \in {"search", "write", "finish", "cancel"}
      BY <3>1 DEF Of, Timely, Waited
    <3>3. CASE Shared(c) \/ Exclusive(c)
      BY <1>1, <3>1, <3>2, <3>3 DEF TaskGoes
    <3>4. CASE plan[c] = "cancel"
      BY <1>1, <1>8, <3>1, <3>2, <3>4 DEF TaskGoes
    <3> QED BY <3>2, <3>3, <3>4 DEF Shared, Exclusive
  <2>2. CASE In(a, {"drain"}) = {} /\ In(a, Marked) = {}
    BY <1>2, <1>10, <2>2 DEF AgentGoes, Drained
  <2>3. CASE In(a, {"drain"}) = {} /\ In(a, Marked) # {}
    <3>1. In(a, Marked) \subseteq Of(a)
      BY DEF In
    <3>2. PICK c \in In(a, Marked) : First(c, In(a, Marked))
      BY <2>3, <3>1, Firsts
    <3>3. c \in Calls /\ c[1] = a
      BY <3>1, <3>2 DEF Of
    <3>4. MayUnmark(c)
      BY <1>10, <2>3, <3>2, <3>3 DEF MayUnmark, Drained
    <3> QED BY <1>1, <3>3, <3>4 DEF BatchGoes
  <2> QED BY <2>1, <2>2, <2>3
<1>11. pc[a] \in {"recover", "skip", "loop", "run", "record", "abort", "finish"}
  BY DEF TypeOK
<1> QED BY <1>3, <1>4, <1>5, <1>7, <1>9, <1>10, <1>11

\* Nobody waits for ever, for all plans and bounds: while the run of the parent is
\* not over somebody can go on, whatever the barrier, the child, cancellations and
\* faults have come to.
THEOREM NeverStuck == Spec => []SomeoneGoes
<1>1. IInv /\ Timely => SomeoneGoes
  <2> SUFFICES ASSUME IInv, Timely, pc["parent"] # "off" PROVE Goes
    BY DEF SomeoneGoes
  <2>1. pc["child"] # "off" => Goes
    <3> "child" \in Agents /\ pc["child"] # "close"
      BY DEF Agents, Timely
    <3> QED BY RunGoes
  <2>2. CASE pc["parent"] = "close"
    BY <2>1, <2>2 DEF Goes, MayTake, MayClose
  <2>3. CASE pc["parent"] # "close"
    BY <2>1, <2>3, RunGoes DEF Agents
  <2> QED BY <2>2, <2>3
<1>2. Spec => []Timely
  <2>1. Timely /\ IInv /\ [Next]_vars => Timely'
    BY TimelyStep
  <2> QED BY <2>1, TimelyInit, Invariance, PTL DEF Spec
<1> QED BY <1>1, <1>2, Invariance, PTL
=============================================================================

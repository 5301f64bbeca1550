-------------------------- MODULE UpdateJob_proofs --------------------------
(***************************************************************************)
(* For any versions, clients, jobs and faults: one update at a time, none  *)
(* in a daemon that agreed to stop, a deployment that can be restored      *)
(* after a crash at any moment, and records that tell the truth about it.  *)
(* At the end what the end of every update rests on: its steps lower a     *)
(* measure, and a gate without a task is the work of a fault.              *)
(***************************************************************************)
EXTENDS UpdateJob, TLAPS

-----------------------------------------------------------------------------
(* The inductive invariants. *)

\* The stages in which a job has its snapshot.
Held == {"pull", "begin", "prepare", "write", "install", "compose", "gate", "commit",
         "dropCopy", "dropJournal", "succeed", "note", "restore", "undoBox", "undoWeb",
         "undoCopy", "undoJournal", "undone"}

\* What is asked for, and whatever is restored, is a version; only versions
\* with a sandbox are asked for.
Named ==
  /\ \A c \in Clients : asked[c] # Unasked => asked[c] \in (Versions \ Legacy) \X Versions
  /\ \A j \in Jobs : pc[j] # "idle" => job.target \notin Legacy
  /\ \A j \in Jobs : pc[j] \in Held => snap[j] \in Versions
  /\ pc[0] = "restore" => copy \in Versions

\* The gate is held until the record has its end; while the daemon is down or
\* starting nothing is accepted.
Serial ==
  /\ GatedUpdates
  /\ pc[0] # "idle" => up = "starting"
  /\ up \in {"down", "starting"} => ~accepting
  /\ \A j \in Jobs : pc[j] \in {"prune", "clear"} => job.state # "running"

IInv == TypeOK /\ Named /\ Serial

\* What the transaction is worth at each stage of a job.
Stage(j) ==
  /\ pc[j] \in {"pull", "begin"} => env = snap[j]
  /\ pc[j] = "prepare" => ~active /\ Uniform /\ env = snap[j] /\ copy = snap[j]
  /\ pc[j] \in {"write", "install", "compose", "gate"} => Guarded /\ active
  /\ pc[j] \in {"commit", "dropCopy", "dropJournal", "succeed"} => Converged(job.target)
  /\ pc[j] \in {"commit", "dropCopy", "dropJournal"} => active

\* What a rollback has restored, and that it is covered until it is complete.
Rollback(a) ==
  /\ pc[a] \in {"undoBox", "undoWeb"} => Guarded /\ env = Snapshot(a)
  /\ pc[a] = "undoWeb" => box = BoxOf(env)
  /\ pc[a] \in {"undoCopy", "undoJournal"} => Uniform

\* A daemon without a transaction of its own has left no journal behind.
NoJournal ==
  ~active /\ up # "down" /\ pc[0] \in {"idle", "undone", "reconcile"} => journal = "none"

\* A deployment without a sandbox has none until the transaction installs one.
NoSandbox ==
  active /\ ~attempted /\ (env \in Legacy \/ \E j \in Jobs : pc[j] \in Held /\ snap[j] \in Legacy)
    => box = None

\* A daemon that starts has no transaction of its own, and only restores one.
Fresh ==
  /\ up \in {"down", "starting"} => ~active
  /\ by[0] = "none"
  /\ pc[0] \in {"idle", "restore", "undoBox", "undoWeb", "undoCopy", "undoJournal", "undone",
               "reconcile"}

Safe ==
  ~unguarded =>
    /\ Uniform \/ Guarded
    /\ \A j \in Jobs : Stage(j)
    /\ \A a \in Actors : Rollback(a)
    /\ pc[0] = "restore" => Guarded
    /\ NoJournal /\ NoSandbox /\ Fresh

\* Where a job's deployment comes from and what its record says meanwhile.
Origin(j) ==
  /\ pc[j] \notin {"idle", "clear"} => job.error = "none"
  /\ pc[j] = "clear" => job.error # "interrupted"
  /\ pc[j] \in {"checking", "preflight", "capture", "pull", "begin", "prepare", "write",
                "install", "compose", "gate", "commit"} => job.state = "running"
  /\ pc[j] \in {"checking", "preflight", "capture", "pull", "begin", "prepare", "write",
                "install", "compose", "gate", "commit", "dropCopy", "dropJournal", "succeed"}
       => mem[j] = "running"
  /\ pc[j] \in {"checking", "preflight"} => Running \in before
  /\ pc[j] \in {"capture", "pull", "begin"} => env \in before /\ web \in {env, None}
  /\ pc[j] \in Held => snap[j] \in before
  /\ pc[j] \in {"prepare", "write", "install", "compose", "gate", "commit", "dropCopy",
                "dropJournal", "succeed"} => ~undone
  /\ pc[j] \in {"restore", "undoBox", "undoWeb", "undoCopy", "undoJournal", "undone"}
       /\ by[j] = "activate"
       => ~undone /\ mem[j] = "running"
  /\ pc[j] = "succeed" => journal = "none"
  /\ pc[j] \in {"undoCopy", "undoJournal", "undone"} => env \in before /\ web = env
  /\ pc[j] = "note" /\ mem[j] = "success" => Converged(job.target) /\ journal = "none"
  /\ (pc[j] = "note" /\ undone) \/ pc[j] \in {"recheck", "fail"} => Running \in before

\* A record that is over says what a restart now or later leaves running.
Traced ==
  ~unguarded =>
    /\ IF Guarded THEN copy \in before ELSE env \in before \cup {job.target}
    /\ \A j \in Jobs : Origin(j)
    /\ pc[0] \in {"undoCopy", "undoJournal"} => env \in before \cup {job.target}
    /\ job.state = "success" => Converged(job.target) /\ journal = "none"
    /\ job.error = "failed" => Running \in before
    /\ job.error = "interrupted" => journal = "none"

-----------------------------------------------------------------------------
(* Types. *)

\* The start of the daemon is no job.
LEMMA JobsAreActors ==
  0 \in Actors /\ Jobs \subseteq Actors /\ 0 \notin Jobs /\ \A a \in Actors : a # 0 => a \in Jobs
BY BoundsAssumption DEF Actors, Jobs

\* Every step of the daemon and its jobs keeps the types.
LEMMA TypeStep == ASSUME TypeOK, Named, Serial, [Next]_vars PROVE TypeOK'
<1> USE VersionsAssumption, BoundsAssumption, JobsAreActors
<1> USE DEF deployment, transaction, store, daemon, adapter, task, history
<1>1. ASSUME NEW c \in Clients, NEW v \in Versions, Ask(c, v) PROVE TypeOK'
  BY <1>1 DEF Ask, TypeOK, Ready, Running, Maybe, Unasked
<1>2. ASSUME NEW c \in Clients, Accept(c) PROVE TypeOK'
  BY <1>2 DEF Accept, MayAccept, Named, TypeOK, Goto, Running, Guarded, Maybe, Unasked, Stages,
     JobStates, Actors, Jobs
<1>3. ASSUME NEW c \in Clients, Refuse(c) PROVE TypeOK'
  BY <1>3 DEF Refuse, Named, TypeOK, Maybe, Unasked, Stages, JobStates, Actors, Jobs
<1>4. ASSUME PrepareStop PROVE TypeOK'
  <2>1. accepting' \in BOOLEAN
    BY <1>4 DEF PrepareStop
  <2> QED BY <1>4, <2>1 DEF PrepareStop, TypeOK
<1>5. ASSUME CancelStop PROVE TypeOK'
  BY <1>5 DEF CancelStop, TypeOK, Maybe, Unasked, Stages, JobStates, Named, Actors
<1>6. ASSUME Terminate PROVE TypeOK'
  BY <1>6 DEF Terminate, TypeOK, Maybe, Unasked, Stages, JobStates, Named, Actors
<1>7. ASSUME LateWrite PROVE TypeOK'
  BY <1>7 DEF LateWrite, TypeOK, Maybe, Unasked, Stages, JobStates, Named, Actors
<1>8. ASSUME Exit PROVE TypeOK'
  <2>1. accepting' \in BOOLEAN /\ active' \in BOOLEAN /\ attempted' \in BOOLEAN /\ undone' \in BOOLEAN
    BY <1>8 DEF Exit
  <2> QED BY <1>8, <2>1 DEF Exit, TypeOK
<1>9. ASSUME Crash PROVE TypeOK'
  <2>1. /\ accepting' \in BOOLEAN /\ active' \in BOOLEAN /\ attempted' \in BOOLEAN
        /\ undone' \in BOOLEAN /\ unguarded' \in BOOLEAN
    BY <1>9 DEF Crash, Dies, TypeOK
  <2>2. web' \in Maybe /\ box' \in Maybe /\ faults' \in 0..MaxFaults
    BY <1>9 DEF Crash, Torn, Fault, TypeOK, Maybe
  <2>3. /\ pc' \in [Actors -> Stages] /\ by' \in [Actors -> {"none", "activate", "failure", "cancel"}]
        /\ snap' \in [Actors -> Maybe] /\ mem' \in [Jobs -> JobStates]
        /\ asked' \in [Clients -> Maybe \X Maybe]
    BY <1>9 DEF Crash, Dies, Stages, JobStates, Maybe, Unasked
  <2>4. up' = "down" /\ late' = "none" /\ UNCHANGED <<env, journal, copy, job, gate, before>>
    BY <1>9 DEF Crash, Dies
  <2> QED BY <2>1, <2>2, <2>3, <2>4 DEF TypeOK
<1>10. ASSUME Start PROVE TypeOK'
  BY <1>10 DEF Start, TypeOK, Goto, Maybe, Unasked, Stages, JobStates, Named, Actors
<1>11. ASSUME StartRefused PROVE TypeOK'
  BY <1>11 DEF StartRefused, vars, TypeOK
<1>12. ASSUME Reconcile PROVE TypeOK'
  <2>1. accepting' \in BOOLEAN
    BY <1>12 DEF Reconcile
  <2>2. job' \in [id : Actors, state : JobStates, from : Versions, target : Versions,
                  error : {"none", "failed", "rollback_failed", "cancelled", "interrupted"}]
    BY <1>12 DEF Reconcile, TypeOK, JobStates
  <2>3. pc' \in [Actors -> Stages] /\ gate' \in Actors
    BY <1>12 DEF Reconcile, TypeOK, Step, Goto, Stages
  <2> QED BY <1>12, <2>1, <2>2, <2>3 DEF Reconcile, TypeOK
<1>13. ASSUME NEW j \in Jobs, Check(j) PROVE TypeOK'
  BY <1>13 DEF Check, TypeOK, Goto, Step, Maybe, Stages, JobStates, Named, Held
<1>14. ASSUME NEW j \in Jobs, Preflight(j) PROVE TypeOK'
  BY <1>14 DEF Preflight, TypeOK, Goto, Step, Maybe, Stages, JobStates, Named, Held
<1>15. ASSUME NEW j \in Jobs, Capture(j) PROVE TypeOK'
  BY <1>15 DEF Capture, TypeOK, Goto, Step, Maybe, Stages, JobStates, Named, Held
<1>16. ASSUME NEW j \in Jobs, Pull(j) PROVE TypeOK'
  BY <1>16 DEF Pull, TypeOK, Goto, Step, Maybe, Stages, JobStates, Named, Held
<1>17. ASSUME NEW j \in Jobs, StageFails(j) PROVE TypeOK'
  BY <1>17 DEF StageFails, TypeOK, Goto, Maybe, Stages, JobStates, Named, Held
<1>18. ASSUME NEW j \in Jobs, Begin(j) PROVE TypeOK'
  <2>1. attempted' \in BOOLEAN /\ undone' \in BOOLEAN /\ unguarded' \in BOOLEAN
    BY <1>18 DEF Begin, TypeOK
  <2>2. /\ pc' \in [Actors -> Stages] /\ by' \in [Actors -> {"none", "activate", "failure", "cancel"}]
        /\ copy' \in Maybe
    BY <1>18 DEF Begin, TypeOK, Goto, Undo, Stages
  <2> QED BY <1>18, <2>1, <2>2 DEF Begin, TypeOK
<1>19. ASSUME NEW j \in Jobs, Prepare(j) PROVE TypeOK'
  BY <1>19 DEF Prepare, TypeOK, Goto, Step, Maybe, Stages, JobStates, Named, Held
<1>20. ASSUME NEW j \in Jobs, Write(j) PROVE TypeOK'
  BY <1>20 DEF Write, TypeOK, Goto, Step, Maybe, Stages, JobStates, Named, Held
<1>21. ASSUME NEW j \in Jobs, Install(j) PROVE TypeOK'
  BY <1>21 DEF Install, TypeOK, Goto, Undo, Maybe, Stages, JobStates, BoxOf, Named, Held
<1>22. ASSUME NEW j \in Jobs, Compose(j) PROVE TypeOK'
  BY <1>22 DEF Compose, TypeOK, Goto, Undo, Maybe, Stages, JobStates, Named, Held
<1>23. ASSUME NEW j \in Jobs, Gate(j) PROVE TypeOK'
  BY <1>23 DEF Gate, TypeOK, Goto, Maybe, Stages, JobStates, Named, Held
<1>24. ASSUME NEW j \in Jobs, Commit(j) PROVE TypeOK'
  BY <1>24 DEF Commit, TypeOK, Goto, Step, Maybe, Stages, JobStates, Named, Held
<1>25. ASSUME NEW j \in Jobs, DropCopy(j) PROVE TypeOK'
  BY <1>25 DEF DropCopy, TypeOK, Goto, Step, Maybe, Stages, JobStates, Named, Held
<1>26. ASSUME NEW j \in Jobs, DropJournal(j) PROVE TypeOK'
  <2>1. active' \in BOOLEAN
    BY <1>26 DEF DropJournal
  <2>2. pc' \in [Actors -> Stages] /\ journal' = "none"
    BY <1>26 DEF DropJournal, TypeOK, Goto, Step, Stages
  <2> QED BY <1>26, <2>1, <2>2 DEF DropJournal, TypeOK
<1>27. ASSUME NEW j \in Jobs, Succeed(j) PROVE TypeOK'
  BY <1>27 DEF Succeed, TypeOK, Goto, Fault, Maybe, Stages, JobStates, Named, Held
<1>28. ASSUME NEW j \in Jobs, Prune(j) PROVE TypeOK'
  BY <1>28 DEF Prune, TypeOK, Goto, Step, Maybe, Stages, JobStates, Named, Held
<1>29. ASSUME NEW j \in Jobs, Clear(j) PROVE TypeOK'
  BY <1>29 DEF Clear, TypeOK, End, Fault, Maybe, Stages, JobStates, Named, Held
<1>30. ASSUME NEW j \in Jobs, Note(j) PROVE TypeOK'
  BY <1>30 DEF Note, TypeOK, Goto, End, Undo, Fault, Maybe, Stages, JobStates, Named, Held
<1>31. ASSUME NEW j \in Jobs, Recheck(j) PROVE TypeOK'
  BY <1>31 DEF Recheck, TypeOK, Goto, Maybe, Stages, JobStates, Named, Held
<1>32. ASSUME NEW j \in Jobs, Fail(j) PROVE TypeOK'
  <2>1. job' \in [id : Actors, state : JobStates, from : Versions, target : Versions,
                  error : {"none", "failed", "rollback_failed", "cancelled", "interrupted"}]
    BY <1>32 DEF Fail, TypeOK, JobStates
  <2>2. /\ pc' \in [Actors -> Stages] /\ by' \in [Actors -> {"none", "activate", "failure", "cancel"}]
        /\ snap' \in [Actors -> Maybe] /\ mem' \in [Jobs -> JobStates] /\ faults' \in 0..MaxFaults
    BY <1>32 DEF Fail, TypeOK, Goto, End, Stages, Maybe, JobStates, Fault
  <2> QED BY <1>32, <2>1, <2>2 DEF Fail, TypeOK
<1>33. ASSUME NEW j \in Jobs, Cancelled(j) PROVE TypeOK'
  BY <1>33 DEF Cancelled, TypeOK, End, Maybe, Stages, JobStates, Named, Held
<1>34. ASSUME NEW j \in Jobs, MarkFails(j) PROVE TypeOK'
  BY <1>34 DEF MarkFails, TypeOK, Goto, Step, Fault, Maybe, Stages, JobStates, Named, Held
<1>35. ASSUME NEW j \in Jobs, BeginFails(j) PROVE TypeOK'
  <2>1. attempted' \in BOOLEAN /\ undone' \in BOOLEAN
    BY <1>35 DEF BeginFails
  <2>2. /\ pc' \in [Actors -> Stages] /\ by' \in [Actors -> {"none", "activate", "failure", "cancel"}]
        /\ faults' \in 0..MaxFaults
    BY <1>35 DEF BeginFails, TypeOK, Goto, Undo, Stages, Fault
  <2> QED BY <1>35, <2>1, <2>2 DEF BeginFails, TypeOK
<1>36. ASSUME NEW j \in Jobs, PrepareFails(j) PROVE TypeOK'
  BY <1>36 DEF PrepareFails, TypeOK, Goto, Undo, Fault, Maybe, Stages, JobStates, Named, Held
<1>37. ASSUME NEW j \in Jobs, WriteFails(j) PROVE TypeOK'
  BY <1>37 DEF WriteFails, TypeOK, Goto, Undo, Fault, Maybe, Stages, JobStates, Named, Held
<1>38. ASSUME NEW j \in Jobs, FinalizeFails(j) PROVE TypeOK'
  BY <1>38 DEF FinalizeFails, TypeOK, Goto, Fault, Maybe, Stages, JobStates, Named, Held
<1>39. ASSUME NEW j \in Jobs, UndoFails(j) PROVE TypeOK'
  BY <1>39 DEF UndoFails, TypeOK, Goto, Fault, Torn, GiveUp, Continue, Maybe, Stages, JobStates,
     Named, Held
<1>40. ASSUME NEW j \in Jobs, CancelEarly(j) PROVE TypeOK'
  BY <1>40 DEF CancelEarly, TypeOK, Goto, Maybe, Stages, JobStates, Named, Held
<1>41. ASSUME NEW j \in Jobs, CancelActivation(j) PROVE TypeOK'
  BY <1>41 DEF CancelActivation, TypeOK, Goto, Undo, Torn, Maybe, Stages, JobStates, Named, Held
<1>42. ASSUME NEW j \in Jobs, CancelUndo(j) PROVE TypeOK'
  BY <1>42 DEF CancelUndo, TypeOK, Goto, Undo, Torn, Maybe, Stages, JobStates, Named, Held
<1>43. ASSUME NEW j \in Jobs, CancelHandler(j) PROVE TypeOK'
  BY <1>43 DEF CancelHandler, TypeOK, End, Torn, Maybe, Stages, JobStates, Named, Held
<1>44. ASSUME NEW a \in Actors, Restore(a) PROVE TypeOK'
  BY <1>44 DEF Restore, TypeOK, Goto, Step, Snapshot, Maybe, Stages, Named, Held, Actors, Jobs
<1>45. ASSUME NEW a \in Actors, UndoBox(a) PROVE TypeOK'
  BY <1>45 DEF UndoBox, TypeOK, Goto, Step, Snapshot, BoxOf, Maybe, Stages, Named, Held, Actors,
     Jobs
<1>46. ASSUME NEW a \in Actors, UndoWeb(a) PROVE TypeOK'
  BY <1>46 DEF UndoWeb, TypeOK, Goto, Step, Restored, Maybe, Stages, Named, Held, Actors, Jobs
<1>47. ASSUME NEW a \in Actors, UndoCopy(a) PROVE TypeOK'
  BY <1>47 DEF UndoCopy, TypeOK, Goto, Step, Maybe, Stages, Named, Held, Actors, Jobs
<1>48. ASSUME NEW a \in Actors, UndoJournal(a) PROVE TypeOK'
  <2>1. active' \in BOOLEAN
    BY <1>48 DEF UndoJournal
  <2>2. pc' \in [Actors -> Stages] /\ journal' = "none"
    BY <1>48 DEF UndoJournal, TypeOK, Goto, Step, Stages
  <2> QED BY <1>48, <2>1, <2>2 DEF UndoJournal, TypeOK
<1>49. ASSUME NEW a \in Actors, UndoEnds(a) PROVE TypeOK'
  BY <1>49 DEF UndoEnds, TypeOK, Goto, Step, Continue, Maybe, Stages, Named, Held, Actors, Jobs
<1>50. ASSUME UNCHANGED vars PROVE TypeOK'
  BY <1>50 DEF vars, TypeOK
<1> QED
  BY <1>1, <1>2, <1>3, <1>4, <1>5, <1>6, <1>7, <1>8, <1>9, <1>10, <1>11, <1>12, <1>13, <1>14,
     <1>15, <1>16, <1>17, <1>18, <1>19, <1>20, <1>21, <1>22, <1>23, <1>24, <1>25, <1>26, <1>27,
     <1>28, <1>29, <1>30, <1>31, <1>32, <1>33, <1>34, <1>35, <1>36, <1>37, <1>38, <1>39, <1>40,
     <1>41, <1>42, <1>43, <1>44, <1>45, <1>46, <1>47, <1>48, <1>49, <1>50
  DEF Next, Submit, Work, Activate, Breaks, Cancel, Roll

\* Every step keeps one holder of the gate.
LEMMA SerialStep == ASSUME TypeOK, Serial, [Next]_vars PROVE Serial'
<1> USE VersionsAssumption, BoundsAssumption, JobsAreActors
<1> USE DEF deployment, transaction, store, daemon, adapter, task, history
<1>1. ASSUME NEW c \in Clients, NEW v \in Versions, Ask(c, v) PROVE Serial'
  BY <1>1 DEF Ask, TypeOK, Serial, GatedUpdates
<1>2. ASSUME NEW c \in Clients, Accept(c) PROVE Serial'
  <2> DEFINE k == job.id + 1
  <2>1. k \in Jobs /\ gate = 0 /\ accepting
    BY <1>2 DEF Accept, MayAccept, TypeOK, Actors, Jobs
  <2>2. /\ pc' = [pc EXCEPT ![k] = "checking"] /\ gate' = k /\ job'.id = k
        /\ up' = up /\ (accepting' <=> accepting)
    BY <1>2 DEF Accept, Goto
  <2>3. \A j \in Jobs : pc[j] = "idle"
    BY <2>1 DEF Serial, GatedUpdates
  <2>4. up \notin {"down", "starting"} /\ pc[0] = "idle"
    BY <2>1 DEF Serial
  <2>5. \A j \in Jobs : pc'[j] = IF j = k THEN "checking" ELSE "idle"
    BY <2>1, <2>2, <2>3 DEF TypeOK
  <2>6. pc'[0] = "idle"
    BY <2>1, <2>2, <2>4 DEF TypeOK
  <2>7. GatedUpdates'
    BY <2>1, <2>2, <2>5 DEF GatedUpdates
  <2>8. up' \notin {"down", "starting"}
    BY <2>2, <2>4
  <2> QED BY <2>5, <2>6, <2>7, <2>8 DEF Serial
<1>3. ASSUME NEW c \in Clients, Refuse(c) PROVE Serial'
  BY <1>3 DEF Refuse, TypeOK, Serial, GatedUpdates
<1>4. ASSUME PrepareStop PROVE Serial'
  <2>1. \A j \in Jobs : pc[j] = "idle"
    BY <1>4 DEF PrepareStop, MayStop, Serial, GatedUpdates
  <2>2. up' = "serving" /\ UNCHANGED <<up, pc, job, gate>>
    BY <1>4 DEF PrepareStop
  <2>3. GatedUpdates'
    BY <2>1, <2>2 DEF Serial, GatedUpdates
  <2> QED BY <2>1, <2>2, <2>3 DEF Serial
<1>5. ASSUME CancelStop PROVE Serial'
  BY <1>5 DEF CancelStop, TypeOK, Serial, GatedUpdates
<1>6. ASSUME Terminate PROVE Serial'
  BY <1>6 DEF Terminate, TypeOK, Serial, GatedUpdates
<1>7. ASSUME LateWrite PROVE Serial'
  BY <1>7 DEF LateWrite, TypeOK, Serial, GatedUpdates
<1>8. ASSUME Exit PROVE Serial'
  <2>1. \A a \in Actors : pc[a] = "idle"
    BY <1>8 DEF Exit, Quiet
  <2>2. up' = "down" /\ ~accepting' /\ UNCHANGED <<pc, job, gate>>
    BY <1>8 DEF Exit
  <2>3. GatedUpdates'
    BY <2>1, <2>2 DEF Serial, GatedUpdates
  <2> QED BY <2>1, <2>2, <2>3 DEF Serial
<1>9. ASSUME Crash PROVE Serial'
  BY <1>9 DEF Crash, Dies, TypeOK, Serial, GatedUpdates
<1>10. ASSUME Start PROVE Serial'
  BY <1>10 DEF Start, Goto, TypeOK, Serial, GatedUpdates
<1>11. ASSUME StartRefused PROVE Serial'
  BY <1>11 DEF StartRefused, vars, TypeOK, Serial, GatedUpdates
<1>12. ASSUME Reconcile PROVE Serial'
  BY <1>12 DEF Reconcile, Goto, Step, TypeOK, Serial, GatedUpdates
<1>13. ASSUME NEW j \in Jobs, Check(j) PROVE Serial'
  BY <1>13 DEF Check, Goto, Step, TypeOK, Serial, GatedUpdates
<1>14. ASSUME NEW j \in Jobs, Preflight(j) PROVE Serial'
  BY <1>14 DEF Preflight, Goto, Step, TypeOK, Serial, GatedUpdates
<1>15. ASSUME NEW j \in Jobs, Capture(j) PROVE Serial'
  BY <1>15 DEF Capture, Goto, Step, TypeOK, Serial, GatedUpdates
<1>16. ASSUME NEW j \in Jobs, Pull(j) PROVE Serial'
  BY <1>16 DEF Pull, Goto, Step, TypeOK, Serial, GatedUpdates
<1>17. ASSUME NEW j \in Jobs, StageFails(j) PROVE Serial'
  BY <1>17 DEF StageFails, Goto, TypeOK, Serial, GatedUpdates
<1>18. ASSUME NEW j \in Jobs, Begin(j) PROVE Serial'
  BY <1>18 DEF Begin, Goto, Undo, TypeOK, Serial, GatedUpdates
<1>19. ASSUME NEW j \in Jobs, Prepare(j) PROVE Serial'
  BY <1>19 DEF Prepare, Goto, Step, TypeOK, Serial, GatedUpdates
<1>20. ASSUME NEW j \in Jobs, Write(j) PROVE Serial'
  BY <1>20 DEF Write, Goto, Step, TypeOK, Serial, GatedUpdates
<1>21. ASSUME NEW j \in Jobs, Install(j) PROVE Serial'
  BY <1>21 DEF Install, Goto, Undo, TypeOK, Serial, GatedUpdates
<1>22. ASSUME NEW j \in Jobs, Compose(j) PROVE Serial'
  BY <1>22 DEF Compose, Goto, Undo, TypeOK, Serial, GatedUpdates
<1>23. ASSUME NEW j \in Jobs, Gate(j) PROVE Serial'
  BY <1>23 DEF Gate, Goto, TypeOK, Serial, GatedUpdates
<1>24. ASSUME NEW j \in Jobs, Commit(j) PROVE Serial'
  BY <1>24 DEF Commit, Goto, Step, TypeOK, Serial, GatedUpdates
<1>25. ASSUME NEW j \in Jobs, DropCopy(j) PROVE Serial'
  BY <1>25 DEF DropCopy, Goto, Step, TypeOK, Serial, GatedUpdates
<1>26. ASSUME NEW j \in Jobs, DropJournal(j) PROVE Serial'
  BY <1>26 DEF DropJournal, Goto, Step, TypeOK, Serial, GatedUpdates
<1>27. ASSUME NEW j \in Jobs, Succeed(j) PROVE Serial'
  BY <1>27 DEF Succeed, Goto, TypeOK, Serial, GatedUpdates
<1>28. ASSUME NEW j \in Jobs, Prune(j) PROVE Serial'
  BY <1>28 DEF Prune, Goto, Step, TypeOK, Serial, GatedUpdates
<1>29. ASSUME NEW j \in Jobs, Clear(j) PROVE Serial'
  BY <1>29 DEF Clear, End, TypeOK, Serial, GatedUpdates
<1>30. ASSUME NEW j \in Jobs, Note(j) PROVE Serial'
  BY <1>30 DEF Note, Goto, End, Undo, TypeOK, Serial, GatedUpdates
<1>31. ASSUME NEW j \in Jobs, Recheck(j) PROVE Serial'
  BY <1>31 DEF Recheck, Goto, TypeOK, Serial, GatedUpdates
<1>32. ASSUME NEW j \in Jobs, Fail(j) PROVE Serial'
  BY <1>32 DEF Fail, Goto, End, TypeOK, Serial, GatedUpdates
<1>33. ASSUME NEW j \in Jobs, Cancelled(j) PROVE Serial'
  BY <1>33 DEF Cancelled, End, TypeOK, Serial, GatedUpdates
<1>34. ASSUME NEW j \in Jobs, MarkFails(j) PROVE Serial'
  BY <1>34 DEF MarkFails, Goto, Step, TypeOK, Serial, GatedUpdates
<1>35. ASSUME NEW j \in Jobs, BeginFails(j) PROVE Serial'
  BY <1>35 DEF BeginFails, Goto, Undo, TypeOK, Serial, GatedUpdates
<1>36. ASSUME NEW j \in Jobs, PrepareFails(j) PROVE Serial'
  BY <1>36 DEF PrepareFails, Goto, Undo, TypeOK, Serial, GatedUpdates
<1>37. ASSUME NEW j \in Jobs, WriteFails(j) PROVE Serial'
  BY <1>37 DEF WriteFails, Goto, Undo, TypeOK, Serial, GatedUpdates
<1>38. ASSUME NEW j \in Jobs, FinalizeFails(j) PROVE Serial'
  BY <1>38 DEF FinalizeFails, Goto, TypeOK, Serial, GatedUpdates
<1>39. ASSUME NEW j \in Jobs, UndoFails(j) PROVE Serial'
  BY <1>39 DEF UndoFails, Goto, GiveUp, Continue, Undoing, TypeOK, Serial, GatedUpdates
<1>40. ASSUME NEW j \in Jobs, CancelEarly(j) PROVE Serial'
  BY <1>40 DEF CancelEarly, Goto, TypeOK, Serial, GatedUpdates
<1>41. ASSUME NEW j \in Jobs, CancelActivation(j) PROVE Serial'
  BY <1>41 DEF CancelActivation, Goto, Undo, TypeOK, Serial, GatedUpdates
<1>42. ASSUME NEW j \in Jobs, CancelUndo(j) PROVE Serial'
  BY <1>42 DEF CancelUndo, Goto, Undo, Undoing, TypeOK, Serial, GatedUpdates
<1>43. ASSUME NEW j \in Jobs, CancelHandler(j) PROVE Serial'
  BY <1>43 DEF CancelHandler, End, Undoing, TypeOK, Serial, GatedUpdates
<1>44. ASSUME NEW a \in Actors, Restore(a) PROVE Serial'
  BY <1>44 DEF Restore, Goto, Step, Snapshot, TypeOK, Serial, GatedUpdates
<1>45. ASSUME NEW a \in Actors, UndoBox(a) PROVE Serial'
  BY <1>45 DEF UndoBox, Goto, Step, Snapshot, TypeOK, Serial, GatedUpdates
<1>46. ASSUME NEW a \in Actors, UndoWeb(a) PROVE Serial'
  BY <1>46 DEF UndoWeb, Goto, Step, Restored, TypeOK, Serial, GatedUpdates
<1>47. ASSUME NEW a \in Actors, UndoCopy(a) PROVE Serial'
  BY <1>47 DEF UndoCopy, Goto, Step, TypeOK, Serial, GatedUpdates
<1>48. ASSUME NEW a \in Actors, UndoJournal(a) PROVE Serial'
  BY <1>48 DEF UndoJournal, Goto, Step, TypeOK, Serial, GatedUpdates
<1>49. ASSUME NEW a \in Actors, UndoEnds(a) PROVE Serial'
  BY <1>49 DEF UndoEnds, Goto, Step, Continue, TypeOK, Serial, GatedUpdates
<1>50. ASSUME UNCHANGED vars PROVE Serial'
  BY <1>50 DEF vars, TypeOK, Serial, GatedUpdates
<1> QED
  BY <1>1, <1>2, <1>3, <1>4, <1>5, <1>6, <1>7, <1>8, <1>9, <1>10, <1>11, <1>12, <1>13, <1>14,
     <1>15, <1>16, <1>17, <1>18, <1>19, <1>20, <1>21, <1>22, <1>23, <1>24, <1>25, <1>26, <1>27,
     <1>28, <1>29, <1>30, <1>31, <1>32, <1>33, <1>34, <1>35, <1>36, <1>37, <1>38, <1>39, <1>40,
     <1>41, <1>42, <1>43, <1>44, <1>45, <1>46, <1>47, <1>48, <1>49, <1>50
  DEF Next, Submit, Work, Activate, Breaks, Cancel, Roll

\* Every step keeps a stage with the versions it speaks of.
LEMMA NamedStep == ASSUME TypeOK, Named, Serial, [Next]_vars PROVE Named'
<1> USE VersionsAssumption, BoundsAssumption, JobsAreActors
<1> USE DEF deployment, transaction, store, daemon, adapter, task, history
<1>1. ASSUME NEW c \in Clients, NEW v \in Versions, Ask(c, v) PROVE Named'
  BY <1>1 DEF Ask, Running, Ready, TypeOK, Named, Serial, GatedUpdates, Held, Maybe, Unasked
<1>2. ASSUME NEW c \in Clients, Accept(c) PROVE Named'
  BY <1>2 DEF Accept, MayAccept, Goto, Running, Guarded, TypeOK, Named, Serial, GatedUpdates,
     Held, Maybe, Unasked
<1>3. ASSUME NEW c \in Clients, Refuse(c) PROVE Named'
  BY <1>3 DEF Refuse, TypeOK, Named, Serial, GatedUpdates, Held, Maybe, Unasked
<1>4. ASSUME PrepareStop PROVE Named'
  BY <1>4 DEF PrepareStop, TypeOK, Named, Serial, GatedUpdates, Held, Maybe, Unasked
<1>5. ASSUME CancelStop PROVE Named'
  BY <1>5 DEF CancelStop, TypeOK, Named, Serial, GatedUpdates, Held, Maybe, Unasked
<1>6. ASSUME Terminate PROVE Named'
  BY <1>6 DEF Terminate, TypeOK, Named, Serial, GatedUpdates, Held, Maybe, Unasked
<1>7. ASSUME LateWrite PROVE Named'
  BY <1>7 DEF LateWrite, TypeOK, Named, Serial, GatedUpdates, Held, Maybe, Unasked
<1>8. ASSUME Exit PROVE Named'
  BY <1>8 DEF Exit, TypeOK, Named, Serial, GatedUpdates, Held, Maybe, Unasked
<1>9. ASSUME Crash PROVE Named'
  BY <1>9 DEF Crash, Dies, Guarded, TypeOK, Named, Serial, GatedUpdates, Held, Maybe, Unasked
<1>10. ASSUME Start PROVE Named'
  BY <1>10 DEF Start, Goto, CopyLost, TypeOK, Named, Serial, GatedUpdates, Held, Maybe, Unasked
<1>11. ASSUME StartRefused PROVE Named'
  BY <1>11 DEF StartRefused, vars, TypeOK, Named, Maybe
<1>12. ASSUME Reconcile PROVE Named'
  BY <1>12 DEF Reconcile, Goto, Step, TypeOK, Named, Serial, GatedUpdates, Held, Maybe, Unasked
<1>13. ASSUME NEW j \in Jobs, Check(j) PROVE Named'
  BY <1>13 DEF Check, Goto, Step, TypeOK, Named, Serial, GatedUpdates, Held, Maybe, Unasked
<1>14. ASSUME NEW j \in Jobs, Preflight(j) PROVE Named'
  BY <1>14 DEF Preflight, Goto, Step, Ready, TypeOK, Named, Serial, GatedUpdates, Held, Maybe,
     Unasked
<1>15. ASSUME NEW j \in Jobs, Capture(j) PROVE Named'
  BY <1>15 DEF Capture, Goto, Step, TypeOK, Named, Serial, GatedUpdates, Held, Maybe, Unasked
<1>16. ASSUME NEW j \in Jobs, Pull(j) PROVE Named'
  BY <1>16 DEF Pull, Goto, Step, TypeOK, Named, Serial, GatedUpdates, Held, Maybe, Unasked
<1>17. ASSUME NEW j \in Jobs, StageFails(j) PROVE Named'
  BY <1>17 DEF StageFails, Goto, TypeOK, Named, Serial, GatedUpdates, Held, Maybe, Unasked
<1>18. ASSUME NEW j \in Jobs, Begin(j) PROVE Named'
  BY <1>18 DEF Begin, Goto, Undo, TypeOK, Named, Serial, GatedUpdates, Held, Maybe, Unasked
<1>19. ASSUME NEW j \in Jobs, Prepare(j) PROVE Named'
  BY <1>19 DEF Prepare, Goto, Step, TypeOK, Named, Serial, GatedUpdates, Held, Maybe, Unasked
<1>20. ASSUME NEW j \in Jobs, Write(j) PROVE Named'
  BY <1>20 DEF Write, Goto, Step, TypeOK, Named, Serial, GatedUpdates, Held, Maybe, Unasked
<1>21. ASSUME NEW j \in Jobs, Install(j) PROVE Named'
  BY <1>21 DEF Install, Goto, Undo, TypeOK, Named, Serial, GatedUpdates, Held, Maybe, Unasked
<1>22. ASSUME NEW j \in Jobs, Compose(j) PROVE Named'
  BY <1>22 DEF Compose, Goto, Undo, TypeOK, Named, Serial, GatedUpdates, Held, Maybe, Unasked
<1>23. ASSUME NEW j \in Jobs, Gate(j) PROVE Named'
  BY <1>23 DEF Gate, Goto, TypeOK, Named, Serial, GatedUpdates, Held, Maybe, Unasked
<1>24. ASSUME NEW j \in Jobs, Commit(j) PROVE Named'
  BY <1>24 DEF Commit, Goto, Step, TypeOK, Named, Serial, GatedUpdates, Held, Maybe, Unasked
<1>25. ASSUME NEW j \in Jobs, DropCopy(j) PROVE Named'
  BY <1>25 DEF DropCopy, Goto, Step, TypeOK, Named, Serial, GatedUpdates, Held, Maybe, Unasked
<1>26. ASSUME NEW j \in Jobs, DropJournal(j) PROVE Named'
  BY <1>26 DEF DropJournal, Goto, Step, TypeOK, Named, Serial, GatedUpdates, Held, Maybe, Unasked
<1>27. ASSUME NEW j \in Jobs, Succeed(j) PROVE Named'
  BY <1>27 DEF Succeed, Goto, TypeOK, Named, Serial, GatedUpdates, Held, Maybe, Unasked
<1>28. ASSUME NEW j \in Jobs, Prune(j) PROVE Named'
  BY <1>28 DEF Prune, Goto, Step, TypeOK, Named, Serial, GatedUpdates, Held, Maybe, Unasked
<1>29. ASSUME NEW j \in Jobs, Clear(j) PROVE Named'
  BY <1>29 DEF Clear, End, TypeOK, Named, Serial, GatedUpdates, Held, Maybe, Unasked
<1>30. ASSUME NEW j \in Jobs, Note(j) PROVE Named'
  BY <1>30 DEF Note, Goto, End, Undo, TypeOK, Named, Serial, GatedUpdates, Held, Maybe, Unasked
<1>31. ASSUME NEW j \in Jobs, Recheck(j) PROVE Named'
  BY <1>31 DEF Recheck, Goto, TypeOK, Named, Serial, GatedUpdates, Held, Maybe, Unasked
<1>32. ASSUME NEW j \in Jobs, Fail(j) PROVE Named'
  <2>1. asked' = asked /\ copy' = copy /\ pc[j] \in {"fail", "unrestored"}
    BY <1>32 DEF Fail
  <2>2. /\ pc' = [pc EXCEPT ![j] = pc'[j]] /\ pc'[j] \in {"clear", "idle"}
        /\ snap' = [snap EXCEPT ![j] = snap'[j]]
    BY <1>32 DEF Fail, Goto, End, TypeOK
  <2>3. job'.target = job.target
    BY <1>32 DEF Fail, TypeOK
  <2>4. \A k \in Jobs : pc'[k] # "idle" => pc[k] # "idle"
    BY <2>1, <2>2 DEF TypeOK
  <2>5. \A k \in Jobs : pc'[k] \in Held => pc[k] \in Held /\ snap'[k] = snap[k]
    BY <2>2 DEF TypeOK, Held
  <2>6. pc'[0] = pc[0]
    BY <2>2 DEF TypeOK
  <2> QED BY <2>1, <2>3, <2>4, <2>5, <2>6 DEF Named
<1>33. ASSUME NEW j \in Jobs, Cancelled(j) PROVE Named'
  BY <1>33 DEF Cancelled, End, TypeOK, Named, Serial, GatedUpdates, Held, Maybe, Unasked
<1>34. ASSUME NEW j \in Jobs, MarkFails(j) PROVE Named'
  BY <1>34 DEF MarkFails, Goto, Step, TypeOK, Named, Serial, GatedUpdates, Held, Maybe, Unasked
<1>35. ASSUME NEW j \in Jobs, BeginFails(j) PROVE Named'
  BY <1>35 DEF BeginFails, Goto, Undo, TypeOK, Named, Serial, GatedUpdates, Held, Maybe, Unasked
<1>36. ASSUME NEW j \in Jobs, PrepareFails(j) PROVE Named'
  BY <1>36 DEF PrepareFails, Goto, Undo, TypeOK, Named, Serial, GatedUpdates, Held, Maybe, Unasked
<1>37. ASSUME NEW j \in Jobs, WriteFails(j) PROVE Named'
  BY <1>37 DEF WriteFails, Goto, Undo, TypeOK, Named, Serial, GatedUpdates, Held, Maybe, Unasked
<1>38. ASSUME NEW j \in Jobs, FinalizeFails(j) PROVE Named'
  BY <1>38 DEF FinalizeFails, Goto, TypeOK, Named, Serial, GatedUpdates, Held, Maybe, Unasked
<1>39. ASSUME NEW j \in Jobs, UndoFails(j) PROVE Named'
  BY <1>39 DEF UndoFails, Goto, GiveUp, Continue, Undoing, Guarded, TypeOK, Named, Serial,
     GatedUpdates, Held, Maybe, Unasked
<1>40. ASSUME NEW j \in Jobs, CancelEarly(j) PROVE Named'
  BY <1>40 DEF CancelEarly, Goto, TypeOK, Named, Serial, GatedUpdates, Held, Maybe, Unasked
<1>41. ASSUME NEW j \in Jobs, CancelActivation(j) PROVE Named'
  BY <1>41 DEF CancelActivation, Goto, Undo, TypeOK, Named, Serial, GatedUpdates, Held, Maybe,
     Unasked
<1>42. ASSUME NEW j \in Jobs, CancelUndo(j) PROVE Named'
  BY <1>42 DEF CancelUndo, Goto, Undo, Undoing, TypeOK, Named, Serial, GatedUpdates, Held, Maybe,
     Unasked
<1>43. ASSUME NEW j \in Jobs, CancelHandler(j) PROVE Named'
  BY <1>43 DEF CancelHandler, End, Undoing, Guarded, TypeOK, Named, Serial, GatedUpdates, Held,
     Maybe, Unasked
<1>44. ASSUME NEW a \in Actors, Restore(a) PROVE Named'
  BY <1>44 DEF Restore, Goto, Step, Snapshot, Guarded, TypeOK, Named, Serial, GatedUpdates, Held,
     Maybe, Unasked
<1>45. ASSUME NEW a \in Actors, UndoBox(a) PROVE Named'
  BY <1>45 DEF UndoBox, Goto, Step, Snapshot, TypeOK, Named, Serial, GatedUpdates, Held, Maybe,
     Unasked
<1>46. ASSUME NEW a \in Actors, UndoWeb(a) PROVE Named'
  BY <1>46 DEF UndoWeb, Goto, Step, Restored, TypeOK, Named, Serial, GatedUpdates, Held, Maybe,
     Unasked
<1>47. ASSUME NEW a \in Actors, UndoCopy(a) PROVE Named'
  BY <1>47 DEF UndoCopy, Goto, Step, TypeOK, Named, Serial, GatedUpdates, Held, Maybe, Unasked
<1>48. ASSUME NEW a \in Actors, UndoJournal(a) PROVE Named'
  BY <1>48 DEF UndoJournal, Goto, Step, TypeOK, Named, Serial, GatedUpdates, Held, Maybe, Unasked
<1>49. ASSUME NEW a \in Actors, UndoEnds(a) PROVE Named'
  BY <1>49 DEF UndoEnds, Goto, Step, Continue, TypeOK, Named, Serial, GatedUpdates, Held, Maybe,
     Unasked
<1>50. ASSUME UNCHANGED vars PROVE Named'
  BY <1>50 DEF vars, TypeOK, Named, Serial, GatedUpdates, Held, Maybe, Unasked
<1> QED
  BY <1>1, <1>2, <1>3, <1>4, <1>5, <1>6, <1>7, <1>8, <1>9, <1>10, <1>11, <1>12, <1>13, <1>14,
     <1>15, <1>16, <1>17, <1>18, <1>19, <1>20, <1>21, <1>22, <1>23, <1>24, <1>25, <1>26, <1>27,
     <1>28, <1>29, <1>30, <1>31, <1>32, <1>33, <1>34, <1>35, <1>36, <1>37, <1>38, <1>39, <1>40,
     <1>41, <1>42, <1>43, <1>44, <1>45, <1>46, <1>47, <1>48, <1>49, <1>50
  DEF Next, Submit, Work, Activate, Breaks, Cancel, Roll


\* At most one job or the start of the daemon is at work.
LEMMA OneActor ==
  ASSUME Serial
  PROVE  \A a, b \in Actors : pc[a] # "idle" /\ pc[b] # "idle" => a = b
<1>1. \A j, k \in Jobs : pc[j] # "idle" /\ pc[k] # "idle" => j = k
  BY DEF Serial, GatedUpdates
<1>2. pc[0] # "idle" => \A j \in Jobs : pc[j] = "idle"
  BY DEF Serial, GatedUpdates
<1> QED BY <1>1, <1>2, JobsAreActors

\* Every step keeps the transaction worth what its stage says.
LEMMA SafeStep == ASSUME TypeOK, Named, Serial, Safe, [Next]_vars PROVE Safe'
<1> USE VersionsAssumption, BoundsAssumption, JobsAreActors
<1> USE DEF deployment, transaction, store, daemon, adapter, task, history
<1>0. \A a, b \in Actors : pc[a] # "idle" /\ pc[b] # "idle" => a = b
  BY OneActor
<1>a. \A j \in Jobs : pc[j] # "idle" => accepting /\ up \notin {"down", "starting"} /\ pc[0] = "idle"
  BY <1>0 DEF Serial, GatedUpdates
<1> USE <1>0, <1>a
<1>1. ASSUME NEW c \in Clients, NEW v \in Versions, Ask(c, v) PROVE Safe'
  BY <1>1 DEF Ask, Running, TypeOK, Named, Safe, Stage, Rollback, NoJournal, NoSandbox, Fresh,
     Uniform, Guarded, Converged, BoxOf, Snapshot, Held, Maybe
<1>2. ASSUME NEW c \in Clients, Accept(c) PROVE Safe'
  <2>1. gate = 0 /\ \A j \in Jobs : pc[j] = "idle"
    <3>1. gate = 0
      BY <1>2 DEF Accept, MayAccept
    <3> QED BY <3>1 DEF Serial, GatedUpdates, Jobs
  <2>2. PICK k \in Jobs : pc' = [pc EXCEPT ![k] = "checking"]
    <3>1. job.id + 1 \in Jobs
      BY <1>2 DEF Accept, TypeOK, Jobs, Actors
    <3>2. pc' = [pc EXCEPT ![job.id + 1] = "checking"]
      BY <1>2 DEF Accept, Goto
    <3> QED BY <3>1, <3>2
  <2>3. UNCHANGED <<deployment, transaction, up, adapter, by, snap, late, unguarded>>
    BY <1>2 DEF Accept
  <2>4. SUFFICES ASSUME ~unguarded' PROVE Safe'
    BY DEF Safe
  <2>5. pc'[0] = pc[0]
    BY <2>2 DEF TypeOK
  <2>6. \A j \in Jobs : pc'[j] \in {"idle", "checking"}
    BY <2>1, <2>2 DEF TypeOK
  <2>7. (\A j \in Jobs : Stage(j)') /\ (\A a \in Actors : Rollback(a)')
    BY <2>3, <2>4, <2>5, <2>6 DEF Safe, Stage, Rollback, Uniform, Guarded, Converged, Snapshot
  <2>8. (Uniform \/ Guarded)' /\ NoJournal' /\ NoSandbox' /\ Fresh' /\ (pc[0] = "restore" => Guarded)'
    BY <2>3, <2>4, <2>5, <2>6 DEF Safe, NoJournal, NoSandbox, Fresh, Uniform, Guarded, Converged, Held
  <2> QED BY <2>7, <2>8 DEF Safe
<1>3. ASSUME NEW c \in Clients, Refuse(c) PROVE Safe'
  BY <1>3 DEF Refuse, TypeOK, Named, Safe, Stage, Rollback, NoJournal, NoSandbox, Fresh, Uniform,
     Guarded, Converged, BoxOf, Snapshot, Held, Maybe
<1>4. ASSUME PrepareStop PROVE Safe'
  BY <1>4 DEF PrepareStop, TypeOK, Named, Safe, Stage, Rollback, NoJournal, NoSandbox, Fresh,
     Uniform, Guarded, Converged, BoxOf, Snapshot, Held, Maybe
<1>5. ASSUME CancelStop PROVE Safe'
  BY <1>5 DEF CancelStop, TypeOK, Named, Safe, Stage, Rollback, NoJournal, NoSandbox, Fresh,
     Uniform, Guarded, Converged, BoxOf, Snapshot, Held, Maybe
<1>6. ASSUME Terminate PROVE Safe'
  BY <1>6 DEF Terminate, TypeOK, Named, Safe, Stage, Rollback, NoJournal, NoSandbox, Fresh,
     Uniform, Guarded, Converged, BoxOf, Snapshot, Held, Maybe
<1>7. ASSUME LateWrite PROVE Safe'
  BY <1>7 DEF LateWrite, TypeOK, Named, Safe, Stage, Rollback, NoJournal, NoSandbox, Fresh,
     Uniform, Guarded, Converged, BoxOf, Snapshot, Held, Maybe
<1>8. ASSUME Exit PROVE Safe'
  BY <1>8 DEF Exit, Quiet, TypeOK, Named, Safe, Stage, Rollback, NoJournal, NoSandbox, Fresh,
     Uniform, Guarded, Converged, BoxOf, Snapshot, Held, Maybe
<1>9. ASSUME Crash PROVE Safe'
  <2>1. /\ up' = "down" /\ active' = FALSE
        /\ pc' = [a \in Actors |-> "idle"] /\ by' = [a \in Actors |-> "none"]
        /\ UNCHANGED <<env, journal, copy>>
    BY <1>9 DEF Crash, Dies
  <2>2. SUFFICES ASSUME ~unguarded' PROVE Safe'
    BY DEF Safe
  <2>3. ~unguarded /\ \A a \in Actors : Undoing(a) => Guarded
    BY <1>9, <2>2 DEF Crash, TypeOK
  <2>4. \A a \in Actors : pc[a] \in {"install", "compose", "undoBox", "undoWeb"} => Guarded
    <3>1. \A a \in Actors : pc[a] \in {"install", "compose"} => a # 0
      BY <2>3 DEF Safe, Fresh
    <3> QED BY <2>3, <3>1 DEF Safe, Stage, Undoing
  <2>5. Guarded \/ (UNCHANGED <<web, box>>)
    BY <1>9, <2>4 DEF Crash, Torn
  <2>6. (Uniform \/ Guarded)'
    BY <2>1, <2>3, <2>5 DEF Safe, Uniform, Guarded, Converged
  <2>7. (\A j \in Jobs : Stage(j)') /\ (\A a \in Actors : Rollback(a)')
    BY <2>1 DEF Stage, Rollback
  <2>8. (pc[0] = "restore" => Guarded)' /\ NoJournal' /\ NoSandbox' /\ Fresh'
    BY <2>1 DEF NoJournal, NoSandbox, Fresh
  <2> QED BY <2>6, <2>7, <2>8 DEF Safe
<1>10. ASSUME Start PROVE Safe'
  BY <1>10 DEF Start, Goto, CopyLost, TypeOK, Named, Safe, Stage, Rollback, NoJournal, NoSandbox,
     Fresh, Uniform, Guarded, Converged, BoxOf, Snapshot, Held, Maybe
<1>11. ASSUME StartRefused PROVE Safe'
  BY <1>11 DEF StartRefused, vars, Safe, Stage, Rollback, NoJournal, NoSandbox, Fresh, Uniform,
     Guarded, Converged, BoxOf, Snapshot, Held
<1>12. ASSUME Reconcile PROVE Safe'
  <2>1. /\ pc[0] = "reconcile" /\ pc' = [pc EXCEPT ![0] = "idle"] /\ up' = "serving"
        /\ UNCHANGED <<deployment, transaction, adapter, by, snap, unguarded>>
    BY <1>12 DEF Reconcile, Step, Goto
  <2>2. SUFFICES ASSUME ~unguarded' PROVE Safe'
    BY DEF Safe
  <2>3. (\A a \in Actors : pc'[a] = "idle") /\ ~active /\ by[0] = "none"
    <3>1. \A a \in Actors : pc'[a] = "idle"
      BY <1>0, <2>1 DEF TypeOK
    <3>2. ~active /\ by[0] = "none"
      BY <2>1, <2>2 DEF Serial, Safe, Fresh
    <3> QED BY <3>1, <3>2
  <2>4. journal = "none" /\ up # "down"
    BY <2>1, <2>2, <2>3 DEF Safe, NoJournal, Serial
  <2>5. (Uniform \/ Guarded)'
    BY <2>1, <2>2 DEF Safe, Uniform, Guarded, Converged
  <2>6. (\A j \in Jobs : Stage(j)') /\ (\A a \in Actors : Rollback(a)')
    BY <2>3 DEF Stage, Rollback
  <2>7. (pc[0] = "restore" => Guarded)' /\ NoJournal' /\ NoSandbox' /\ Fresh'
    BY <2>1, <2>3, <2>4 DEF NoJournal, NoSandbox, Fresh, adapter
  <2> QED BY <2>5, <2>6, <2>7 DEF Safe
<1>13. ASSUME NEW j \in Jobs, Check(j) PROVE Safe'
  BY <1>13 DEF Check, Goto, Step, TypeOK, Named, Safe, Stage, Rollback, NoJournal, NoSandbox,
     Fresh, Uniform, Guarded, Converged, BoxOf, Snapshot, Held, Maybe
<1>14. ASSUME NEW j \in Jobs, Preflight(j) PROVE Safe'
  BY <1>14 DEF Preflight, Goto, Step, TypeOK, Named, Safe, Stage, Rollback, NoJournal, NoSandbox,
     Fresh, Uniform, Guarded, Converged, BoxOf, Snapshot, Held, Maybe
<1>15. ASSUME NEW j \in Jobs, Capture(j) PROVE Safe'
  BY <1>15 DEF Capture, Goto, Step, TypeOK, Named, Safe, Stage, Rollback, NoJournal, NoSandbox,
     Fresh, Uniform, Guarded, Converged, BoxOf, Snapshot, Held, Maybe
<1>16. ASSUME NEW j \in Jobs, Pull(j) PROVE Safe'
  BY <1>16 DEF Pull, Goto, Step, TypeOK, Named, Safe, Stage, Rollback, NoJournal, NoSandbox,
     Fresh, Uniform, Guarded, Converged, BoxOf, Snapshot, Held, Maybe
<1>17. ASSUME NEW j \in Jobs, StageFails(j) PROVE Safe'
  BY <1>17 DEF StageFails, Goto, TypeOK, Named, Safe, Stage, Rollback, NoJournal, NoSandbox,
     Fresh, Uniform, Guarded, Converged, BoxOf, Snapshot, Held, Maybe
<1>18. ASSUME NEW j \in Jobs, Begin(j) PROVE Safe'
  <2>1. SUFFICES ASSUME ~unguarded' PROVE Safe'
    BY DEF Safe
  <2>2. /\ ~active /\ ~unguarded /\ pc[j] = "begin" /\ pc' = [pc EXCEPT ![j] = "prepare"]
        /\ copy' = snap[j] /\ attempted' = FALSE
        /\ UNCHANGED <<deployment, journal, up, active, by, snap>>
    BY <1>18, <2>1 DEF Begin, Goto
  <2>3. journal = "none" /\ Uniform /\ env = snap[j] /\ snap[j] \in Versions
    <3>1. journal = "none"
      BY <2>2 DEF Safe, NoJournal
    <3> QED BY <2>2, <3>1 DEF Safe, Guarded, Stage, Named, Held
  <2>4. \A a \in Actors : pc'[a] = IF a = j THEN "prepare" ELSE "idle"
    BY <1>0, <2>2 DEF TypeOK
  <2>5. Uniform'
    BY <2>2, <2>3 DEF Uniform, Converged
  <2>6. (\A i \in Jobs : Stage(i)') /\ (\A a \in Actors : Rollback(a)')
    BY <2>2, <2>3, <2>4, <2>5 DEF Stage, Rollback
  <2>7. (pc[0] = "restore" => Guarded)' /\ NoJournal' /\ NoSandbox' /\ Fresh'
    BY <2>2, <2>3, <2>4 DEF Safe, NoJournal, NoSandbox, Fresh
  <2> QED BY <2>5, <2>6, <2>7 DEF Safe
<1>19. ASSUME NEW j \in Jobs, Prepare(j) PROVE Safe'
  BY <1>19 DEF Prepare, Goto, Step, TypeOK, Named, Safe, Stage, Rollback, NoJournal, NoSandbox,
     Fresh, Uniform, Guarded, Converged, BoxOf, Snapshot, Held, Maybe
<1>20. ASSUME NEW j \in Jobs, Write(j) PROVE Safe'
  BY <1>20 DEF Write, Goto, Step, TypeOK, Named, Safe, Stage, Rollback, NoJournal, NoSandbox,
     Fresh, Uniform, Guarded, Converged, BoxOf, Snapshot, Held, Maybe
<1>21. ASSUME NEW j \in Jobs, Install(j) PROVE Safe'
  BY <1>21 DEF Install, Goto, Undo, TypeOK, Named, Safe, Stage, Rollback, NoJournal, NoSandbox,
     Fresh, Uniform, Guarded, Converged, BoxOf, Snapshot, Held, Maybe
<1>22. ASSUME NEW j \in Jobs, Compose(j) PROVE Safe'
  BY <1>22 DEF Compose, Goto, Undo, TypeOK, Named, Safe, Stage, Rollback, NoJournal, NoSandbox,
     Fresh, Uniform, Guarded, Converged, BoxOf, Snapshot, Held, Maybe
<1>23. ASSUME NEW j \in Jobs, Gate(j) PROVE Safe'
  BY <1>23 DEF Gate, Goto, Healthy, TypeOK, Named, Safe, Stage, Rollback, NoJournal, NoSandbox,
     Fresh, Uniform, Guarded, Converged, BoxOf, Snapshot, Held, Maybe
<1>24. ASSUME NEW j \in Jobs, Commit(j) PROVE Safe'
  <2>1. SUFFICES ASSUME ~unguarded' PROVE Safe'
    BY DEF Safe
  <2>2. /\ ~unguarded /\ pc[j] = "commit" /\ pc' = [pc EXCEPT ![j] = "dropCopy"]
        /\ journal' = "committed"
        /\ UNCHANGED <<deployment, copy, store, up, adapter, by, snap>>
    BY <1>24, <2>1 DEF Commit, Step, Goto
  <2>3. Converged(job.target) /\ job.target \in Versions /\ active
    BY <2>2 DEF Safe, Stage, TypeOK
  <2>4. Uniform' /\ Converged(job.target)'
    BY <2>2, <2>3 DEF Uniform, Converged
  <2>5. \A a \in Actors : pc'[a] = IF a = j THEN "dropCopy" ELSE "idle"
    BY <1>0, <2>2 DEF TypeOK
  <2>6. (\A i \in Jobs : Stage(i)') /\ (\A a \in Actors : Rollback(a)')
    BY <2>2, <2>3, <2>4, <2>5 DEF Stage, Rollback
  <2>7. NoJournal'
    BY <2>2, <2>3 DEF NoJournal
  <2>8. (pc[0] = "restore" => Guarded)' /\ NoSandbox' /\ Fresh'
    BY <2>2, <2>5 DEF Safe, NoSandbox, Fresh, Held
  <2> QED BY <2>4, <2>6, <2>7, <2>8 DEF Safe
<1>25. ASSUME NEW j \in Jobs, DropCopy(j) PROVE Safe'
  BY <1>25 DEF DropCopy, Goto, Step, TypeOK, Named, Safe, Stage, Rollback, NoJournal, NoSandbox,
     Fresh, Uniform, Guarded, Converged, BoxOf, Snapshot, Held, Maybe
<1>26. ASSUME NEW j \in Jobs, DropJournal(j) PROVE Safe'
  BY <1>26 DEF DropJournal, Goto, Step, TypeOK, Named, Safe, Stage, Rollback, NoJournal,
     NoSandbox, Fresh, Uniform, Guarded, Converged, BoxOf, Snapshot, Held, Maybe
<1>27. ASSUME NEW j \in Jobs, Succeed(j) PROVE Safe'
  BY <1>27 DEF Succeed, Goto, Fault, TypeOK, Named, Safe, Stage, Rollback, NoJournal, NoSandbox,
     Fresh, Uniform, Guarded, Converged, BoxOf, Snapshot, Held, Maybe
<1>28. ASSUME NEW j \in Jobs, Prune(j) PROVE Safe'
  BY <1>28 DEF Prune, Goto, Step, TypeOK, Named, Safe, Stage, Rollback, NoJournal, NoSandbox,
     Fresh, Uniform, Guarded, Converged, BoxOf, Snapshot, Held, Maybe
<1>29. ASSUME NEW j \in Jobs, Clear(j) PROVE Safe'
  BY <1>29 DEF Clear, End, Fault, TypeOK, Named, Safe, Stage, Rollback, NoJournal, NoSandbox,
     Fresh, Uniform, Guarded, Converged, BoxOf, Snapshot, Held, Maybe
<1>30. ASSUME NEW j \in Jobs, Note(j) PROVE Safe'
  BY <1>30 DEF Note, Goto, End, Undo, Fault, TypeOK, Named, Safe, Stage, Rollback, NoJournal,
     NoSandbox, Fresh, Uniform, Guarded, Converged, BoxOf, Snapshot, Held, Maybe
<1>31. ASSUME NEW j \in Jobs, Recheck(j) PROVE Safe'
  BY <1>31 DEF Recheck, Goto, TypeOK, Named, Safe, Stage, Rollback, NoJournal, NoSandbox, Fresh,
     Uniform, Guarded, Converged, BoxOf, Snapshot, Held, Maybe
<1>32. ASSUME NEW j \in Jobs, Fail(j) PROVE Safe'
  BY <1>32 DEF Fail, Goto, End, Fault, TypeOK, Named, Safe, Stage, Rollback, NoJournal, NoSandbox,
     Fresh, Uniform, Guarded, Converged, BoxOf, Snapshot, Held, Maybe
<1>33. ASSUME NEW j \in Jobs, Cancelled(j) PROVE Safe'
  BY <1>33 DEF Cancelled, End, TypeOK, Named, Safe, Stage, Rollback, NoJournal, NoSandbox, Fresh,
     Uniform, Guarded, Converged, BoxOf, Snapshot, Held, Maybe
<1>34. ASSUME NEW j \in Jobs, MarkFails(j) PROVE Safe'
  BY <1>34 DEF MarkFails, Goto, Step, Fault, TypeOK, Named, Safe, Stage, Rollback, NoJournal,
     NoSandbox, Fresh, Uniform, Guarded, Converged, BoxOf, Snapshot, Held, Maybe
<1>35. ASSUME NEW j \in Jobs, BeginFails(j) PROVE Safe'
  BY <1>35 DEF BeginFails, Goto, Undo, Fault, TypeOK, Named, Safe, Stage, Rollback, NoJournal,
     NoSandbox, Fresh, Uniform, Guarded, Converged, BoxOf, Snapshot, Held, Maybe
<1>36. ASSUME NEW j \in Jobs, PrepareFails(j) PROVE Safe'
  BY <1>36 DEF PrepareFails, Goto, Undo, Fault, TypeOK, Named, Safe, Stage, Rollback, NoJournal,
     NoSandbox, Fresh, Uniform, Guarded, Converged, BoxOf, Snapshot, Held, Maybe
<1>37. ASSUME NEW j \in Jobs, WriteFails(j) PROVE Safe'
  BY <1>37 DEF WriteFails, Goto, Undo, Fault, TypeOK, Named, Safe, Stage, Rollback, NoJournal,
     NoSandbox, Fresh, Uniform, Guarded, Converged, BoxOf, Snapshot, Held, Maybe
<1>38. ASSUME NEW j \in Jobs, FinalizeFails(j) PROVE Safe'
  BY <1>38 DEF FinalizeFails, Goto, Fault, TypeOK, Named, Safe, Stage, Rollback, NoJournal,
     NoSandbox, Fresh, Uniform, Guarded, Converged, BoxOf, Snapshot, Held, Maybe
<1>39. ASSUME NEW j \in Jobs, UndoFails(j) PROVE Safe'
  BY <1>39 DEF UndoFails, Goto, GiveUp, Continue, Undoing, Torn, Fault, TypeOK, Named, Safe,
     Stage, Rollback, NoJournal, NoSandbox, Fresh, Uniform, Guarded, Converged, BoxOf, Snapshot,
     Held, Maybe
<1>40. ASSUME NEW j \in Jobs, CancelEarly(j) PROVE Safe'
  BY <1>40 DEF CancelEarly, Goto, Cancelling, TypeOK, Named, Safe, Stage, Rollback, NoJournal,
     NoSandbox, Fresh, Uniform, Guarded, Converged, BoxOf, Snapshot, Held, Maybe
<1>41. ASSUME NEW j \in Jobs, CancelActivation(j) PROVE Safe'
  BY <1>41 DEF CancelActivation, Goto, Undo, Torn, Cancelling, TypeOK, Named, Safe, Stage,
     Rollback, NoJournal, NoSandbox, Fresh, Uniform, Guarded, Converged, BoxOf, Snapshot, Held,
     Maybe
<1>42. ASSUME NEW j \in Jobs, CancelUndo(j) PROVE Safe'
  BY <1>42 DEF CancelUndo, Goto, Undo, Undoing, Torn, Cancelling, TypeOK, Named, Safe, Stage,
     Rollback, NoJournal, NoSandbox, Fresh, Uniform, Guarded, Converged, BoxOf, Snapshot, Held,
     Maybe
<1>43. ASSUME NEW j \in Jobs, CancelHandler(j) PROVE Safe'
  BY <1>43 DEF CancelHandler, End, Undoing, Torn, Cancelling, TypeOK, Named, Safe, Stage,
     Rollback, NoJournal, NoSandbox, Fresh, Uniform, Guarded, Converged, BoxOf, Snapshot, Held,
     Maybe
<1>44. ASSUME NEW a \in Actors, Restore(a) PROVE Safe'
  <2>1. SUFFICES ASSUME ~unguarded' PROVE Safe'
    BY DEF Safe
  <2>2. /\ ~unguarded /\ Guarded /\ pc[a] = "restore" /\ pc' = [pc EXCEPT ![a] = "undoBox"]
        /\ env' = Snapshot(a)
        /\ UNCHANGED <<web, box, transaction, up, active, attempted, by, snap>>
    BY <1>44, <2>1 DEF Restore, Step, Goto, TypeOK
  <2>3. Guarded' /\ env' = Snapshot(a)'
    BY <2>2 DEF Guarded, Snapshot
  <2>4. \A b \in Actors : pc'[b] = IF b = a THEN "undoBox" ELSE "idle"
    BY <1>0, <2>2 DEF TypeOK
  <2>5. (\A i \in Jobs : Stage(i)') /\ (\A b \in Actors : Rollback(b)')
    BY <2>3, <2>4 DEF Stage, Rollback
  <2>6. NoSandbox'
    BY <2>2, <2>4 DEF Safe, NoSandbox, Fresh, Serial, Snapshot, Held
  <2>7. (pc[0] = "restore" => Guarded)' /\ NoJournal' /\ Fresh'
    BY <2>2, <2>4 DEF Safe, NoJournal, Fresh
  <2> QED BY <2>3, <2>5, <2>6, <2>7 DEF Safe
<1>45. ASSUME NEW a \in Actors, UndoBox(a) PROVE Safe'
  <2>1. SUFFICES ASSUME ~unguarded' PROVE Safe'
    BY DEF Safe
  <2>2. /\ ~unguarded /\ pc[a] = "undoBox" /\ pc' = [pc EXCEPT ![a] = "undoWeb"]
        /\ UNCHANGED <<env, web, transaction, up, active, attempted, by, snap>>
    BY <1>45, <2>1 DEF UndoBox, Step, Goto
  <2>3. Guarded /\ env = Snapshot(a)
    BY <2>2 DEF Safe, Rollback
  <2>4. a # 0 => active /\ env = snap[a]
    BY <2>2, <2>3 DEF Safe, NoJournal, Guarded, Snapshot
  <2>5. box' = BoxOf(env)
    <3>1. CASE env \notin Legacy
      BY <1>45, <2>3, <3>1 DEF UndoBox
    <3>2. CASE env \in Legacy /\ (a = 0 \/ attempted)
      BY <1>45, <2>3, <3>2 DEF UndoBox, BoxOf
    <3>3. CASE env \in Legacy /\ ~(a = 0 \/ attempted)
      <4>1. box = None
        BY <2>2, <2>4, <3>3 DEF Safe, NoSandbox
      <4> QED BY <1>45, <2>3, <3>3, <4>1 DEF UndoBox, BoxOf
    <3> QED BY <3>1, <3>2, <3>3
  <2>6. \A b \in Actors : pc'[b] = IF b = a THEN "undoWeb" ELSE "idle"
    BY <1>0, <2>2 DEF TypeOK
  <2>7. Guarded' /\ env' = Snapshot(a)' /\ box' = BoxOf(env)'
    BY <2>2, <2>3, <2>5 DEF Guarded, Snapshot, BoxOf
  <2>8. (\A i \in Jobs : Stage(i)') /\ (\A b \in Actors : Rollback(b)')
    BY <2>6, <2>7 DEF Stage, Rollback
  <2>9. NoSandbox'
    <3>1. active' => a # 0
      BY <2>2 DEF Safe, Fresh, Serial
    <3>2. active' => \A i \in Jobs : pc'[i] \in Held => snap'[i] = env'
      BY <2>2, <2>4, <2>6, <3>1 DEF Held
    <3>3. env' \in Legacy => box' = None
      BY <2>2, <2>5 DEF BoxOf
    <3> QED BY <3>2, <3>3 DEF NoSandbox
  <2>10. (pc[0] = "restore" => Guarded)' /\ NoJournal' /\ Fresh'
    BY <2>2, <2>6 DEF Safe, NoJournal, Fresh
  <2> QED BY <2>7, <2>8, <2>9, <2>10 DEF Safe
<1>46. ASSUME NEW a \in Actors, UndoWeb(a) PROVE Safe'
  BY <1>46 DEF UndoWeb, Goto, Step, Restored, Snapshot, TypeOK, Named, Safe, Stage, Rollback,
     NoJournal, NoSandbox, Fresh, Uniform, Guarded, Converged, BoxOf, Snapshot, Held, Maybe
<1>47. ASSUME NEW a \in Actors, UndoCopy(a) PROVE Safe'
  BY <1>47 DEF UndoCopy, Goto, Step, Snapshot, TypeOK, Named, Safe, Stage, Rollback, NoJournal,
     NoSandbox, Fresh, Uniform, Guarded, Converged, BoxOf, Snapshot, Held, Maybe
<1>48. ASSUME NEW a \in Actors, UndoJournal(a) PROVE Safe'
  BY <1>48 DEF UndoJournal, Goto, Step, Snapshot, TypeOK, Named, Safe, Stage, Rollback, NoJournal,
     NoSandbox, Fresh, Uniform, Guarded, Converged, BoxOf, Snapshot, Held, Maybe
<1>49. ASSUME NEW a \in Actors, UndoEnds(a) PROVE Safe'
  BY <1>49 DEF UndoEnds, Goto, Step, Continue, Snapshot, TypeOK, Named, Safe, Stage, Rollback,
     NoJournal, NoSandbox, Fresh, Uniform, Guarded, Converged, BoxOf, Snapshot, Held, Maybe
<1>50. ASSUME UNCHANGED vars PROVE Safe'
  BY <1>50 DEF vars, TypeOK, Named, Safe, Stage, Rollback, NoJournal, NoSandbox, Fresh, Uniform,
     Guarded, Converged, BoxOf, Snapshot, Held, Maybe
<1> QED
  BY <1>1, <1>2, <1>3, <1>4, <1>5, <1>6, <1>7, <1>8, <1>9, <1>10, <1>11, <1>12, <1>13, <1>14,
     <1>15, <1>16, <1>17, <1>18, <1>19, <1>20, <1>21, <1>22, <1>23, <1>24, <1>25, <1>26, <1>27,
     <1>28, <1>29, <1>30, <1>31, <1>32, <1>33, <1>34, <1>35, <1>36, <1>37, <1>38, <1>39, <1>40,
     <1>41, <1>42, <1>43, <1>44, <1>45, <1>46, <1>47, <1>48, <1>49, <1>50
  DEF Next, Submit, Work, Activate, Breaks, Cancel, Roll

\* Every step keeps the origin of a job in its snapshot, copy and deployment.
LEMMA TracedStep ==
  ASSUME TypeOK, Named, Serial, Safe, Traced, [Next]_vars
  PROVE  Traced'
<1> USE VersionsAssumption, BoundsAssumption, JobsAreActors
<1> USE DEF deployment, transaction, store, daemon, adapter, task, history
<1>0. \A a, b \in Actors : pc[a] # "idle" /\ pc[b] # "idle" => a = b
  BY OneActor
<1>a. \A j \in Jobs : pc[j] # "idle" => accepting /\ up \notin {"down", "starting"} /\ pc[0] = "idle"
  BY <1>0 DEF Serial, GatedUpdates
<1> USE <1>0, <1>a
<1>1. ASSUME NEW c \in Clients, NEW v \in Versions, Ask(c, v) PROVE Traced'
  BY <1>1 DEF Ask, Ready, Traced, Origin, Running, Guarded, Converged, BoxOf, Uniform, Held,
     Snapshot, Safe, Stage, Rollback, NoJournal, Fresh, TypeOK, Named, Maybe
<1>2. ASSUME NEW c \in Clients, Accept(c) PROVE Traced'
  <2>1. SUFFICES ASSUME ~unguarded' PROVE Traced'
    BY DEF Traced
  <2>2. \A j \in Jobs : pc[j] = "idle"
    <3>1. gate = 0
      BY <1>2 DEF Accept, MayAccept
    <3> QED BY <3>1 DEF Serial, GatedUpdates, Jobs
  <2>3. PICK k \in Jobs : /\ pc' = [pc EXCEPT ![k] = "checking"]
                          /\ mem' = [mem EXCEPT ![k] = "running"]
    <3>1. job.id + 1 \in Jobs
      BY <1>2 DEF Accept, TypeOK, Jobs, Actors
    <3> QED BY <1>2, <3>1 DEF Accept, Goto
  <2>4. /\ job'.state = "running" /\ job'.error = "none"
        /\ before' = {Running} \cup (IF Guarded THEN {copy} ELSE {})
        /\ UNCHANGED <<deployment, transaction, up, adapter, by, snap, unguarded>>
    BY <1>2 DEF Accept
  <2>5. ~Guarded => env = Running
    BY <2>1, <2>4 DEF Safe, Uniform, Converged, Running
  <2>6. IF Guarded' THEN copy' \in before' ELSE env' \in before'
    BY <2>4, <2>5 DEF Guarded
  <2>7. \A j \in Jobs : pc'[j] \in {"idle", "checking"} /\ (pc'[j] = "checking" => j = k)
    BY <2>2, <2>3 DEF TypeOK
  <2>8. \A j \in Jobs : Origin(j)'
    BY <2>3, <2>4, <2>7 DEF Origin, Running, Held, TypeOK
  <2>9. pc'[0] = "idle"
    BY <1>a, <2>3, <1>2 DEF Accept, MayAccept, Serial, TypeOK
  <2> QED BY <2>4, <2>6, <2>8, <2>9 DEF Traced
<1>3. ASSUME NEW c \in Clients, Refuse(c) PROVE Traced'
  BY <1>3 DEF Refuse, Traced, Origin, Running, Guarded, Converged, BoxOf, Uniform, Held, Snapshot,
     Safe, Stage, Rollback, NoJournal, Fresh, TypeOK, Named, Maybe
<1>4. ASSUME PrepareStop PROVE Traced'
  BY <1>4 DEF PrepareStop, Traced, Origin, Running, Guarded, Converged, BoxOf, Uniform, Held,
     Snapshot, Safe, Stage, Rollback, NoJournal, Fresh, TypeOK, Named, Maybe
<1>5. ASSUME CancelStop PROVE Traced'
  BY <1>5 DEF CancelStop, Traced, Origin, Running, Guarded, Converged, BoxOf, Uniform, Held,
     Snapshot, Safe, Stage, Rollback, NoJournal, Fresh, TypeOK, Named, Maybe
<1>6. ASSUME Terminate PROVE Traced'
  BY <1>6 DEF Terminate, Traced, Origin, Running, Guarded, Converged, BoxOf, Uniform, Held,
     Snapshot, Safe, Stage, Rollback, NoJournal, Fresh, TypeOK, Named, Maybe
<1>7. ASSUME LateWrite PROVE Traced'
  BY <1>7 DEF LateWrite, Traced, Origin, Running, Guarded, Converged, BoxOf, Uniform, Held,
     Snapshot, Safe, Stage, Rollback, NoJournal, Fresh, TypeOK, Named, Maybe
<1>8. ASSUME Exit PROVE Traced'
  BY <1>8 DEF Exit, Quiet, Traced, Origin, Running, Guarded, Converged, BoxOf, Uniform, Held,
     Snapshot, Safe, Stage, Rollback, NoJournal, Fresh, TypeOK, Named, Maybe
<1>9. ASSUME Crash PROVE Traced'
  BY <1>9 DEF Crash, Undoing, Torn, Fault, Dies, Traced, Origin, Running, Guarded, Converged,
     BoxOf, Uniform, Held, Snapshot, Safe, Stage, Rollback, NoJournal, Fresh, TypeOK, Named, Maybe
<1>10. ASSUME Start PROVE Traced'
  BY <1>10 DEF Start, Goto, CopyLost, Traced, Origin, Running, Guarded, Converged, BoxOf, Uniform,
     Held, Snapshot, Safe, Stage, Rollback, NoJournal, Fresh, TypeOK, Named, Maybe
<1>11. ASSUME StartRefused PROVE Traced'
  BY <1>11 DEF StartRefused, vars, Traced, Origin, Running, Guarded, Converged, BoxOf, Held
<1>12. ASSUME Reconcile PROVE Traced'
  <2>1. SUFFICES ASSUME ~unguarded' PROVE Traced'
    BY DEF Traced
  <2>2. /\ pc[0] = "reconcile" /\ pc' = [pc EXCEPT ![0] = "idle"]
        /\ job' \in {job, [job EXCEPT !.state = "failed", !.error = "interrupted"]}
        /\ UNCHANGED <<deployment, transaction, adapter, by, snap, mem, unguarded, before>>
    BY <1>12 DEF Reconcile, Step, Goto
  <2>3. (\A a \in Actors : pc'[a] = "idle") /\ journal = "none"
    <3>1. \A a \in Actors : pc'[a] = "idle"
      BY <1>0, <2>2 DEF TypeOK
    <3>2. journal = "none"
      BY <2>1, <2>2 DEF Serial, Safe, Fresh, NoJournal
    <3> QED BY <3>1, <3>2
  <2>4. \A j \in Jobs : Origin(j)'
    BY <2>3 DEF Origin, Held
  <2>5. job'.target = job.target /\ (job'.state = "success" \/ job'.error = "failed" => job' = job)
    BY <2>2 DEF TypeOK
  <2> QED BY <2>1, <2>2, <2>3, <2>4, <2>5 DEF Traced, Guarded, Converged, Running
<1>13. ASSUME NEW j \in Jobs, Check(j) PROVE Traced'
  BY <1>13 DEF Check, Goto, Step, Traced, Origin, Running, Guarded, Converged, BoxOf, Uniform,
     Held, Snapshot, Safe, Stage, Rollback, NoJournal, Fresh, TypeOK, Named, Maybe
<1>14. ASSUME NEW j \in Jobs, Preflight(j) PROVE Traced'
  BY <1>14 DEF Preflight, Goto, Step, Ready, Traced, Origin, Running, Guarded, Converged, BoxOf,
     Uniform, Held, Snapshot, Safe, Stage, Rollback, NoJournal, Fresh, TypeOK, Named, Maybe
<1>15. ASSUME NEW j \in Jobs, Capture(j) PROVE Traced'
  BY <1>15 DEF Capture, Goto, Step, Traced, Origin, Running, Guarded, Converged, BoxOf, Uniform,
     Held, Snapshot, Safe, Stage, Rollback, NoJournal, Fresh, TypeOK, Named, Maybe
<1>16. ASSUME NEW j \in Jobs, Pull(j) PROVE Traced'
  BY <1>16 DEF Pull, Goto, Step, Traced, Origin, Running, Guarded, Converged, BoxOf, Uniform,
     Held, Snapshot, Safe, Stage, Rollback, NoJournal, Fresh, TypeOK, Named, Maybe
<1>17. ASSUME NEW j \in Jobs, StageFails(j) PROVE Traced'
  BY <1>17 DEF StageFails, Goto, Traced, Origin, Running, Guarded, Converged, BoxOf, Uniform,
     Held, Snapshot, Safe, Stage, Rollback, NoJournal, Fresh, TypeOK, Named, Maybe
<1>18. ASSUME NEW j \in Jobs, Begin(j) PROVE Traced'
  BY <1>18 DEF Begin, Goto, Undo, Traced, Origin, Running, Guarded, Converged, BoxOf, Uniform,
     Held, Snapshot, Safe, Stage, Rollback, NoJournal, Fresh, TypeOK, Named, Maybe
<1>19. ASSUME NEW j \in Jobs, Prepare(j) PROVE Traced'
  BY <1>19 DEF Prepare, Goto, Step, Traced, Origin, Running, Guarded, Converged, BoxOf, Uniform,
     Held, Snapshot, Safe, Stage, Rollback, NoJournal, Fresh, TypeOK, Named, Maybe
<1>20. ASSUME NEW j \in Jobs, Write(j) PROVE Traced'
  BY <1>20 DEF Write, Goto, Step, Traced, Origin, Running, Guarded, Converged, BoxOf, Uniform,
     Held, Snapshot, Safe, Stage, Rollback, NoJournal, Fresh, TypeOK, Named, Maybe
<1>21. ASSUME NEW j \in Jobs, Install(j) PROVE Traced'
  BY <1>21 DEF Install, Goto, Undo, Traced, Origin, Running, Guarded, Converged, BoxOf, Uniform,
     Held, Snapshot, Safe, Stage, Rollback, NoJournal, Fresh, TypeOK, Named, Maybe
<1>22. ASSUME NEW j \in Jobs, Compose(j) PROVE Traced'
  BY <1>22 DEF Compose, Goto, Undo, Traced, Origin, Running, Guarded, Converged, BoxOf, Uniform,
     Held, Snapshot, Safe, Stage, Rollback, NoJournal, Fresh, TypeOK, Named, Maybe
<1>23. ASSUME NEW j \in Jobs, Gate(j) PROVE Traced'
  BY <1>23 DEF Gate, Goto, Healthy, Traced, Origin, Running, Guarded, Converged, BoxOf, Uniform,
     Held, Snapshot, Safe, Stage, Rollback, NoJournal, Fresh, TypeOK, Named, Maybe
<1>24. ASSUME NEW j \in Jobs, Commit(j) PROVE Traced'
  BY <1>24 DEF Commit, Goto, Step, Traced, Origin, Running, Guarded, Converged, BoxOf, Uniform,
     Held, Snapshot, Safe, Stage, Rollback, NoJournal, Fresh, TypeOK, Named, Maybe
<1>25. ASSUME NEW j \in Jobs, DropCopy(j) PROVE Traced'
  BY <1>25 DEF DropCopy, Goto, Step, Traced, Origin, Running, Guarded, Converged, BoxOf, Uniform,
     Held, Snapshot, Safe, Stage, Rollback, NoJournal, Fresh, TypeOK, Named, Maybe
<1>26. ASSUME NEW j \in Jobs, DropJournal(j) PROVE Traced'
  BY <1>26 DEF DropJournal, Goto, Step, Traced, Origin, Running, Guarded, Converged, BoxOf,
     Uniform, Held, Snapshot, Safe, Stage, Rollback, NoJournal, Fresh, TypeOK, Named, Maybe
<1>27. ASSUME NEW j \in Jobs, Succeed(j) PROVE Traced'
  BY <1>27 DEF Succeed, Goto, Fault, Traced, Origin, Running, Guarded, Converged, BoxOf, Uniform,
     Held, Snapshot, Safe, Stage, Rollback, NoJournal, Fresh, TypeOK, Named, Maybe
<1>28. ASSUME NEW j \in Jobs, Prune(j) PROVE Traced'
  BY <1>28 DEF Prune, Goto, Step, Traced, Origin, Running, Guarded, Converged, BoxOf, Uniform,
     Held, Snapshot, Safe, Stage, Rollback, NoJournal, Fresh, TypeOK, Named, Maybe
<1>29. ASSUME NEW j \in Jobs, Clear(j) PROVE Traced'
  BY <1>29 DEF Clear, End, Fault, Traced, Origin, Running, Guarded, Converged, BoxOf, Uniform,
     Held, Snapshot, Safe, Stage, Rollback, NoJournal, Fresh, TypeOK, Named, Maybe
<1>30. ASSUME NEW j \in Jobs, Note(j) PROVE Traced'
  <2>1. SUFFICES ASSUME ~unguarded' PROVE Traced'
    BY DEF Traced
  <2>2. /\ pc[j] = "note" /\ UNCHANGED <<deployment, transaction, adapter, unguarded, before>>
    BY <1>30 DEF Note
  <2>3. job.error = "none" /\ snap[j] \in before /\ (undone => Running \in before)
    BY <2>1, <2>2 DEF Traced, Origin, Held
  <2>4. CASE /\ job' = [job EXCEPT !.state = mem[j]] /\ UNCHANGED <<snap, mem>>
             /\ IF undone THEN Goto(j, "recheck") /\ UNCHANGED by ELSE Undo(j, "failure")
    <3>1. \A a \in Actors : pc'[a] = IF a = j THEN (IF undone THEN "recheck" ELSE "restore") ELSE "idle"
      BY <1>0, <2>2, <2>4 DEF Goto, Undo, TypeOK
    <3>2. ~undone => by'[j] = "failure"
      BY <2>4 DEF Undo, TypeOK
    <3>3. \A i \in Jobs : Origin(i)'
      BY <2>2, <2>3, <2>4, <3>1, <3>2 DEF Origin, Held, Running, TypeOK
    <3>4. job'.state = "success" => Converged(job.target) /\ journal = "none"
      BY <2>1, <2>2, <2>4 DEF Traced, Origin, TypeOK
    <3>5. job'.target = job.target /\ job'.error = "none"
      BY <2>3, <2>4 DEF TypeOK
    <3> QED BY <2>1, <2>2, <3>1, <3>3, <3>4, <3>5 DEF Traced, Guarded, Converged
  <2>5. CASE End(j) /\ UNCHANGED job
    <3>1. \A a \in Actors : pc'[a] = "idle"
      BY <1>0, <2>2, <2>5 DEF End, TypeOK
    <3>2. \A i \in Jobs : Origin(i)'
      BY <3>1 DEF Origin, Held
    <3> QED BY <2>1, <2>2, <2>5, <3>1, <3>2 DEF Traced, Guarded, Converged, Running
  <2> QED BY <1>30, <2>4, <2>5 DEF Note
<1>31. ASSUME NEW j \in Jobs, Recheck(j) PROVE Traced'
  BY <1>31 DEF Recheck, Goto, Traced, Origin, Running, Guarded, Converged, BoxOf, Uniform, Held,
     Snapshot, Safe, Stage, Rollback, NoJournal, Fresh, TypeOK, Named, Maybe
<1>32. ASSUME NEW j \in Jobs, Fail(j) PROVE Traced'
  <2>1. SUFFICES ASSUME ~unguarded' PROVE Traced'
    BY DEF Traced
  <2>2. /\ pc[j] \in {"fail", "unrestored"}
        /\ UNCHANGED <<deployment, transaction, adapter, unguarded, before>>
    BY <1>32 DEF Fail
  <2>3. CASE /\ job' = [job EXCEPT !.state = "failed",
                          !.error = IF pc[j] = "fail" THEN "failed" ELSE "rollback_failed"]
             /\ Goto(j, "clear")
    <3>1. \A a \in Actors : pc'[a] = IF a = j THEN "clear" ELSE "idle"
      BY <1>0, <2>2, <2>3 DEF Goto, TypeOK
    <3>2. /\ job'.state = "failed" /\ job'.target = job.target
          /\ job'.error = IF pc[j] = "fail" THEN "failed" ELSE "rollback_failed"
      BY <2>3 DEF TypeOK
    <3>3. \A i \in Jobs : Origin(i)'
      BY <3>1, <3>2 DEF Origin, Held
    <3>4. pc[j] = "fail" => Running \in before
      BY <2>1, <2>2 DEF Traced, Origin
    <3> QED BY <2>1, <2>2, <3>1, <3>2, <3>3, <3>4 DEF Traced, Guarded, Running
  <2>4. CASE End(j) /\ UNCHANGED job
    <3>1. \A a \in Actors : pc'[a] = "idle"
      BY <1>0, <2>2, <2>4 DEF End, TypeOK
    <3>2. \A i \in Jobs : Origin(i)'
      BY <3>1 DEF Origin, Held
    <3> QED BY <2>1, <2>2, <2>4, <3>1, <3>2 DEF Traced, Guarded, Converged, Running
  <2> QED BY <1>32, <2>3, <2>4 DEF Fail
<1>33. ASSUME NEW j \in Jobs, Cancelled(j) PROVE Traced'
  BY <1>33 DEF Cancelled, End, Traced, Origin, Running, Guarded, Converged, BoxOf, Uniform, Held,
     Snapshot, Safe, Stage, Rollback, NoJournal, Fresh, TypeOK, Named, Maybe
<1>34. ASSUME NEW j \in Jobs, MarkFails(j) PROVE Traced'
  BY <1>34 DEF MarkFails, Goto, Step, Fault, Traced, Origin, Running, Guarded, Converged, BoxOf,
     Uniform, Held, Snapshot, Safe, Stage, Rollback, NoJournal, Fresh, TypeOK, Named, Maybe
<1>35. ASSUME NEW j \in Jobs, BeginFails(j) PROVE Traced'
  BY <1>35 DEF BeginFails, Goto, Undo, Fault, Traced, Origin, Running, Guarded, Converged, BoxOf,
     Uniform, Held, Snapshot, Safe, Stage, Rollback, NoJournal, Fresh, TypeOK, Named, Maybe
<1>36. ASSUME NEW j \in Jobs, PrepareFails(j) PROVE Traced'
  BY <1>36 DEF PrepareFails, Goto, Undo, Fault, Traced, Origin, Running, Guarded, Converged,
     BoxOf, Uniform, Held, Snapshot, Safe, Stage, Rollback, NoJournal, Fresh, TypeOK, Named, Maybe
<1>37. ASSUME NEW j \in Jobs, WriteFails(j) PROVE Traced'
  BY <1>37 DEF WriteFails, Goto, Undo, Fault, Traced, Origin, Running, Guarded, Converged, BoxOf,
     Uniform, Held, Snapshot, Safe, Stage, Rollback, NoJournal, Fresh, TypeOK, Named, Maybe
<1>38. ASSUME NEW j \in Jobs, FinalizeFails(j) PROVE Traced'
  BY <1>38 DEF FinalizeFails, Goto, Fault, Traced, Origin, Running, Guarded, Converged, BoxOf,
     Uniform, Held, Snapshot, Safe, Stage, Rollback, NoJournal, Fresh, TypeOK, Named, Maybe
<1>39. ASSUME NEW j \in Jobs, UndoFails(j) PROVE Traced'
  BY <1>39 DEF UndoFails, Goto, GiveUp, Continue, Undoing, Torn, Fault, Traced, Origin, Running,
     Guarded, Converged, BoxOf, Uniform, Held, Snapshot, Safe, Stage, Rollback, NoJournal, Fresh,
     TypeOK, Named, Maybe
<1>40. ASSUME NEW j \in Jobs, CancelEarly(j) PROVE Traced'
  BY <1>40 DEF CancelEarly, Goto, Cancelling, Traced, Origin, Running, Guarded, Converged, BoxOf,
     Uniform, Held, Snapshot, Safe, Stage, Rollback, NoJournal, Fresh, TypeOK, Named, Maybe
<1>41. ASSUME NEW j \in Jobs, CancelActivation(j) PROVE Traced'
  BY <1>41 DEF CancelActivation, Goto, Undo, Torn, Cancelling, Traced, Origin, Running, Guarded,
     Converged, BoxOf, Uniform, Held, Snapshot, Safe, Stage, Rollback, NoJournal, Fresh, TypeOK,
     Named, Maybe
<1>42. ASSUME NEW j \in Jobs, CancelUndo(j) PROVE Traced'
  BY <1>42 DEF CancelUndo, Goto, Undo, Undoing, Torn, Cancelling, Traced, Origin, Running,
     Guarded, Converged, BoxOf, Uniform, Held, Snapshot, Safe, Stage, Rollback, NoJournal, Fresh,
     TypeOK, Named, Maybe
<1>43. ASSUME NEW j \in Jobs, CancelHandler(j) PROVE Traced'
  BY <1>43 DEF CancelHandler, End, Undoing, Torn, Cancelling, Traced, Origin, Running, Guarded,
     Converged, BoxOf, Uniform, Held, Snapshot, Safe, Stage, Rollback, NoJournal, Fresh, TypeOK,
     Named, Maybe
<1>44. ASSUME NEW a \in Actors, Restore(a) PROVE Traced'
  BY <1>44 DEF Restore, Goto, Step, Traced, Origin, Running, Guarded, Converged, BoxOf, Uniform,
     Held, Snapshot, Safe, Stage, Rollback, NoJournal, Fresh, TypeOK, Named, Maybe
<1>45. ASSUME NEW a \in Actors, UndoBox(a) PROVE Traced'
  BY <1>45 DEF UndoBox, Goto, Step, Traced, Origin, Running, Guarded, Converged, BoxOf, Uniform,
     Held, Snapshot, Safe, Stage, Rollback, NoJournal, Fresh, TypeOK, Named, Maybe
<1>46. ASSUME NEW a \in Actors, UndoWeb(a) PROVE Traced'
  BY <1>46 DEF UndoWeb, Goto, Step, Restored, Traced, Origin, Running, Guarded, Converged, BoxOf,
     Uniform, Held, Snapshot, Safe, Stage, Rollback, NoJournal, Fresh, TypeOK, Named, Maybe
<1>47. ASSUME NEW a \in Actors, UndoCopy(a) PROVE Traced'
  BY <1>47 DEF UndoCopy, Goto, Step, Traced, Origin, Running, Guarded, Converged, BoxOf, Uniform,
     Held, Snapshot, Safe, Stage, Rollback, NoJournal, Fresh, TypeOK, Named, Maybe
<1>48. ASSUME NEW a \in Actors, UndoJournal(a) PROVE Traced'
  BY <1>48 DEF UndoJournal, Goto, Step, Traced, Origin, Running, Guarded, Converged, BoxOf,
     Uniform, Held, Snapshot, Safe, Stage, Rollback, NoJournal, Fresh, TypeOK, Named, Maybe
<1>49. ASSUME NEW a \in Actors, UndoEnds(a) PROVE Traced'
  BY <1>49 DEF UndoEnds, Goto, Step, Continue, Traced, Origin, Running, Guarded, Converged, BoxOf,
     Uniform, Held, Snapshot, Safe, Stage, Rollback, NoJournal, Fresh, TypeOK, Named, Maybe
<1>50. ASSUME UNCHANGED vars PROVE Traced'
  BY <1>50 DEF vars, Traced, Origin, Running, Guarded, Converged, BoxOf, Uniform, Held, Snapshot,
     Safe, Stage, Rollback, NoJournal, Fresh, TypeOK, Named, Maybe
<1> QED
  BY <1>1, <1>2, <1>3, <1>4, <1>5, <1>6, <1>7, <1>8, <1>9, <1>10, <1>11, <1>12, <1>13, <1>14,
     <1>15, <1>16, <1>17, <1>18, <1>19, <1>20, <1>21, <1>22, <1>23, <1>24, <1>25, <1>26, <1>27,
     <1>28, <1>29, <1>30, <1>31, <1>32, <1>33, <1>34, <1>35, <1>36, <1>37, <1>38, <1>39, <1>40,
     <1>41, <1>42, <1>43, <1>44, <1>45, <1>46, <1>47, <1>48, <1>49, <1>50
  DEF Next, Submit, Work, Activate, Breaks, Cancel, Roll

-----------------------------------------------------------------------------
(* The theorems. *)

\* The invariants hold before the first request.
LEMMA InitHolds == ASSUME Init PROVE IInv /\ Safe /\ Traced
<1> USE VersionsAssumption, BoundsAssumption, JobsAreActors
<1>1. TypeOK
  <2>1. /\ accepting \in BOOLEAN /\ active \in BOOLEAN /\ attempted \in BOOLEAN
        /\ undone \in BOOLEAN /\ unguarded \in BOOLEAN
    BY DEF Init
  <2>2. /\ env \in Versions /\ web \in Maybe /\ box \in Maybe /\ copy \in Maybe
        /\ before \subseteq Versions /\ faults \in 0..MaxFaults
    BY DEF Init, Maybe, BoxOf
  <2>3. job \in [id : Actors, state : JobStates, from : Versions, target : Versions,
               error : {"none", "failed", "rollback_failed", "cancelled", "interrupted"}]
    BY <2>2 DEF Init, JobStates
  <2>4. /\ asked \in [Clients -> Maybe \X Maybe] /\ pc \in [Actors -> Stages]
        /\ by \in [Actors -> {"none", "activate", "failure", "cancel"}]
        /\ snap \in [Actors -> Maybe] /\ mem \in [Jobs -> JobStates]
    BY DEF Init, Maybe, Unasked, Stages, JobStates
  <2> QED BY <2>1, <2>2, <2>3, <2>4 DEF Init, TypeOK
<1>2. Named /\ Serial
  BY DEF Init, Named, Serial, GatedUpdates, Held
<1>3. Uniform
  BY DEF Init, Uniform, Converged
<1>4. Safe
  BY <1>3 DEF Init, Safe, Stage, Rollback, NoJournal, NoSandbox, Fresh, Held
<1>5. Traced
  BY DEF Init, Traced, Origin, Guarded, Held
<1> QED BY <1>1, <1>2, <1>4, <1>5 DEF IInv

\* The three layers hold in every reachable state.
LEMMA Invariance == Spec => [](IInv /\ Safe /\ Traced)
<1>1. Init => IInv /\ Safe /\ Traced
  BY InitHolds
<1>2. IInv /\ Safe /\ Traced /\ [Next]_vars => (IInv /\ Safe /\ Traced)'
  <2> SUFFICES ASSUME TypeOK, Named, Serial, Safe, Traced, [Next]_vars
               PROVE  IInv' /\ Safe' /\ Traced'
    BY DEF IInv
  <2> QED BY TypeStep, NamedStep, SerialStep, SafeStep, TracedStep DEF IInv
<1> QED BY <1>1, <1>2, PTL DEF Spec

\* The files, containers, record and tasks of jobs.py, state.py and
\* adapters/image.py are always well-formed.
THEOREM TypeCorrect == Spec => []TypeOK
<1>1. IInv => TypeOK
  BY DEF IInv
<1> QED BY <1>1, Invariance, PTL

\* However many clients submit updates at the same time, and however often
\* the daemon is stopped or dies, one destructive task is at work at most,
\* and the gate on disk names it.
THEOREM OneUpdate == Spec => []GatedUpdates
<1>1. IInv => GatedUpdates
  BY DEF IInv, Serial
<1> QED BY <1>1, Invariance, PTL

\* A deployment whose images disagree has its journal and its copy, whichever
\* step fails, is cancelled or is cut off by a crash.
THEOREM Restorable == Spec => []Recoverable
<1>1. Safe => Recoverable
  BY DEF Safe, Recoverable
<1> QED BY <1>1, Invariance, PTL

\* What the record of an update that is over says is what is running, through
\* failures, cancellations, restarts and updates begun over what one left.
THEOREM RecordsTellTruth == Spec => []OutcomeMatches
<1>1. Safe /\ Traced => OutcomeMatches
  <2> SUFFICES ASSUME Safe, Traced, ~unguarded PROVE OutcomeMatches
    BY DEF OutcomeMatches
  <2>1. job.error = "interrupted" => Uniform /\ env \in before \cup {job.target}
    BY DEF Safe, Traced, Guarded
  <2> QED BY <2>1 DEF Traced, OutcomeMatches
<1> QED BY <1>1, Invariance, PTL

-----------------------------------------------------------------------------
(* No update goes on for ever, and only a fault leaves its gate behind. *)

Rolling == {"restore", "undoBox", "undoWeb", "undoCopy", "undoJournal", "undone"}
\* How far a rollback is from its end.
Undone(p) ==
  CASE p = "restore" -> 6 [] p = "undoBox" -> 5 [] p = "undoWeb" -> 4
    [] p = "undoCopy" -> 3 [] p = "undoJournal" -> 2 [] OTHER -> 1
\* What follows a rollback: the handler of the failure, its end, or only a record.
After(cause) == CASE cause = "activate" -> 10 [] cause = "failure" -> 3 [] OTHER -> 1
\* How far a task is from its end at a stage that belongs to no rollback.
Distance(p) ==
  CASE p = "checking" -> 30 [] p = "preflight" -> 29 [] p = "capture" -> 28
    [] p = "pull" -> 27 [] p = "begin" -> 26 [] p = "prepare" -> 25 [] p = "write" -> 24
    [] p = "install" -> 23 [] p = "compose" -> 22 [] p = "gate" -> 21 [] p = "commit" -> 20
    [] p = "dropCopy" -> 19 [] p = "dropJournal" -> 18 [] p = "succeed" -> 17
    [] p = "note" -> 10 [] p = "recheck" -> 3
    [] p \in {"fail", "unrestored", "prune"} -> 2
    [] p \in {"clear", "cancelled", "reconcile"} -> 1
    [] OTHER -> 0
Left(a) == IF pc[a] \in Rolling THEN After(by[a]) + Undone(pc[a]) ELSE Distance(pc[a])

\* The steps of an actor, and those that set it to work.
Own(a) == IF a = 0 THEN Roll(0) \/ Reconcile ELSE Work(a) \/ Breaks(a) \/ Cancel(a)
Begins(a) == IF a = 0 THEN Start ELSE job.id' = a /\ \E c \in Clients : Accept(c)

\* Each of its own steps brings an actor closer to its end, no other takes it back,
\* and it is set to work only once it has ended.
Ends(a) ==
  \/ Left(a)' < Left(a)
  \/ ~Own(a) /\ (Left(a)' = Left(a) \/ (Left(a) = 0 /\ Begins(a)))
MovesOn == \A a \in Actors : Ends(a)

\* Why an actor is at its stage, and that a gate has its task until a fault.
Reason(j) ==
  /\ pc[j] # "reconcile"
  /\ pc[j] = "idle" => by[j] = "none"
  /\ pc[j] \in Rolling => by[j] # "none"
  /\ pc[j] = "cancelled" => by[j] = "cancel"
  /\ by[j] = "cancel" => up = "stopping"
Reasoned ==
  /\ \A j \in Jobs : Reason(j)
  /\ by[0] = "none"
  /\ gate # 0 /\ up = "serving" /\ faults = 0 => \E j \in Jobs : pc[j] # "idle"

\* A daemon that serves without a task and refuses every update because of a gate
\* has met a fault.
GateHasTask == up = "serving" /\ gate # 0 /\ Quiet => faults > 0

\* An actor outside of a rollback gets closer to its end with its stage.
LEMMA StageFalls ==
  ASSUME NEW a \in Actors, NEW q, pc'[a] = q, pc[a] \notin Rolling, q \notin Rolling,
         Distance(q) < Distance(pc[a])
  PROVE  Left(a)' < Left(a)
BY DEF Left

\* A step of a rollback, or its end.
LEMMA RollFalls ==
  ASSUME TypeOK, Reasoned, NEW a \in Actors, Roll(a)
  PROVE  Left(a)' < Left(a)
<1>1. After(by[a]) \in {10, 3, 1}
  BY DEF After
<1>2. ASSUME Restore(a) \/ UndoBox(a) \/ UndoWeb(a) \/ UndoCopy(a) \/ UndoJournal(a) PROVE Left(a)' < Left(a)
  <2>1. /\ pc[a] \in Rolling /\ pc'[a] \in Rolling /\ by' = by
        /\ Undone(pc'[a]) < Undone(pc[a])
    <3>1. CASE Restore(a)
      BY <3>1 DEF Restore, Step, Goto, TypeOK, Rolling, Undone
    <3>2. CASE UndoBox(a)
      BY <3>2 DEF UndoBox, Step, Goto, TypeOK, Rolling, Undone
    <3>3. CASE UndoWeb(a)
      BY <3>3 DEF UndoWeb, Restored, Step, Goto, TypeOK, Rolling, Undone
    <3>4. CASE UndoCopy(a) \/ UndoJournal(a)
      BY <3>4 DEF UndoCopy, UndoJournal, Step, Goto, TypeOK, Rolling, Undone
    <3> QED BY <1>2, <3>1, <3>2, <3>3, <3>4
  <2>2. Undone(pc'[a]) \in Nat /\ Undone(pc[a]) \in Nat
    BY DEF Undone
  <2> QED BY <1>1, <2>1, <2>2 DEF Left
<1>3. CASE UndoEnds(a)
  <2>1. pc[a] = "undone" /\ pc'[a] = Continue(by[a])
    BY <1>3 DEF UndoEnds, Step, Goto, TypeOK
  <2>2. Left(a) = After(by[a]) + 1
    BY <2>1 DEF Left, Rolling, Undone
  <2>3. a # 0 => by[a] \in {"activate", "failure", "cancel"}
    BY <2>1, JobsAreActors DEF Reasoned, Reason, Rolling, TypeOK
  <2>4. Left(a)' = Distance(Continue(by[a]))
    BY <2>1 DEF Left, Rolling, Continue
  <2>5. Distance(Continue(by[a])) = After(by[a])
    BY <2>3 DEF Reasoned, Distance, Continue, After
  <2> QED BY <1>1, <2>2, <2>4, <2>5
<1> QED BY <1>2, <1>3 DEF Roll

\* Every step of a job, also one that fails or is cancelled, brings it closer to its end.
LEMMA JobFalls ==
  ASSUME TypeOK, Reasoned, NEW j \in Jobs, Work(j) \/ Breaks(j) \/ Cancel(j)
  PROVE  Left(j)' < Left(j)
<1> j \in Actors
  BY JobsAreActors
<1>1. After(by[j]) \in {10, 3, 1} /\ Undone(pc[j]) \in 1..6
  BY DEF After, Undone
<1>2. ASSUME NEW q, pc'[j] = q, pc[j] \notin Rolling, q \notin Rolling, Distance(q) < Distance(pc[j])
      PROVE  Left(j)' < Left(j)
  BY <1>2, StageFalls
<1>3. ASSUME NEW cause \in {"activate", "failure", "cancel"}, Undo(j, cause) PROVE Left(j)' = After(cause) + 6
  BY <1>3 DEF Undo, Goto, TypeOK, Left, Rolling, Undone
<1>4. CASE Check(j) \/ Preflight(j) \/ Capture(j) \/ Pull(j) \/ StageFails(j) \/ MarkFails(j)
  <2>1. \/ pc[j] \in {"checking", "preflight", "capture", "pull"} /\ pc'[j] = "fail"
        \/ pc[j] = "checking" /\ pc'[j] = "preflight"
        \/ pc[j] = "preflight" /\ pc'[j] = "capture"
        \/ pc[j] = "capture" /\ pc'[j] = "pull"
        \/ pc[j] = "pull" /\ pc'[j] = "begin"
        \/ pc[j] = "begin" /\ pc'[j] = "note"
    BY <1>4 DEF Check, Preflight, Capture, Pull, StageFails, MarkFails, Step, Goto, TypeOK
  <2> QED BY <1>2, <2>1 DEF Rolling, Distance
<1>5. CASE Prepare(j) \/ Write(j) \/ Gate(j) \/ Commit(j) \/ DropCopy(j) \/ DropJournal(j) \/ FinalizeFails(j)
  <2>1. \/ pc[j] = "prepare" /\ pc'[j] = "write"
        \/ pc[j] = "write" /\ pc'[j] = "install"
        \/ pc[j] = "gate" /\ pc'[j] \in {"commit", "note"}
        \/ pc[j] = "commit" /\ pc'[j] = "dropCopy"
        \/ pc[j] = "dropCopy" /\ pc'[j] = "dropJournal"
        \/ pc[j] = "dropJournal" /\ pc'[j] = "succeed"
        \/ pc[j] \in {"commit", "dropCopy", "dropJournal"} /\ pc'[j] = "note"
    BY <1>5 DEF Prepare, Write, Gate, Commit, DropCopy, DropJournal, FinalizeFails, Step, Goto, TypeOK
  <2> QED BY <1>2, <2>1 DEF Rolling, Distance
<1>6. CASE Succeed(j) \/ Prune(j) \/ Clear(j) \/ Recheck(j) \/ Fail(j) \/ Cancelled(j) \/ CancelEarly(j)
  <2>1. \/ pc[j] = "succeed" /\ pc'[j] \in {"prune", "note"}
        \/ pc[j] = "prune" /\ pc'[j] = "clear"
        \/ pc[j] = "clear" /\ pc'[j] = "idle"
        \/ pc[j] = "recheck" /\ pc'[j] \in {"fail", "unrestored"}
        \/ pc[j] \in {"fail", "unrestored"} /\ pc'[j] \in {"clear", "idle"}
        \/ pc[j] = "cancelled" /\ pc'[j] = "idle"
        \/ pc[j] \in {"checking", "preflight", "capture", "pull"} /\ pc'[j] = "cancelled"
    BY <1>6 DEF Succeed, Prune, Clear, Recheck, Fail, Cancelled, CancelEarly, Step, Goto, End, TypeOK
  <2> QED BY <1>2, <2>1 DEF Rolling, Distance
<1>7. CASE Begin(j) \/ BeginFails(j) \/ PrepareFails(j) \/ WriteFails(j) \/ Install(j) \/ Compose(j)
  <2>1. \/ pc[j] \in {"begin", "prepare", "write", "install", "compose"} /\ Undo(j, "activate")
        \/ pc[j] = "begin" /\ pc'[j] = "prepare"
        \/ pc[j] = "install" /\ pc'[j] = "compose"
        \/ pc[j] = "compose" /\ pc'[j] = "gate"
    BY <1>7 DEF Begin, BeginFails, PrepareFails, WriteFails, Install, Compose, Goto, TypeOK
  <2>2. ASSUME pc[j] \in {"begin", "prepare", "write", "install", "compose"}, Undo(j, "activate")
        PROVE  Left(j)' < Left(j)
    BY <1>3, <2>2 DEF Left, Rolling, Distance, After
  <2> QED BY <1>2, <2>1, <2>2 DEF Rolling, Distance
<1>8. CASE Note(j)
  <2>1. pc[j] = "note" /\ (Undo(j, "failure") \/ pc'[j] \in {"recheck", "idle"})
    BY <1>8 DEF Note, Goto, End, TypeOK
  <2>2. CASE Undo(j, "failure")
    BY <1>3, <2>1, <2>2 DEF Left, Rolling, Distance, After
  <2> QED BY <1>2, <2>1, <2>2 DEF Rolling, Distance
<1>9. CASE CancelActivation(j)
  <2>1. /\ pc[j] \in {"begin", "prepare", "write", "install", "compose", "gate", "commit", "dropCopy", "dropJournal"}
        /\ Undo(j, "cancel")
    BY <1>9 DEF CancelActivation
  <2> QED BY <1>3, <2>1 DEF Left, Rolling, Distance, After
<1>10. CASE CancelUndo(j)
  <2>1. pc[j] \in Rolling /\ by[j] = "activate" /\ Undo(j, "cancel")
    BY <1>10 DEF CancelUndo, Undoing, Rolling
  <2> QED BY <1>1, <1>3, <2>1 DEF Left, After
<1>11. CASE CancelHandler(j)
  <2>1. pc[j] \in Rolling \cup {"recheck"} /\ pc'[j] = "idle"
    BY <1>11 DEF CancelHandler, Undoing, Rolling, End, TypeOK
  <2>2. Left(j)' = 0
    BY <2>1 DEF Left, Rolling, Distance
  <2>3. Left(j) > 0
    BY <1>1, <2>1 DEF Left, Rolling, Distance
  <2> QED BY <2>2, <2>3
<1>12. CASE UndoFails(j)
  <2>1. pc[j] \in Rolling /\ pc'[j] = GiveUp(by[j])
    BY <1>12 DEF UndoFails, Undoing, Rolling, Goto, TypeOK
  <2>2. by[j] \in {"activate", "failure", "cancel"}
    BY <2>1 DEF Reasoned, Reason, TypeOK
  <2>3. GiveUp(by[j]) \notin Rolling /\ Distance(GiveUp(by[j])) <= After(by[j]) /\ Distance(GiveUp(by[j])) \in Nat
    BY <2>2 DEF GiveUp, Continue, Rolling, Distance, After
  <2> QED BY <1>1, <2>1, <2>3 DEF Left
<1> QED
  BY <1>4, <1>5, <1>6, <1>7, <1>8, <1>9, <1>10, <1>11, <1>12, RollFalls
  DEF Work, Activate, Breaks, Cancel

\* The start of the daemon comes closer to its end.
LEMMA StartFalls == ASSUME TypeOK, Reasoned, Roll(0) \/ Reconcile PROVE Left(0)' < Left(0)
<1>1. CASE Reconcile
  <2>1. pc[0] = "reconcile" /\ pc'[0] = "idle"
    BY <1>1, JobsAreActors DEF Reconcile, Step, Goto, TypeOK
  <2> QED BY <2>1, StageFalls, JobsAreActors DEF Rolling, Distance
<1> QED BY <1>1, RollFalls, JobsAreActors

\* What an actor does leaves the others at their stages.
LEMMA OthersStay ==
  ASSUME TypeOK, NEW k \in Actors, Own(k), NEW a \in Actors \ {k}
  PROVE  pc'[a] = pc[a] /\ by'[a] = by[a]
<1> USE DEF Step, Goto, Undo, End, TypeOK, task
<1>1. ASSUME Roll(k) PROVE pc'[a] = pc[a] /\ by'[a] = by[a]
  BY <1>1 DEF Roll, Restore, UndoBox, UndoWeb, UndoCopy, UndoJournal, UndoEnds
<1>2. ASSUME Work(k), ~Roll(k) PROVE pc'[a] = pc[a] /\ by'[a] = by[a]
  <2>1. CASE Check(k) \/ Preflight(k) \/ Capture(k) \/ Pull(k) \/ StageFails(k)
    BY <2>1 DEF Check, Preflight, Capture, Pull, StageFails
  <2>2. CASE Begin(k) \/ Prepare(k) \/ Write(k) \/ Install(k) \/ Compose(k) \/ Gate(k)
    BY <2>2 DEF Begin, Prepare, Write, Install, Compose, Gate
  <2>3. CASE Commit(k) \/ DropCopy(k) \/ DropJournal(k) \/ Succeed(k) \/ Prune(k) \/ Clear(k)
    BY <2>3 DEF Commit, DropCopy, DropJournal, Succeed, Prune, Clear
  <2>4. CASE Note(k) \/ Recheck(k) \/ Fail(k) \/ Cancelled(k)
    BY <2>4 DEF Note, Recheck, Fail, Cancelled
  <2> QED BY <1>2, <2>1, <2>2, <2>3, <2>4 DEF Work, Activate
<1>3. ASSUME Breaks(k) PROVE pc'[a] = pc[a] /\ by'[a] = by[a]
  BY <1>3 DEF Breaks, MarkFails, BeginFails, PrepareFails, WriteFails, FinalizeFails, UndoFails
<1>4. ASSUME Cancel(k) PROVE pc'[a] = pc[a] /\ by'[a] = by[a]
  BY <1>4 DEF Cancel, CancelEarly, CancelActivation, CancelUndo, CancelHandler
<1>5. ASSUME k = 0, Reconcile PROVE pc'[a] = pc[a] /\ by'[a] = by[a]
  BY <1>5 DEF Reconcile
<1> QED BY <1>1, <1>2, <1>3, <1>4, <1>5 DEF Own

\* Every step brings an actor closer to its end, leaves it or sets it to work.
LEMMA StepMovesOn == ASSUME IInv, Reasoned, Next PROVE MovesOn
<1> TypeOK /\ Serial
  BY DEF IInv
<1> SUFFICES ASSUME NEW a \in Actors PROVE Ends(a)
  BY DEF MovesOn
<1>1. CASE Own(a)
  BY <1>1, JobFalls, StartFalls, JobsAreActors DEF Own, Ends
<1>2. CASE ~Own(a)
  <2>1. ASSUME pc'[a] = pc[a], by'[a] = by[a] PROVE Ends(a)
    BY <1>2, <2>1 DEF Ends, Left
  <2>2. ASSUME NEW k \in Actors, Own(k) PROVE Ends(a)
    BY <1>2, <2>1, <2>2, OthersStay
  <2>3. ASSUME NEW c \in Clients, Accept(c) PROVE Ends(a)
    <3>1. /\ pc' = [pc EXCEPT ![job.id + 1] = "checking"] /\ by' = by /\ gate = 0
          /\ job' = [id |-> job.id + 1, state |-> "running", error |-> "none",
                     from |-> asked[c][2], target |-> asked[c][1]]
      BY <2>3 DEF Accept, MayAccept, Goto
    <3>2. job'.id = job.id + 1 /\ job.id \in Nat
      BY <3>1 DEF TypeOK, Actors
    <3>3. CASE a = job.id + 1
      <4>1. a \in Jobs /\ a # 0
        BY <3>2, <3>3, JobsAreActors DEF Jobs, Actors
      <4>2. pc[a] = "idle"
        BY <3>1, <4>1, BoundsAssumption DEF Serial, GatedUpdates, Jobs
      <4>3. Left(a) = 0
        BY <4>2 DEF Left, Rolling, Distance
      <4> QED BY <1>2, <2>3, <3>2, <3>3, <4>1, <4>3 DEF Ends, Begins
    <3>4. CASE a # job.id + 1
      BY <2>1, <3>1, <3>4 DEF TypeOK
    <3> QED BY <3>3, <3>4
  <2>4. CASE \E c \in Clients : (\E v \in Versions : Ask(c, v)) \/ Refuse(c)
    BY <2>1, <2>4 DEF Ask, Refuse, task
  <2>5. CASE PrepareStop \/ CancelStop \/ Terminate \/ LateWrite \/ Exit \/ StartRefused
    BY <2>1, <2>5 DEF PrepareStop, CancelStop, Terminate, LateWrite, Exit, StartRefused, task, vars
  <2>6. CASE Crash
    <3>1. pc'[a] = "idle"
      BY <2>6 DEF Crash, Dies
    <3>2. Left(a)' = 0
      BY <3>1 DEF Left, Rolling, Distance
    <3>3. Left(a) \in Nat
      BY DEF Left, Distance, After, Undone
    <3> QED BY <1>2, <3>2, <3>3 DEF Ends
  <2>7. CASE Start
    <3>1. by' = by /\ (a # 0 => pc'[a] = pc[a]) /\ pc[0] = "idle"
      BY <2>7, JobsAreActors DEF Start, Goto, Serial, TypeOK
    <3>2. CASE a = 0
      <4>1. Left(a) = 0
        BY <3>1, <3>2 DEF Left, Rolling, Distance
      <4> QED BY <1>2, <2>7, <3>2, <4>1 DEF Ends, Begins
    <3> QED BY <2>1, <3>1, <3>2
  <2>8. ASSUME NEW j \in Jobs, Work(j) \/ Breaks(j) \/ Cancel(j) PROVE Ends(a)
    BY <2>2, <2>8, JobsAreActors DEF Own
  <2>9. CASE Roll(0) \/ Reconcile
    BY <2>2, <2>9, JobsAreActors DEF Own
  <2> QED BY <2>3, <2>4, <2>5, <2>6, <2>7, <2>8, <2>9 DEF Next, Submit
<1> QED BY <1>1, <1>2

\* At the start nobody is at work.
LEMMA ReasonedInit == ASSUME Init PROVE Reasoned
BY JobsAreActors DEF Init, Reasoned, Reason, Rolling

\* A task of a job keeps the reasons of its stage, and its gate until a fault.
LEMMA ReasonedJob ==
  ASSUME IInv, Reasoned, NEW j \in Jobs, Own(j), Reason(j)',
         up' = up, faults = 0 /\ faults' = 0 /\ up = "serving" => gate' = 0 \/ pc'[j] # "idle"
  PROVE  Reasoned'
<1>1. TypeOK /\ j \in Actors /\ 0 \in Actors /\ j # 0
  BY JobsAreActors DEF IInv
<1>2. \A a \in Actors \ {j} : pc'[a] = pc[a] /\ by'[a] = by[a]
  BY <1>1, OthersStay
<1>3. \A k \in Jobs : Reason(k)'
  BY <1>2, JobsAreActors DEF Reasoned, Reason
<1>4. by'[0] = "none"
  BY <1>1, <1>2 DEF Reasoned
<1>5. faults' = 0 => faults = 0
  <2>1. faults' = faults \/ faults' = faults + 1
    <3> USE JobsAreActors DEF history, Fault
    <3>1. CASE Roll(j)
      BY <3>1 DEF Roll, Restore, UndoBox, UndoWeb, UndoCopy, UndoJournal, UndoEnds
    <3>2. CASE Check(j) \/ Preflight(j) \/ Capture(j) \/ Pull(j) \/ StageFails(j)
      BY <3>2 DEF Check, Preflight, Capture, Pull, StageFails
    <3>3. CASE Begin(j) \/ Prepare(j) \/ Write(j) \/ Install(j) \/ Compose(j) \/ Gate(j)
      BY <3>3 DEF Begin, Prepare, Write, Install, Compose, Gate
    <3>4. CASE Commit(j) \/ DropCopy(j) \/ DropJournal(j) \/ Succeed(j) \/ Prune(j) \/ Clear(j)
      BY <3>4 DEF Commit, DropCopy, DropJournal, Succeed, Prune, Clear
    <3>5. CASE Note(j) \/ Recheck(j) \/ Fail(j) \/ Cancelled(j)
      BY <3>5 DEF Note, Recheck, Fail, Cancelled
    <3>6. CASE Breaks(j)
      BY <3>6 DEF Breaks, MarkFails, BeginFails, PrepareFails, WriteFails, FinalizeFails, UndoFails
    <3>7. CASE Cancel(j)
      BY <3>7 DEF Cancel, CancelEarly, CancelActivation, CancelUndo, CancelHandler
    <3> QED BY <1>1, <3>1, <3>2, <3>3, <3>4, <3>5, <3>6, <3>7 DEF Own, Work, Activate
  <2> QED BY <1>1, <2>1 DEF TypeOK
<1> QED BY <1>3, <1>4, <1>5 DEF Reasoned

\* Every step keeps the reasons of the stages, and the gates their tasks.
LEMMA ReasonedStep == ASSUME IInv, Reasoned, [Next]_vars PROVE Reasoned'
<1> TypeOK /\ Serial
  BY DEF IInv
<1> USE JobsAreActors
<1>1. ASSUME NEW j \in Jobs, Own(j), up' = up,
             \/ /\ pc'[j] \notin Rolling \cup {"reconcile", "cancelled", "idle"}
                /\ by'[j] = by[j] \/ by'[j] \in {"none", "activate", "failure"}
             \/ /\ pc'[j] \in Rolling
                /\ by'[j] \in {by[j], "activate", "failure"} \ {"none"} \/ (by'[j] = "cancel" /\ up = "stopping")
             \/ pc'[j] = "cancelled" /\ by'[j] = "cancel" /\ up = "stopping"
             \/ /\ pc'[j] = "idle" /\ by'[j] = "none"
                /\ gate' = 0 \/ Fault \/ up = "stopping"
      PROVE  Reasoned'
  <2>1. Reason(j)'
    BY <1>1 DEF Reasoned, Reason, Rolling
  <2>2. faults = 0 /\ faults' = 0 /\ up = "serving" => gate' = 0 \/ pc'[j] # "idle"
    BY <1>1 DEF Fault, Rolling
  <2> QED BY <1>1, <2>1, <2>2, ReasonedJob
<1>2. ASSUME NEW j \in Jobs, Work(j) PROVE Reasoned'
  <2> USE DEF Step, Goto, Undo, End, TypeOK, task, daemon, Rolling
  <2>1. Own(j)
    BY <1>2 DEF Own
  <2>2. CASE Check(j) \/ Preflight(j) \/ Capture(j) \/ Pull(j) \/ StageFails(j)
    BY <1>1, <2>1, <2>2 DEF Check, Preflight, Capture, Pull, StageFails
  <2>3. CASE Begin(j) \/ Prepare(j) \/ Write(j) \/ Install(j) \/ Compose(j) \/ Gate(j)
    BY <1>1, <2>1, <2>3 DEF Begin, Prepare, Write, Install, Compose, Gate
  <2>4. CASE Commit(j) \/ DropCopy(j) \/ DropJournal(j) \/ Succeed(j) \/ Prune(j)
    BY <1>1, <2>1, <2>4 DEF Commit, DropCopy, DropJournal, Succeed, Prune
  <2>5. CASE Clear(j)
    BY <1>1, <2>1, <2>5 DEF Clear
  <2>6. CASE Note(j) \/ Recheck(j) \/ Fail(j)
    BY <1>1, <2>1, <2>6 DEF Note, Recheck, Fail
  <2>7. CASE Cancelled(j)
    <3>1. up = "stopping"
      BY <2>7 DEF Cancelled, Reasoned, Reason
    <3> QED BY <1>1, <2>1, <2>7, <3>1 DEF Cancelled
  <2>8. CASE Restore(j) \/ UndoBox(j) \/ UndoWeb(j) \/ UndoCopy(j) \/ UndoJournal(j)
    <3>1. by[j] # "none"
      BY <2>8 DEF Restore, UndoBox, UndoWeb, UndoCopy, UndoJournal, Reasoned, Reason
    <3> QED BY <1>1, <2>1, <2>8, <3>1 DEF Restore, UndoBox, UndoWeb, Restored, UndoCopy, UndoJournal
  <2>9. CASE UndoEnds(j)
    <3>1. by[j] # "none" /\ (by[j] = "cancel" => up = "stopping")
      BY <2>9 DEF UndoEnds, Reasoned, Reason
    <3> QED BY <1>1, <2>1, <2>9, <3>1 DEF UndoEnds, Continue
  <2> QED BY <1>2, <2>2, <2>3, <2>4, <2>5, <2>6, <2>7, <2>8, <2>9 DEF Work, Activate, Roll
<1>3. ASSUME NEW j \in Jobs, Breaks(j) PROVE Reasoned'
  <2> USE DEF Step, Goto, Undo, TypeOK, daemon, Rolling
  <2>1. Own(j)
    BY <1>3 DEF Own
  <2>2. CASE MarkFails(j) \/ BeginFails(j) \/ PrepareFails(j) \/ WriteFails(j) \/ FinalizeFails(j)
    BY <1>1, <2>1, <2>2 DEF MarkFails, BeginFails, PrepareFails, WriteFails, FinalizeFails
  <2>3. CASE UndoFails(j)
    <3>1. by[j] # "none" /\ (by[j] = "cancel" => up = "stopping")
      BY <2>3 DEF UndoFails, Undoing, Reasoned, Reason
    <3> QED BY <1>1, <2>1, <2>3, <3>1 DEF UndoFails, GiveUp, Continue
  <2> QED BY <1>3, <2>2, <2>3 DEF Breaks
<1>4. ASSUME NEW j \in Jobs, Cancel(j) PROVE Reasoned'
  <2> USE DEF Step, Goto, Undo, End, TypeOK, daemon, Rolling, Cancelling
  <2>1. Own(j)
    BY <1>4 DEF Own
  <2>2. CASE CancelEarly(j)
    BY <1>1, <2>1, <2>2 DEF CancelEarly
  <2>3. CASE CancelActivation(j) \/ CancelUndo(j)
    BY <1>1, <2>1, <2>3 DEF CancelActivation, CancelUndo
  <2>4. CASE CancelHandler(j)
    BY <1>1, <2>1, <2>4 DEF CancelHandler
  <2> QED BY <1>4, <2>2, <2>3, <2>4 DEF Cancel
<1>5. ASSUME UNCHANGED <<pc, by, gate, faults>>, up' \in {up, "stopping"} PROVE Reasoned'
  BY <1>5 DEF Reasoned, Reason
<1>6. CASE \E c \in Clients : (\E v \in Versions : Ask(c, v)) \/ Refuse(c)
  BY <1>5, <1>6 DEF Ask, Refuse, task, store, history
<1>7. CASE PrepareStop \/ CancelStop \/ Terminate \/ LateWrite \/ StartRefused \/ UNCHANGED vars
  BY <1>5, <1>7 DEF PrepareStop, CancelStop, Terminate, LateWrite, StartRefused, task, store, daemon, history, vars
<1>8. CASE Exit
  <2>1. UNCHANGED <<pc, by>> /\ up' = "down" /\ \A j \in Jobs : pc[j] = "idle"
    BY <1>8 DEF Exit, Quiet, task
  <2> QED BY <2>1 DEF Reasoned, Reason
<1>9. ASSUME NEW c \in Clients, Accept(c) PROVE Reasoned'
  <2> DEFINE j == job.id + 1
  <2>1. j \in Jobs /\ j \in Actors /\ pc' = [pc EXCEPT ![j] = "checking"] /\ by' = by /\ up' = up /\ gate = 0
    <3>1. job.id \in Actors /\ job.id < MaxJobs
      BY <1>9 DEF Accept, TypeOK
    <3>2. j \in Jobs /\ j \in Actors
      BY <3>1, BoundsAssumption DEF Actors, Jobs
    <3> QED BY <1>9, <3>2 DEF Accept, MayAccept, Goto
  <2>2. pc[j] = "idle"
    BY <2>1, BoundsAssumption DEF Serial, GatedUpdates, Jobs
  <2> HIDE DEF j
  <2>3. pc'[j] = "checking" /\ \A k \in Actors \ {j} : pc'[k] = pc[k]
    BY <2>1 DEF TypeOK
  <2> QED BY <2>1, <2>2, <2>3 DEF Reasoned, Reason, Rolling
<1>10. CASE Crash
  BY <1>10 DEF Crash, Dies, Reasoned, Reason, Rolling
<1>11. CASE Start
  <2>1. up' = "starting" /\ by' = by /\ \A j \in Jobs : pc'[j] = pc[j]
    BY <1>11 DEF Start, Goto, TypeOK
  <2>2. up = "down"
    BY <1>11 DEF Start
  <2> QED BY <2>1, <2>2 DEF Reasoned, Reason
<1>12. CASE Roll(0) \/ Reconcile
  <2>1. Own(0) /\ pc[0] # "idle"
    BY <1>12 DEF Own, Roll, Restore, UndoBox, UndoWeb, UndoCopy, UndoJournal, UndoEnds, Reconcile, Step
  <2>2. \A j \in Jobs : pc'[j] = pc[j] /\ by'[j] = by[j]
    BY <2>1, OthersStay
  <2>3. by' = by /\ (up' = up \/ gate' = 0) /\ up = "starting"
    <3>1. up = "starting"
      BY <2>1 DEF Serial
    <3> QED BY <1>12, <3>1 DEF Roll, Restore, UndoBox, UndoWeb, UndoCopy, UndoJournal, UndoEnds, Reconcile, daemon
  <2>4. \A j \in Jobs : Reason(j)'
    BY <2>2, <2>3 DEF Reasoned, Reason
  <2> QED BY <2>3, <2>4 DEF Reasoned
<1> QED
  BY <1>2, <1>3, <1>4, <1>6, <1>7, <1>8, <1>9, <1>10, <1>11, <1>12 DEF Next, Submit

\* The reasons of the stages hold in every reachable state.
LEMMA ReasonsHold == Spec => []Reasoned
<1>1. Reasoned /\ IInv /\ [Next]_vars => Reasoned'
  BY ReasonedStep
<1>2. Spec => []IInv
  BY Invariance, PTL
<1> QED BY <1>1, <1>2, ReasonedInit, PTL DEF Spec

\* No update and no start goes on for ever, for any number of jobs, cancellations
\* and faults: whatever a job does, also when a step fails or it is cancelled,
\* brings it closer to its end, nothing takes it back, and it is begun once it
\* has ended.
THEOREM UpdatesMoveOn == Spec => [][MovesOn]_vars
<1>1. IInv /\ Reasoned /\ [Next]_vars => [MovesOn]_vars
  BY StepMovesOn
<1>2. Spec => []IInv
  BY Invariance, PTL
<1> QED BY <1>1, <1>2, ReasonsHold, PTL DEF Spec

\* As long as no write and no rollback has failed and the daemon has not been
\* killed, a gate that refuses updates has a task that is at work.
THEOREM GatesHaveTasks == Spec => []GateHasTask
<1>1. IInv /\ Reasoned => GateHasTask
  <2> SUFFICES ASSUME IInv, Reasoned, up = "serving", gate # 0, Quiet PROVE faults > 0
    BY DEF GateHasTask
  <2>1. \A j \in Jobs : pc[j] = "idle"
    BY JobsAreActors DEF Quiet
  <2>2. faults # 0 /\ faults \in Nat
    BY <2>1, BoundsAssumption DEF Reasoned, IInv, TypeOK
  <2> QED BY <2>2
<1>2. Spec => []IInv
  BY Invariance, PTL
<1> QED BY <1>1, <1>2, ReasonsHold, PTL
=============================================================================

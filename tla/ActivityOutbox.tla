--------------------------- MODULE ActivityOutbox ---------------------------
(***************************************************************************)
(* Transactional activity events and their outbox: backend/services/       *)
(* activity_observability/outbox_service.py.                               *)
(*                                                                         *)
(* Writers append events to one session inside transactions of their own;  *)
(* an append locks the session row until the transaction ends, but counts  *)
(* from the row as the transaction first read it: an object that is        *)
(* already loaded is not refreshed by the locking select.  Dispatcher      *)
(* processes claim due rows in batches, re-check the recipient, publish    *)
(* outside any transaction and record the result under the claim's token.  *)
(*                                                                         *)
(* Delays are abstract: a deferred row becomes due, and a claim times out, *)
(* at any moment; a claim that times out while a dispatcher still handles  *)
(* it counts as a fault.  attempt_count stops at the retry limit, beyond   *)
(* which it makes no difference.                                           *)
(***************************************************************************)
EXTENDS Integers, Sequences, FiniteSets

CONSTANTS
  Writers,      \* callers that append events to the session
  Users,        \* recipients
  Dispatchers,  \* dispatcher tasks, one per process
  Tokens,       \* claim tokens: one more than dispatchers suffices
  MaxEvents,    \* bound: events of the session
  MaxAttempts,  \* retry_policy.max_attempts; 0 stands for no limit
  BatchSize,    \* rows claimed at once
  MaxFaults     \* bound: crashes and database errors of dispatchers, and
                \* batches that take as long as the claim timeout

ASSUME NumbersAssumption ==
  /\ MaxEvents \in Nat
  /\ MaxAttempts \in Nat
  /\ BatchSize \in Nat \ {0}
  /\ MaxFaults \in Nat
  /\ 0 \notin Tokens

\* Claim tokens are random and never run out.
ASSUME TokensAssumption ==
  /\ IsFiniteSet(Dispatchers) /\ IsFiniteSet(Tokens)
  /\ Cardinality(Dispatchers) < Cardinality(Tokens)

Rows == (1..MaxEvents) \X Users
Unread == -1
None == [row |-> <<0, 0>>, token |-> 0]
Claims == [row : Rows, token : Tokens]

VARIABLES
  lastSequence, \* session_event_sequence as committed
  locked,       \* the writers holding the session row: at most one
  seen,         \* session_event_sequence in w's unit of work; Unread if not loaded
  refused,      \* the writers whose last append broke the unique sequence
  tx,           \* tx[w]: events of w's open transaction: <<sequence, users>>
  log,          \* sequences of the events, in the order they were committed
  status,       \* status of each row
  attempts,     \* attempt_count
  token,        \* claim_token
  due,          \* rows whose next_attempt_at has come or claim has timed out
  authorised,   \* the users who may see the session now
  pc,           \* what each dispatcher is doing
  batch,        \* its claims still to be handled
  job,          \* the claim it is handling
  delivered,    \* rows of which a copy was published
  overrun,      \* whether a claim timed out while it was handled
  faults        \* crashes, database errors and such claims so far

writerVars == <<lastSequence, locked, seen, refused, tx, log>>
rowVars == <<status, attempts, token, due>>
dispatcherVars == <<pc, batch, job>>
vars == <<writerVars, rowVars, authorised, dispatcherVars, delivered, overrun, faults>>

Statuses == {"absent", "pending", "claimed", "published", "failed", "cancelled"}
Stages == {"idle", "next", "publish", "succeed", "fail", "cancel", "stopped"}
Handling == {"publish", "succeed", "fail", "cancel"}

TypeOK ==
  /\ lastSequence \in 0..MaxEvents
  /\ locked \subseteq Writers
  /\ seen \in [Writers -> {Unread} \cup 0..MaxEvents]
  /\ refused \subseteq Writers
  /\ tx \in [Writers -> Seq((1..MaxEvents) \X SUBSET Users)]
  /\ log \in Seq(1..MaxEvents)
  /\ status \in [Rows -> Statuses]
  /\ attempts \in [Rows -> 0..MaxAttempts]
  /\ token \in [Rows -> Tokens \cup {0}]
  /\ due \subseteq Rows
  /\ authorised \subseteq Users
  /\ pc \in [Dispatchers -> Stages]
  /\ batch \in [Dispatchers -> SUBSET Claims]
  /\ job \in [Dispatchers -> Claims \cup {None}]
  /\ \A d \in Dispatchers : pc[d] \in Handling => job[d] \in Claims
  /\ delivered \subseteq Rows
  /\ overrun \in BOOLEAN
  /\ faults \in 0..MaxFaults

Init ==
  /\ lastSequence = 0
  /\ locked = {}
  /\ seen = [w \in Writers |-> Unread]
  /\ refused = {}
  /\ tx = [w \in Writers |-> <<>>]
  /\ log = <<>>
  /\ status = [r \in Rows |-> "absent"]
  /\ attempts = [r \in Rows |-> 0]
  /\ token = [r \in Rows |-> 0]
  /\ due = {}
  /\ authorised = Users
  /\ pc = [d \in Dispatchers |-> "idle"]
  /\ batch = [d \in Dispatchers |-> {}]
  /\ job = [d \in Dispatchers |-> None]
  /\ delivered = {}
  /\ overrun = FALSE
  /\ faults = 0

-----------------------------------------------------------------------------
\* The caller of an append may have read the session row before, unlocked.
Load(w) ==
  /\ seen[w] = Unread /\ lastSequence < MaxEvents
  /\ seen' = [seen EXCEPT ![w] = lastSequence]
  /\ UNCHANGED <<lastSequence, locked, refused, tx, log, rowVars, authorised, dispatcherVars,
                 delivered, overrun, faults>>

Sequence(w) == 1 + IF seen[w] = Unread THEN lastSequence ELSE seen[w]

\* The transaction of w ends: its locks and its view of the row are gone.
EndTransaction(w) ==
  /\ locked' = locked \ {w}
  /\ seen' = [seen EXCEPT ![w] = Unread]
  /\ tx' = [tx EXCEPT ![w] = <<>>]

\* Mutated form: the counter is committed on its own, before the event.
AppendCommittingCounter(w, users) ==
  /\ locked \subseteq {w}
  /\ Sequence(w) \in (lastSequence + 1)..MaxEvents
  /\ lastSequence' = Sequence(w)
  /\ locked' = {w}
  /\ seen' = [seen EXCEPT ![w] = Sequence(w)]
  /\ refused' = refused \ {w}
  /\ tx' = [tx EXCEPT ![w] = Append(@, <<Sequence(w), users>>)]
  /\ UNCHANGED <<log, rowVars, authorised, dispatcherVars, delivered, overrun, faults>>

\* append_event_and_outbox locks the session row, then counts.
Append_(w, users) ==
  /\ locked \subseteq {w}
  /\ Sequence(w) \in (lastSequence + 1)..MaxEvents
  /\ locked' = {w}
  /\ seen' = [seen EXCEPT ![w] = Sequence(w)]
  /\ refused' = refused \ {w}
  /\ tx' = [tx EXCEPT ![w] = Append(@, <<Sequence(w), users>>)]
  /\ UNCHANGED <<lastSequence, log, rowVars, authorised, dispatcherVars, delivered, overrun, faults>>

\* The sequence is taken by an event committed since the row was read: the
\* insert breaks the unique key and the transaction is lost.
AppendRefused(w) ==
  /\ locked \subseteq {w}
  /\ Sequence(w) <= lastSequence
  /\ refused' = refused \cup {w}
  /\ EndTransaction(w)
  /\ UNCHANGED <<lastSequence, log, rowVars, authorised, dispatcherVars, delivered, overrun, faults>>

\* The caller commits: events and rows become visible together.
Commit(w) ==
  LET new == {r \in Rows : \E i \in DOMAIN tx[w] : r[1] = tx[w][i][1] /\ r[2] \in tx[w][i][2]}
  IN  /\ tx[w] # <<>>
      /\ lastSequence' = tx[w][Len(tx[w])][1]
      /\ log' = log \o [i \in DOMAIN tx[w] |-> tx[w][i][1]]
      /\ status' = [r \in Rows |-> IF r \in new THEN "pending" ELSE status[r]]
      /\ due' = due \cup new
      /\ EndTransaction(w)
      /\ UNCHANGED <<refused, attempts, token, authorised, dispatcherVars, delivered, overrun, faults>>

Rollback(w) ==
  /\ seen[w] # Unread
  /\ EndTransaction(w)
  /\ UNCHANGED <<lastSequence, refused, log, rowVars, authorised, dispatcherVars, delivered, overrun, faults>>

-----------------------------------------------------------------------------
\* The claims dispatcher d has still to handle.
Held(d) == batch[d] \cup {job[d]}
Handled(r) == \E d \in Dispatchers : \E c \in Held(d) : c.row = r /\ c.token = token[r]

Due(r) ==
  /\ r \notin due
  /\ due' = due \cup {r}
  /\ UNCHANGED <<writerVars, status, attempts, token, authorised, dispatcherVars, delivered>>

\* Mutated form: a timed-out claim is not claimed again.
BecomesDueIfPending(r) ==
  /\ status[r] = "pending"
  /\ Due(r)
  /\ UNCHANGED <<overrun, faults>>

\* The delay of a deferred row, or the timeout of a lost claim, has passed.
BecomesDue(r) ==
  /\ status[r] = "pending" \/ (status[r] = "claimed" /\ ~Handled(r))
  /\ Due(r)
  /\ UNCHANGED <<overrun, faults>>

\* A claim times out while its dispatcher still has it to handle.
Overruns(r) ==
  /\ status[r] = "claimed" /\ Handled(r)
  /\ faults < MaxFaults
  /\ Due(r)
  /\ overrun' = TRUE /\ faults' = faults + 1

\* Access to the session is revoked from or granted to a user.
ChangeAccess(u) ==
  /\ authorised' = IF u \in authorised THEN authorised \ {u} ELSE authorised \cup {u}
  /\ UNCHANGED <<writerVars, rowVars, dispatcherVars, delivered, overrun, faults>>

\* The tokens that are not of one of the row's live claims.
Unused(r) ==
  Tokens \ ({token[r]} \cup
            {c.token : c \in {c \in UNION {Held(d) : d \in Dispatchers} : c.row = r}})
\* A fresh one: it does not matter which.
Fresh(r) == CHOOSE t \in Unused(r) : TRUE

Counted(r) == IF attempts[r] < MaxAttempts THEN attempts[r] + 1 ELSE attempts[r]

\* Mutated form: the time of the claim is not recorded.
MarkLeavingDue(d, rows, fresh) ==
  /\ status' = [r \in Rows |-> IF r \in rows THEN "claimed" ELSE status[r]]
  /\ token' = [r \in Rows |-> IF r \in rows THEN fresh[r] ELSE token[r]]
  /\ attempts' = [r \in Rows |-> IF r \in rows THEN Counted(r) ELSE attempts[r]]
  /\ batch' = [batch EXCEPT ![d] = {[row |-> r, token |-> fresh[r]] : r \in rows}]
  /\ UNCHANGED due

Mark(d, rows, fresh) ==
  /\ status' = [r \in Rows |-> IF r \in rows THEN "claimed" ELSE status[r]]
  /\ token' = [r \in Rows |-> IF r \in rows THEN fresh[r] ELSE token[r]]
  /\ attempts' = [r \in Rows |-> IF r \in rows THEN Counted(r) ELSE attempts[r]]
  /\ batch' = [batch EXCEPT ![d] = {[row |-> r, token |-> fresh[r]] : r \in rows}]
  /\ due' = due \ rows

\* _claim marks up to a batch of due rows and commits before any publish.
\* Rows that another dispatcher is claiming are skipped.
Claim(d) ==
  /\ pc[d] = "idle"
  /\ \E rows \in SUBSET due :
       /\ Cardinality(rows) \in 1..BatchSize
       /\ \A r \in rows : Unused(r) # {}
       /\ Mark(d, rows, [r \in rows |-> Fresh(r)])
  /\ pc' = [pc EXCEPT ![d] = "next"]
  /\ UNCHANGED <<writerVars, authorised, job, delivered, overrun, faults>>

\* The dispatcher takes the next claim of its batch, oldest event first.
Take(d, c, stage) ==
  /\ pc[d] = "next"
  /\ \A other \in batch[d] : c.row[1] <= other.row[1]
  /\ job' = [job EXCEPT ![d] = c]
  /\ batch' = [batch EXCEPT ![d] = @ \ {c}]
  /\ pc' = [pc EXCEPT ![d] = stage]
  /\ UNCHANGED <<writerVars, rowVars, authorised, delivered, overrun, faults>>

\* The recipient's access is checked again; a failing check counts as a
\* failed delivery.
Authorise(d) ==
  \E c \in batch[d] : Take(d, c, IF c.row[2] \in authorised THEN "publish" ELSE "cancel")

AuthoriserFails(d) == \E c \in batch[d] : Take(d, c, "fail")

Publish(d) ==
  /\ pc[d] = "publish"
  /\ delivered' = delivered \cup {job[d].row}
  /\ pc' = [pc EXCEPT ![d] = "succeed"]
  /\ UNCHANGED <<writerVars, rowVars, authorised, batch, job, overrun, faults>>

\* The publisher raises, before or after a copy went out.
PublishFails(d) ==
  /\ pc[d] = "publish"
  /\ delivered' \in {delivered, delivered \cup {job[d].row}}
  /\ pc' = [pc EXCEPT ![d] = "fail"]
  /\ UNCHANGED <<writerVars, rowVars, authorised, batch, job, overrun, faults>>

\* Mutated form: the result is recorded by the row's id alone.
OwnsAnyway(c) == TRUE

\* The compare-and-set shared by the three results: the row is still claimed
\* under this claim's token.
Owns(c) == status[c.row] = "claimed" /\ token[c.row] = c.token

\* The dispatcher turns to the rest of its batch.
Continue(d) ==
  /\ pc' = [pc EXCEPT ![d] = IF batch[d] = {} THEN "idle" ELSE "next"]
  /\ job' = [job EXCEPT ![d] = None]
  /\ UNCHANGED <<writerVars, attempts, authorised, batch, delivered, overrun, faults>>

\* A result is recorded in the row, or discarded when the claim was lost.
\* A row set back to pending waits for its delay.
Record(d, result) ==
  LET r == job[d].row IN
  /\ IF Owns(job[d])
       THEN /\ status' = [status EXCEPT ![r] = result]
            /\ token' = [token EXCEPT ![r] = 0]
            /\ due' = due \ {r}
       ELSE UNCHANGED <<status, token, due>>
  /\ Continue(d)

FinishSuccess(d) == pc[d] = "succeed" /\ Record(d, "published")

\* Mutated form: the last attempt is never made.
ExhaustedEarly(r) == MaxAttempts > 0 /\ attempts[r] + 1 >= MaxAttempts

Exhausted(r) == MaxAttempts > 0 /\ attempts[r] >= MaxAttempts
FinishFailure(d) ==
  /\ pc[d] = "fail"
  /\ Record(d, IF Exhausted(job[d].row) THEN "failed" ELSE "pending")

CancelUnauthorised(d) == pc[d] = "cancel" /\ Record(d, "cancelled")

\* A database error while cancelling is handled as a failed delivery.
CancelFails(d) ==
  /\ pc[d] = "cancel"
  /\ pc' = [pc EXCEPT ![d] = "fail"]
  /\ UNCHANGED <<writerVars, rowVars, authorised, batch, job, delivered, overrun, faults>>

\* The process dies, or shutdown cancels the dispatcher.
Halt(d) ==
  /\ faults < MaxFaults
  /\ faults' = faults + 1
  /\ pc' = [pc EXCEPT ![d] = "stopped"]
  /\ batch' = [batch EXCEPT ![d] = {}]
  /\ job' = [job EXCEPT ![d] = None]
  /\ UNCHANGED <<writerVars, rowVars, authorised, delivered, overrun>>

Crash(d) == pc[d] # "stopped" /\ Halt(d)

\* A database error in _claim or in recording a result, before or after its
\* commit, leaves dispatch_once and ends run(); nothing but the next start of
\* the process starts it again.
DatabaseError(d) == pc[d] \in {"idle", "next", "succeed", "fail"} /\ Halt(d)

Restart(d) ==
  /\ pc[d] = "stopped"
  /\ pc' = [pc EXCEPT ![d] = "idle"]
  /\ UNCHANGED <<writerVars, rowVars, authorised, batch, job, delivered, overrun, faults>>

-----------------------------------------------------------------------------
Write(w) ==
  \/ Load(w)
  \/ \E users \in SUBSET Users : Append_(w, users)
  \/ AppendRefused(w)
  \/ Commit(w)
  \/ Rollback(w)

Dispatch(d) ==
  \/ Claim(d)
  \/ Authorise(d)
  \/ Publish(d)
  \/ FinishSuccess(d)
  \/ FinishFailure(d)
  \/ CancelUnauthorised(d)
  \/ Restart(d)

Trouble(d) ==
  \/ AuthoriserFails(d)
  \/ PublishFails(d)
  \/ CancelFails(d)
  \/ Crash(d)
  \/ DatabaseError(d)

Next ==
  \/ \E w \in Writers : Write(w)
  \/ \E r \in Rows : BecomesDue(r) \/ Overruns(r)
  \/ \E u \in Users : ChangeAccess(u)
  \/ \E d \in Dispatchers : Dispatch(d) \/ Trouble(d)

Spec == Init /\ [][Next]_vars

\* Some dispatcher that can work does, a stopped one is started again with its
\* process, and time passes.  Commits, failures, batches that take too long and
\* changes of access are nobody's duty.
Fairness ==
  /\ WF_vars(\E d \in Dispatchers :
               Dispatch(d) \/ AuthoriserFails(d) \/ PublishFails(d) \/ CancelFails(d))
  /\ WF_vars(\E r \in Rows : BecomesDue(r))

LiveSpec == Spec /\ Fairness

-----------------------------------------------------------------------------
\* Events become visible in the order of their sequences and without a gap,
\* whatever the interleaving of the writers' transactions and rollbacks: a
\* reader that remembers the last sequence it saw misses nothing
\* (append_event_and_outbox locks the session row until the caller commits).
SequenceOrder == log = [i \in 1..lastSequence |-> i]

\* The sequence is documented to be allocated atomically on the session's
\* counter: no append fails because another took the same sequence.
AllocationIsAtomic == refused = {}

\* The rows an observer sees: claims are invisible to it.
Outcome == [r \in Rows |-> IF status[r] \in {"pending", "claimed"} THEN "open" ELSE status[r]]
Abs == INSTANCE ActivityDelivery WITH outcome <- Outcome

\* Dispatchers, crashes, time-outs and take-overs of claims together keep the
\* promise of the outbox: published only after a copy went out, settled once.
DeliversAtLeastOnce == Abs!ASpec

\* As long as claims outlive their handling, no two dispatchers handle one row
\* at the same time: duplicates come from failures and time-outs only.
SoleHandler ==
  ~overrun => \A d, e \in Dispatchers :
                \A c \in batch[d] \cup {job[d]}, b \in batch[e] \cup {job[e]} :
                  d # e /\ c.row = b.row => c = None

\* A notification is given up only after as many claims as the retry policy
\* allows, however its claims were lost and taken over in between.
FailedAfterAllAttempts ==
  \A r \in Rows : status[r] = "failed" => MaxAttempts > 0 /\ attempts[r] = MaxAttempts

\* Every committed notification is eventually published, failed or cancelled,
\* through crashes, database errors, lost claims and claims that are taken
\* over, when dispatchers are restarted and attempts are limited.
EveryRowSettles ==
  \A r \in Rows : status[r] = "pending" ~> status[r] \in {"published", "failed", "cancelled"}
=============================================================================

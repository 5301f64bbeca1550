------------------------ MODULE ActivityOutbox_proofs ------------------------
(***************************************************************************)
(* For any writers, recipients and dispatchers, any batch size and retry   *)
(* limit: events become visible in order and without a gap, and the        *)
(* dispatchers implement at-least-once delivery, no two of them at once,   *)
(* with a dispatcher or time left to serve every open row.                 *)
(***************************************************************************)
EXTENDS ActivityOutbox, SequenceTheorems, FiniteSetTheorems, WellFoundedInduction, TLAPS

\* The entries of an open transaction and the claims of a dispatcher.
LEMMA Parts ==
  ASSUME TypeOK
  PROVE  /\ MaxEvents \in Nat /\ MaxAttempts \in Nat /\ MaxFaults \in Nat
         /\ \A w \in Writers : tx[w] \in Seq((1..MaxEvents) \X SUBSET Users)
         /\ \A w \in Writers : \A i \in DOMAIN tx[w] : tx[w][i][1] \in 1..MaxEvents
         /\ \A d \in Dispatchers : \A c \in batch[d] :
              c \in Claims /\ c.row \in Rows /\ c.token \in Tokens
         /\ \A d \in Dispatchers : pc[d] \in Handling => job[d] \in Claims /\ job[d].row \in Rows
<1> USE DEF TypeOK
<1>1. MaxEvents \in Nat /\ MaxAttempts \in Nat /\ MaxFaults \in Nat
  BY NumbersAssumption
<1>2. ASSUME NEW w \in Writers, NEW i \in DOMAIN tx[w] PROVE tx[w][i][1] \in 1..MaxEvents
  <2>1. tx[w] \in Seq((1..MaxEvents) \X SUBSET Users)
    OBVIOUS
  <2>2. tx[w][i] \in (1..MaxEvents) \X SUBSET Users
    BY <2>1, ElementOfSeq
  <2> QED BY <2>2
<1>3. ASSUME NEW d \in Dispatchers, NEW c \in batch[d]
      PROVE  c \in Claims /\ c.row \in Rows /\ c.token \in Tokens
  BY DEF Claims
<1>4. ASSUME NEW d \in Dispatchers, pc[d] \in Handling
      PROVE  job[d] \in Claims /\ job[d].row \in Rows
  BY <1>4 DEF Claims
<1> QED BY <1>1, <1>2, <1>3, <1>4

\* A claim marks a batch of due rows under fresh tokens.
LEMMA ClaimMarks ==
  ASSUME NEW d \in Dispatchers, Claim(d)
  PROVE  \E rows \in SUBSET due : \E fresh \in [rows -> Tokens] : Mark(d, rows, fresh)
<1>1. PICK rows \in SUBSET due : /\ \A r \in rows : Unused(r) # {}
                                 /\ Mark(d, rows, [r \in rows |-> Fresh(r)])
  BY DEF Claim
<1>2. ASSUME NEW r \in rows PROVE Fresh(r) \in Tokens
  <2>1. Fresh(r) \in Unused(r)
    BY <1>1 DEF Fresh
  <2> QED BY <2>1 DEF Unused
<1>3. [r \in rows |-> Fresh(r)] \in [rows -> Tokens]
  BY <1>2, Zenon
<1> QED BY <1>1, <1>3

\* Appends and transactions keep the types.
LEMMA WriteTypes == ASSUME TypeOK, NEW w \in Writers, Write(w) PROVE TypeOK'
<1>0. /\ MaxEvents \in Nat
      /\ tx[w] \in Seq((1..MaxEvents) \X SUBSET Users)
      /\ \A i \in DOMAIN tx[w] : tx[w][i][1] \in 1..MaxEvents
  BY Parts
<1>e. <<>> \in Seq((1..MaxEvents) \X SUBSET Users)
  BY EmptySeq
<1> USE <1>0 DEF TypeOK, rowVars, dispatcherVars
<1>1. CASE Load(w)
  BY <1>1 DEF Load
<1>2. ASSUME NEW users \in SUBSET Users, Append_(w, users) PROVE TypeOK'
  <2>1. Sequence(w) \in 1..MaxEvents
    BY <1>2 DEF Append_
  <2>2. Append(tx[w], <<Sequence(w), users>>) \in Seq((1..MaxEvents) \X SUBSET Users)
    BY <2>1, AppendProperties
  <2>3. tx' \in [Writers -> Seq((1..MaxEvents) \X SUBSET Users)]
    BY <1>2, <2>2 DEF Append_
  <2>4. seen' \in [Writers -> {Unread} \cup 0..MaxEvents]
    BY <1>2, <2>1 DEF Append_
  <2> QED BY <1>2, <2>3, <2>4 DEF Append_
<1>3. CASE AppendRefused(w) \/ Rollback(w)
  <2>0. EndTransaction(w)
    BY <1>3 DEF AppendRefused, Rollback
  <2>1. tx' \in [Writers -> Seq((1..MaxEvents) \X SUBSET Users)]
    BY <2>0, <1>e DEF EndTransaction
  <2>2. seen' \in [Writers -> {Unread} \cup 0..MaxEvents]
    BY <1>3 DEF AppendRefused, Rollback, EndTransaction
  <2> QED BY <1>3, <2>1, <2>2 DEF AppendRefused, Rollback, EndTransaction
<1>4. CASE Commit(w)
  <2>1. tx' \in [Writers -> Seq((1..MaxEvents) \X SUBSET Users)]
    BY <1>4, <1>e DEF Commit, EndTransaction
  <2>2. seen' \in [Writers -> {Unread} \cup 0..MaxEvents]
    BY <1>4 DEF Commit, EndTransaction
  <2>3. [i \in DOMAIN tx[w] |-> tx[w][i][1]] \in Seq(1..MaxEvents)
    <3>1. Len(tx[w]) \in Nat /\ DOMAIN tx[w] = 1..Len(tx[w])
      BY LenProperties
    <3>2. [i \in DOMAIN tx[w] |-> tx[w][i][1]] \in [1..Len(tx[w]) -> 1..MaxEvents]
      BY <3>1, Zenon
    <3> QED BY <3>1, <3>2
  <2>4. log' \in Seq(1..MaxEvents)
    BY <1>4, <2>3, ConcatProperties DEF Commit
  <2>5. status' \in [Rows -> Statuses]
    BY <1>4 DEF Commit, Statuses
  <2>6. lastSequence' \in 0..MaxEvents
    <3>1. Len(tx[w]) \in DOMAIN tx[w]
      BY <1>4, EmptySeq, LenProperties DEF Commit
    <3> QED BY <1>4, <3>1 DEF Commit
  <2>7. due' \subseteq Rows
    BY <1>4 DEF Commit
  <2>8. locked' \subseteq Writers
    BY <1>4 DEF Commit, EndTransaction
  <2> QED BY <1>4, <2>1, <2>2, <2>4, <2>5, <2>6, <2>7, <2>8 DEF Commit
<1> QED BY <1>1, <1>2, <1>3, <1>4 DEF Write

\* Claims, deliveries, failures and restarts keep the types.
LEMMA DispatchTypes ==
  ASSUME TypeOK, NEW d \in Dispatchers, Dispatch(d) \/ Trouble(d) PROVE TypeOK'
<1>0. /\ MaxAttempts \in Nat /\ MaxFaults \in Nat
      /\ \A c \in batch[d] : c \in Claims /\ c.row \in Rows
      /\ pc[d] \in Handling => job[d].row \in Rows
  BY Parts
<1> USE <1>0 DEF TypeOK, writerVars, rowVars, Stages, Handling
<1>1. CASE Claim(d)
  <2>0. PICK rows \in SUBSET due : \E fresh \in [rows -> Tokens] : Mark(d, rows, fresh)
    BY <1>1, ClaimMarks
  <2>1. PICK fresh \in [rows -> Tokens] : Mark(d, rows, fresh)
    BY <2>0
  <2>2. batch' \in [Dispatchers -> SUBSET Claims]
    BY <2>1 DEF Mark, Claims
  <2>3. attempts' \in [Rows -> 0..MaxAttempts]
    BY <2>1 DEF Mark, Counted
  <2>4. token' \in [Rows -> Tokens \cup {0}]
    BY <2>1 DEF Mark
  <2>5. status' \in [Rows -> Statuses]
    BY <2>1 DEF Mark, Statuses
  <2> QED BY <1>1, <2>1, <2>2, <2>3, <2>4, <2>5 DEF Claim, Mark
<1>2. CASE Authorise(d)
  BY <1>2 DEF Authorise, Take
<1>3. CASE AuthoriserFails(d)
  BY <1>3 DEF AuthoriserFails, Take
<1>4. CASE Publish(d) \/ PublishFails(d)
  BY <1>4 DEF Publish, PublishFails
<1>5. ASSUME NEW result \in Statuses, Record(d, result) PROVE TypeOK'
  BY <1>5 DEF Record, Continue
<1>6. CASE FinishSuccess(d) \/ FinishFailure(d) \/ CancelUnauthorised(d)
  BY <1>5, <1>6 DEF FinishSuccess, FinishFailure, CancelUnauthorised, Statuses
<1>7. CASE Crash(d) \/ DatabaseError(d)
  <2>1. faults' \in 0..MaxFaults
    BY <1>7 DEF Crash, DatabaseError, Halt
  <2>2. Halt(d)
    BY <1>7 DEF Crash, DatabaseError
  <2> QED BY <2>1, <2>2 DEF Halt
<1>8. CASE Restart(d) \/ CancelFails(d)
  BY <1>8 DEF Restart, CancelFails
<1> QED BY <1>1, <1>2, <1>3, <1>4, <1>6, <1>7, <1>8 DEF Dispatch, Trouble

\* Every step of a writer or dispatcher keeps the types.
LEMMA TypeStep == ASSUME TypeOK, [Next]_vars PROVE TypeOK'
<1>1. ASSUME NEW r \in Rows, BecomesDue(r) PROVE TypeOK'
  BY <1>1 DEF BecomesDue, Due, TypeOK, writerVars, dispatcherVars
<1>4. ASSUME NEW r \in Rows, Overruns(r) PROVE TypeOK'
  BY <1>4, NumbersAssumption DEF Overruns, Due, TypeOK, writerVars, dispatcherVars
<1>2. ASSUME NEW u \in Users, ChangeAccess(u) PROVE TypeOK'
  BY <1>2 DEF ChangeAccess, TypeOK, writerVars, rowVars, dispatcherVars
<1>3. CASE UNCHANGED vars
  BY <1>3 DEF TypeOK, vars, writerVars, rowVars, dispatcherVars
<1> QED BY <1>1, <1>2, <1>3, <1>4, WriteTypes, DispatchTypes DEF Next

\* The types hold before anything is written.
LEMMA InitTypes == ASSUME Init PROVE TypeOK
<1>1. overrun \in BOOLEAN
  BY Zenon DEF Init
<1>2. pc \in [Dispatchers -> Stages] /\ \A d \in Dispatchers : pc[d] \notin Handling
  BY DEF Init, Stages, Handling
<1>3. tx \in [Writers -> Seq((1..MaxEvents) \X SUBSET Users)] /\ log \in Seq(1..MaxEvents)
  BY EmptySeq DEF Init
<1>4. /\ lastSequence \in 0..MaxEvents /\ faults \in 0..MaxFaults
      /\ seen \in [Writers -> {Unread} \cup 0..MaxEvents]
      /\ attempts \in [Rows -> 0..MaxAttempts]
  BY NumbersAssumption DEF Init
<1>5. /\ locked \subseteq Writers /\ refused \subseteq Writers /\ due \subseteq Rows
      /\ authorised \subseteq Users /\ delivered \subseteq Rows
      /\ status \in [Rows -> Statuses] /\ token \in [Rows -> Tokens \cup {0}]
  BY DEF Init, Statuses
<1>6. batch \in [Dispatchers -> SUBSET Claims] /\ job \in [Dispatchers -> Claims \cup {None}]
  BY DEF Init
<1> QED BY <1>1, <1>2, <1>3, <1>4, <1>5, <1>6 DEF TypeOK

\* Type correctness: the rows, claims and transactions of every reachable
\* state are well-formed, and a dispatcher that handles a claim has one.
THEOREM TypeCorrect == Spec => []TypeOK
<1>1. Init => TypeOK
  BY InitTypes
<1>2. TypeOK /\ [Next]_vars => TypeOK'
  BY TypeStep
<1> QED BY <1>1, <1>2, PTL DEF Spec

-----------------------------------------------------------------------------
\* Why the order holds: one writer at a time has an open transaction, and its
\* events continue the committed ones.
WritersInv ==
  /\ \A w \in Writers : tx[w] # <<>> => locked = {w} /\ seen[w] = lastSequence + Len(tx[w])
  /\ \A w \in Writers : tx[w] = <<>> => seen[w] <= lastSequence
  /\ \A w \in Writers : w \in locked => tx[w] # <<>>
  /\ \A w \in Writers : \A i \in DOMAIN tx[w] : tx[w][i][1] = lastSequence + i
  /\ SequenceOrder

\* What appending one element leaves and adds.
LEMMA OneMore ==
  ASSUME NEW S, NEW s \in Seq(S), NEW e \in S
  PROVE  /\ Append(s, e) # <<>> /\ Len(Append(s, e)) = Len(s) + 1
         /\ DOMAIN Append(s, e) = 1..(Len(s) + 1)
         /\ \A i \in 1..Len(s) : Append(s, e)[i] = s[i]
         /\ Append(s, e)[Len(s) + 1] = e
<1>1. Append(s, e) \in Seq(S) /\ Append(s, e) # <<>>
  BY AppendProperties
<1>2. Len(Append(s, e)) = Len(s) + 1
  BY AppendProperties
<1>3. DOMAIN Append(s, e) = 1..(Len(s) + 1)
  BY <1>1, <1>2, LenProperties
<1>4. \A i \in 1..Len(s) : Append(s, e)[i] = s[i]
  BY AppendProperties
<1>5. Append(s, e)[Len(s) + 1] = e
  BY AppendProperties
<1> QED BY <1>1, <1>2, <1>3, <1>4, <1>5

\* Every step keeps the lock with its owner and the open transaction next to
\* the committed counter.
LEMMA OrderStep == ASSUME TypeOK, WritersInv, [Next]_vars PROVE WritersInv'
<1>0. MaxEvents \in Nat /\ lastSequence \in Nat
  BY NumbersAssumption DEF TypeOK
<1>s. \A w \in Writers : /\ tx[w] \in Seq((1..MaxEvents) \X SUBSET Users)
                          /\ DOMAIN tx[w] = 1..Len(tx[w]) /\ Len(tx[w]) \in Nat
                          /\ seen[w] \in Int
  BY <1>0, LenProperties DEF TypeOK, Unread
<1>1. ASSUME UNCHANGED writerVars PROVE WritersInv'
  BY <1>1 DEF WritersInv, SequenceOrder, writerVars
<1>2. ASSUME NEW w \in Writers, Load(w) PROVE WritersInv'
  <2>1. tx[w] = <<>>
    BY <1>0, <1>2, <1>s DEF Load, WritersInv, Unread
  <2> QED BY <1>0, <1>2, <2>1 DEF Load, WritersInv, SequenceOrder, TypeOK
<1>3. ASSUME NEW w \in Writers, EndTransaction(w), UNCHANGED <<lastSequence, log>>
      PROVE  WritersInv'
  <2>1. \A v \in Writers : v # w => tx'[v] = tx[v] /\ seen'[v] = seen[v]
    BY <1>3 DEF EndTransaction, TypeOK
  <2>2. tx'[w] = <<>> /\ seen'[w] = -1
    BY <1>3 DEF EndTransaction, TypeOK, Unread
  <2>3. \A v \in Writers : v # w /\ tx[v] # <<>> => w \notin locked
    BY DEF WritersInv
  <2>4. locked' = locked \ {w} /\ lastSequence' = lastSequence
    BY <1>3 DEF EndTransaction
  <2>5. DOMAIN tx'[w] = {}
    BY <2>2
  <2> QED BY <1>0, <1>3, <2>1, <2>2, <2>3, <2>4, <2>5 DEF WritersInv, SequenceOrder
<1>4. ASSUME NEW w \in Writers, NEW users \in SUBSET Users, Append_(w, users)
      PROVE  WritersInv'
  <2>1. ASSUME NEW v \in Writers, v # w
        PROVE  tx[v] = <<>> /\ tx'[v] = tx[v] /\ seen'[v] = seen[v]
    <3>1. tx[v] # <<>> => locked = {v}
      BY DEF WritersInv
    <3>2. locked \subseteq {w}
      BY <1>4 DEF Append_
    <3> QED BY <1>4, <2>1, <3>1, <3>2 DEF Append_, TypeOK
  <2>2. Sequence(w) = lastSequence + Len(tx[w]) + 1
    <3>1. CASE tx[w] = <<>>
      BY <1>0, <1>4, <1>s, <3>1, EmptySeq DEF Append_, Sequence, WritersInv, Unread
    <3>2. CASE tx[w] # <<>>
      BY <1>0, <1>s, <3>2 DEF Sequence, WritersInv, Unread
    <3> QED BY <3>1, <3>2
  <2>3. <<Sequence(w), users>> \in (1..MaxEvents) \X SUBSET Users
    BY <1>0, <1>4 DEF Append_
  <2>4. /\ tx'[w] = Append(tx[w], <<Sequence(w), users>>)
        /\ seen'[w] = Sequence(w) /\ locked' = {w}
        /\ lastSequence' = lastSequence /\ log' = log
    BY <1>4 DEF Append_, TypeOK
  <2>5. /\ tx'[w] # <<>> /\ Len(tx'[w]) = Len(tx[w]) + 1
        /\ DOMAIN tx'[w] = 1..(Len(tx[w]) + 1)
        /\ \A i \in 1..Len(tx[w]) : tx'[w][i] = tx[w][i]
        /\ tx'[w][Len(tx[w]) + 1] = <<Sequence(w), users>>
    <3> DEFINE s == tx[w]
               e == <<Sequence(w), users>>
               S == (1..MaxEvents) \X SUBSET Users
    <3>1. s \in Seq(S) /\ e \in S
      BY <1>s, <2>3
    <3>2. tx'[w] = Append(s, e)
      BY <2>4
    <3> HIDE DEF s, e, S
    <3>3. /\ Append(s, e) # <<>> /\ Len(Append(s, e)) = Len(s) + 1
          /\ DOMAIN Append(s, e) = 1..(Len(s) + 1)
          /\ \A i \in 1..Len(s) : Append(s, e)[i] = s[i]
          /\ Append(s, e)[Len(s) + 1] = e
      BY <3>1, OneMore
    <3>4. /\ tx'[w] # <<>> /\ Len(tx'[w]) = Len(s) + 1
          /\ DOMAIN tx'[w] = 1..(Len(s) + 1)
          /\ \A i \in 1..Len(s) : tx'[w][i] = s[i]
          /\ tx'[w][Len(s) + 1] = e
      BY ONLY <3>2, <3>3, Zenon
    <3> QED BY <3>4 DEF s, e
  <2>6. \A i \in DOMAIN tx'[w] : tx'[w][i][1] = lastSequence' + i
    <3> SUFFICES ASSUME NEW i \in DOMAIN tx'[w] PROVE tx'[w][i][1] = lastSequence + i
      BY <2>4
    <3>1. CASE i \in 1..Len(tx[w])
      BY <1>s, <2>5, <3>1 DEF WritersInv
    <3>2. CASE i = Len(tx[w]) + 1
      BY <1>0, <1>s, <2>2, <2>5, <3>2
    <3> QED BY <1>s, <2>5, <3>1, <3>2
  <2>7. \A v \in Writers : v # w => DOMAIN tx'[v] = {} /\ tx'[v] = <<>> /\ seen'[v] <= lastSequence'
    BY <1>0, <2>1, <2>4 DEF WritersInv
  <2>8. SequenceOrder'
    BY <2>4 DEF WritersInv, SequenceOrder
  <2>9. seen'[w] = lastSequence' + Len(tx'[w])
    BY <1>0, <1>s, <2>2, <2>4, <2>5
  <2>10. \A v \in Writers : v \in locked' => tx'[v] # <<>>
    BY <2>4, <2>5
  <2>11. \A v \in Writers : tx'[v] # <<>> => locked' = {v} /\ seen'[v] = lastSequence' + Len(tx'[v])
    BY <2>4, <2>7, <2>9
  <2>12. \A v \in Writers : tx'[v] = <<>> => seen'[v] <= lastSequence'
    BY <2>5, <2>7
  <2>13. \A v \in Writers : \A i \in DOMAIN tx'[v] : tx'[v][i][1] = lastSequence' + i
    BY <2>6, <2>7
  <2> QED BY <2>8, <2>10, <2>11, <2>12, <2>13 DEF WritersInv
<1>5. ASSUME NEW w \in Writers, Commit(w) PROVE WritersInv'
  <2> DEFINE new == [i \in DOMAIN tx[w] |-> tx[w][i][1]]
  <2>0. locked = {w} /\ EndTransaction(w)
    BY <1>5 DEF Commit, WritersInv
  <2>1. /\ tx'[w] = <<>> /\ seen'[w] = -1 /\ locked' = {}
        /\ \A v \in Writers : v # w => tx[v] = <<>> /\ tx'[v] = <<>> /\ seen'[v] = seen[v]
    <3>1. tx'[w] = <<>> /\ seen'[w] = -1 /\ locked' = {}
      BY <2>0 DEF EndTransaction, TypeOK, Unread
    <3>2. ASSUME NEW v \in Writers, v # w
          PROVE  tx[v] = <<>> /\ tx'[v] = tx[v] /\ seen'[v] = seen[v]
      <4>1. tx[v] # <<>> => locked = {v}
        BY DEF WritersInv
      <4> QED BY <2>0, <3>2, <4>1 DEF EndTransaction, TypeOK
    <3> QED BY <3>1, <3>2
  <2>2. Len(tx[w]) \in DOMAIN tx[w]
    BY <1>5, <1>s, EmptySeq DEF Commit
  <2>3. lastSequence' = lastSequence + Len(tx[w])
    BY <1>5, <2>2 DEF Commit, WritersInv
  <2>4. new \in Seq(Int) /\ Len(new) = Len(tx[w]) /\ \A i \in 1..Len(new) : new[i] = lastSequence + i
    <3>1. new = [i \in 1..Len(tx[w]) |-> lastSequence + i]
      BY <1>s, Zenon DEF WritersInv
    <3>2. \A i \in 1..Len(tx[w]) : lastSequence + i \in Int
      BY <1>0, <1>s
    <3> HIDE DEF new
    <3> QED BY <1>s, <3>1, <3>2
  <2>5. log \in Seq(Int) /\ Len(log) = lastSequence /\ \A i \in 1..Len(log) : log[i] = i
    BY <1>0 DEF WritersInv, SequenceOrder
  <2>6. log' = log \o new
    BY <1>5 DEF Commit
  <2> HIDE DEF new
  <2>7. /\ log' \in Seq(Int) /\ Len(log') = lastSequence'
        /\ \A i \in 1..lastSequence' : log'[i] = i
    <3>1. log' \in Seq(Int) /\ Len(log') = Len(log) + Len(new)
      BY <2>4, <2>5, <2>6, ConcatProperties
    <3>2. ASSUME NEW i \in 1..(Len(log) + Len(new)) PROVE log'[i] = i
      <4>1. log'[i] = IF i <= Len(log) THEN log[i] ELSE new[i - Len(log)]
        BY <2>4, <2>5, <2>6, ConcatProperties
      <4>2. Len(new) \in Nat
        BY <1>s, <2>4
      <4> QED BY <1>0, <2>4, <2>5, <4>1, <4>2
    <3> QED BY <2>3, <2>4, <2>5, <3>1, <3>2
  <2>8. SequenceOrder'
    <3>1. log' = [i \in 1..Len(log') |-> log'[i]]
      BY <2>7, LenProperties
    <3> QED BY <2>7, <3>1 DEF SequenceOrder
  <2>9. \A v \in Writers : seen'[v] <= lastSequence' /\ tx'[v] = <<>> /\ DOMAIN tx'[v] = {}
    BY <1>0, <1>s, <2>1, <2>3 DEF WritersInv
  <2> QED BY <2>1, <2>8, <2>9 DEF WritersInv
<1>6. ASSUME NEW w \in Writers, Write(w) PROVE WritersInv'
  BY <1>2, <1>3, <1>4, <1>5, <1>6 DEF Write, AppendRefused, Rollback
<1>7. \/ \E r \in Rows : BecomesDue(r) \/ Overruns(r)
      \/ \E u \in Users : ChangeAccess(u)
      => UNCHANGED writerVars
  BY DEF BecomesDue, Overruns, Due, ChangeAccess
<1>8. ASSUME NEW d \in Dispatchers, Dispatch(d) \/ Trouble(d) PROVE UNCHANGED writerVars
  BY <1>8, Zenon DEF Dispatch, Trouble, Claim, Authorise, AuthoriserFails, Take, Publish, PublishFails,
     FinishSuccess, FinishFailure, CancelUnauthorised, Record, Continue, CancelFails, Crash,
     DatabaseError, Halt, Restart
<1> QED BY <1>1, <1>6, <1>7, <1>8 DEF Next, vars

\* The committed sequences are exactly 1, 2, 3, ... in that order, for every
\* interleaving of appends, commits and rollbacks.
THEOREM OrderedWithoutGaps == Spec => []SequenceOrder
<1>1. Init => WritersInv
  BY NumbersAssumption DEF Init, WritersInv, SequenceOrder, Unread
<1>2. TypeOK /\ WritersInv /\ [Next]_vars => WritersInv'
  BY OrderStep
<1>3. WritersInv => SequenceOrder
  BY DEF WritersInv
<1> QED BY <1>1, <1>2, <1>3, TypeCorrect, PTL DEF Spec

-----------------------------------------------------------------------------
\* Why delivery is at least once: rows exist only for committed events, a due
\* row is open, and a success is reported only for a row that was sent.
DeliveryInv ==
  /\ \A r \in Rows : status[r] # "absent" => r[1] <= lastSequence
  /\ \A r \in due : status[r] \in {"pending", "claimed"}
  /\ \A d \in Dispatchers : \A c \in batch[d] : status[c.row] # "absent"
  /\ \A d \in Dispatchers : pc[d] \in Handling => status[job[d].row] # "absent"
  /\ \A d \in Dispatchers : pc[d] = "succeed" => job[d].row \in delivered

IInv == TypeOK /\ WritersInv /\ DeliveryInv

\* A commit opens rows that were absent, and nothing else.
LEMMA CommitMaps ==
  ASSUME IInv, NEW w \in Writers, Commit(w)
  PROVE  DeliveryInv' /\ \E new \in SUBSET Rows : Abs!Commit(new)
<1> DEFINE new == {r \in Rows : \E i \in DOMAIN tx[w] : r[1] = tx[w][i][1] /\ r[2] \in tx[w][i][2]}
<1>0. /\ lastSequence \in Nat /\ DOMAIN tx[w] = 1..Len(tx[w]) /\ Len(tx[w]) \in Nat
      /\ \A r \in Rows : r[1] \in Nat
  BY NumbersAssumption, LenProperties DEF IInv, TypeOK, Rows
<1>1. \A r \in new : r[1] > lastSequence /\ r[1] <= lastSequence + Len(tx[w])
  BY <1>0 DEF IInv, WritersInv
<1>2. Len(tx[w]) \in DOMAIN tx[w]
  BY <1>0, EmptySeq DEF Commit, IInv, TypeOK
<1>3. lastSequence' = lastSequence + Len(tx[w])
  BY <1>2 DEF Commit, IInv, WritersInv
<1>4. \A r \in new : status[r] = "absent"
  BY <1>0, <1>1 DEF IInv, DeliveryInv
<1>5. /\ status' = [r \in Rows |-> IF r \in new THEN "pending" ELSE status[r]]
      /\ due' = due \cup new
      /\ UNCHANGED <<dispatcherVars, delivered>>
  BY DEF Commit
<1> HIDE DEF new
<1>6. new \subseteq Rows
  BY DEF new
<1>7. Abs!Commit(new)
  <2>1. \A r \in new : Outcome[r] = "absent"
    BY <1>4, <1>6 DEF Outcome
  <2>2. Outcome' = [r \in Rows |-> IF r \in new THEN "open" ELSE Outcome[r]]
    BY <1>5 DEF Outcome
  <2> QED BY <1>5, <2>1, <2>2 DEF Abs!Commit
<1>8. \A r \in Rows : status'[r] # "absent" => r[1] <= lastSequence'
  BY <1>0, <1>1, <1>3, <1>5 DEF IInv, DeliveryInv
<1>9. \A r \in Rows : status[r] # "absent" => status'[r] # "absent"
  BY <1>5
<1>10. \A d \in Dispatchers : \A c \in batch[d] : c.row \in Rows
  BY Parts DEF IInv
<1>11. \A d \in Dispatchers : pc[d] \in Handling => job[d].row \in Rows
  BY Parts DEF IInv
<1>12. \A r \in due' : status'[r] \in {"pending", "claimed"}
  BY <1>5, <1>6 DEF IInv, DeliveryInv, TypeOK
<1>13. DeliveryInv'
  BY <1>5, <1>8, <1>9, <1>10, <1>11, <1>12 DEF IInv, DeliveryInv, dispatcherVars
<1> QED BY <1>6, <1>7, <1>13

\* Claims, and the stages of a delivery up to its result.
LEMMA HandlingMaps ==
  ASSUME IInv, NEW d \in Dispatchers,
         \/ Claim(d) \/ Authorise(d) \/ AuthoriserFails(d) \/ Publish(d) \/ PublishFails(d)
         \/ CancelFails(d) \/ Crash(d) \/ DatabaseError(d) \/ Restart(d)
  PROVE  DeliveryInv' /\ [Abs!ANext]_(Abs!avars)
<1>0. /\ \A e \in Dispatchers : \A c \in batch[e] : c.row \in Rows
      /\ \A e \in Dispatchers : pc[e] \in Handling => job[e].row \in Rows
  BY Parts DEF IInv
<1> USE DEF IInv, DeliveryInv, TypeOK, Handling
<1>1. CASE Claim(d)
  <2>1. PICK rows \in SUBSET due : \E fresh \in [rows -> Tokens] : Mark(d, rows, fresh)
    BY <1>1, ClaimMarks
  <2>2. PICK fresh \in [rows -> Tokens] : Mark(d, rows, fresh)
    BY <2>1
  <2>3. \A r \in rows : r \in Rows /\ status[r] \in {"pending", "claimed"}
    OBVIOUS
  <2>4. \A r \in Rows : status'[r] = IF r \in rows THEN "claimed" ELSE status[r]
    BY <2>2 DEF Mark
  <2>5. Outcome' = Outcome
    BY <2>3, <2>4 DEF Outcome
  <2>6. UNCHANGED <<lastSequence, job, delivered>> /\ pc' = [pc EXCEPT ![d] = "next"]
    BY <1>1 DEF Claim, writerVars
  <2>7. \A r \in due' : status'[r] \in {"pending", "claimed"}
    BY <2>2, <2>4 DEF Mark
  <2>8. ASSUME NEW e \in Dispatchers, NEW c \in batch'[e] PROVE status'[c.row] # "absent"
    <3>1. CASE e = d
      <4>1. batch'[d] = {[row |-> r, token |-> fresh[r]] : r \in rows}
        BY <2>2 DEF Mark
      <4> QED BY <2>3, <2>4, <2>8, <3>1, <4>1
    <3>2. CASE e # d
      BY <1>0, <2>2, <2>4, <2>8, <3>2 DEF Mark
    <3> QED BY <3>1, <3>2
  <2>9. \A e \in Dispatchers : pc'[e] \in Handling => pc[e] \in Handling /\ pc'[e] = pc[e]
    BY <2>6
  <2>10. DeliveryInv'
    BY <1>0, <2>4, <2>6, <2>7, <2>8, <2>9
  <2> QED BY <2>5, <2>6, <2>10 DEF Abs!avars
<1>2. CASE Authorise(d) \/ AuthoriserFails(d)
  <2>1. PICK c \in batch[d] : \E stage \in {"publish", "cancel", "fail"} : Take(d, c, stage)
    BY <1>2 DEF Authorise, AuthoriserFails
  <2>2. UNCHANGED <<writerVars, rowVars, delivered>>
    BY <2>1 DEF Take
  <2>3. DeliveryInv'
    BY <2>1, <2>2 DEF Take, writerVars, rowVars
  <2> QED BY <2>2, <2>3 DEF Abs!avars, Outcome, rowVars
<1>3. CASE Publish(d) \/ PublishFails(d)
  <2>1. job[d].row \in Rows /\ status[job[d].row] # "absent"
    BY <1>0, <1>3 DEF Publish, PublishFails
  <2>2. UNCHANGED <<writerVars, rowVars, batch, job>>
    BY <1>3 DEF Publish, PublishFails
  <2>3. DeliveryInv'
    BY <1>3, <2>2 DEF Publish, PublishFails, writerVars, rowVars
  <2>4. Outcome' = Outcome /\ Outcome[job[d].row] # "absent"
    BY <2>1, <2>2 DEF Outcome, rowVars
  <2>5. delivered' = delivered \/ delivered' = delivered \cup {job[d].row}
    BY <1>3 DEF Publish, PublishFails
  <2> QED BY <2>1, <2>3, <2>4, <2>5 DEF Abs!avars, Abs!ANext, Abs!Deliver
<1>4. CASE CancelFails(d) \/ Crash(d) \/ DatabaseError(d) \/ Restart(d)
  <2>1. UNCHANGED <<writerVars, rowVars, delivered>>
    BY <1>4 DEF CancelFails, Crash, DatabaseError, Restart, Halt
  <2>2. DeliveryInv'
    BY <1>4, <2>1 DEF CancelFails, Crash, DatabaseError, Restart, Halt, writerVars, rowVars
  <2> QED BY <2>1, <2>2 DEF Abs!avars, Outcome, rowVars
<1> QED BY <1>1, <1>2, <1>3, <1>4

\* A result settles or reopens the row only under the claim's token.
LEMMA ResultMaps ==
  ASSUME IInv, NEW d \in Dispatchers,
         FinishSuccess(d) \/ FinishFailure(d) \/ CancelUnauthorised(d)
  PROVE  DeliveryInv' /\ [Abs!ANext]_(Abs!avars)
<1> DEFINE row == job[d].row
<1>0. /\ \A e \in Dispatchers : \A c \in batch[e] : c.row \in Rows
      /\ \A e \in Dispatchers : pc[e] \in Handling => job[e].row \in Rows
  BY Parts DEF IInv
<1>1. row \in Rows /\ pc[d] \in Handling
  BY <1>0 DEF FinishSuccess, FinishFailure, CancelUnauthorised, Handling
<1>2. PICK result \in {"published", "failed", "pending", "cancelled"} :
        Record(d, result) /\ (result = "published" => row \in delivered)
  BY DEF FinishSuccess, FinishFailure, CancelUnauthorised, IInv, DeliveryInv
<1> HIDE DEF row
<1>3. /\ UNCHANGED <<lastSequence, batch, delivered>>
      /\ pc' \in [Dispatchers -> Stages]
      /\ pc'[d] \notin Handling
      /\ \A e \in Dispatchers : e # d => pc'[e] = pc[e] /\ job'[e] = job[e]
  BY <1>2 DEF Record, Continue, writerVars, IInv, TypeOK, Handling, Stages
<1>4. CASE Owns(job[d])
  <2>1. /\ status' = [status EXCEPT ![row] = result] /\ due' = due \ {row}
        /\ status[row] = "claimed"
    BY <1>2, <1>4 DEF Record, Owns, row
  <2>2. \A r \in Rows : status[r] # "absent" => status'[r] # "absent"
    BY <1>1, <2>1 DEF IInv, TypeOK
  <2>3. \A r \in Rows : status'[r] # "absent" => status[r] # "absent"
    BY <1>1, <2>1 DEF IInv, TypeOK
  <2>4. \A r \in due' : status'[r] \in {"pending", "claimed"}
    BY <1>1, <2>1 DEF IInv, TypeOK, DeliveryInv
  <2>5. DeliveryInv'
    BY <1>0, <1>3, <2>2, <2>3, <2>4 DEF IInv, DeliveryInv, Handling
  <2>6. CASE result = "pending"
    BY <1>1, <1>3, <2>1, <2>5, <2>6 DEF Abs!avars, Outcome, IInv, TypeOK
  <2>7. CASE result # "pending"
    <3>1. Outcome[row] = "open" /\ Outcome' = [Outcome EXCEPT ![row] = result]
      BY <1>1, <2>1, <2>7 DEF Outcome, IInv, TypeOK
    <3>2. Abs!Settle(row, result) /\ result \in Abs!Settlements
      BY <1>2, <1>3, <2>7, <3>1 DEF Abs!Settle, Abs!Settlements
    <3> QED BY <1>1, <2>5, <3>2 DEF Abs!ANext
  <2> QED BY <2>6, <2>7
<1>5. CASE ~Owns(job[d])
  <2>1. UNCHANGED <<status, due>>
    BY <1>2, <1>5 DEF Record
  <2>2. DeliveryInv'
    BY <1>3, <2>1 DEF IInv, DeliveryInv, Handling
  <2> QED BY <1>3, <2>1, <2>2 DEF Abs!avars, Outcome
<1> QED BY <1>4, <1>5

\* Every step keeps what dispatchers hold and is a step of ActivityDelivery,
\* or none.
LEMMA DeliveryStep == ASSUME IInv, [Next]_vars PROVE DeliveryInv' /\ [Abs!ANext]_(Abs!avars)
<1>1. ASSUME UNCHANGED <<lastSequence, rowVars, dispatcherVars, delivered>>
      PROVE  DeliveryInv' /\ UNCHANGED Abs!avars
  BY <1>1 DEF rowVars, dispatcherVars, IInv, DeliveryInv, Abs!avars, Outcome
<1>2. ASSUME NEW w \in Writers, Write(w) PROVE DeliveryInv' /\ [Abs!ANext]_(Abs!avars)
  <2>1. CASE Commit(w)
    BY <2>1, CommitMaps DEF Abs!ANext
  <2>2. CASE ~Commit(w)
    BY <1>1, <1>2, <2>2 DEF Write, Load, Append_, AppendRefused, Rollback
  <2> QED BY <2>1, <2>2
<1>3. ASSUME NEW r \in Rows, BecomesDue(r) \/ Overruns(r) PROVE DeliveryInv' /\ UNCHANGED Abs!avars
  BY <1>3 DEF BecomesDue, Overruns, Due, writerVars, dispatcherVars, IInv, DeliveryInv, Abs!avars, Outcome
<1>4. ASSUME NEW u \in Users, ChangeAccess(u) PROVE DeliveryInv' /\ UNCHANGED Abs!avars
  BY <1>1, <1>4 DEF ChangeAccess, writerVars
<1>5. ASSUME NEW d \in Dispatchers, Dispatch(d) \/ Trouble(d)
      PROVE  DeliveryInv' /\ [Abs!ANext]_(Abs!avars)
  BY <1>5, HandlingMaps, ResultMaps DEF Dispatch, Trouble
<1>6. CASE UNCHANGED vars
  BY <1>1, <1>6 DEF vars, writerVars
<1> QED BY <1>2, <1>3, <1>4, <1>5, <1>6 DEF Next

\* The invariants of the writers and of the dispatchers hold together.
LEMMA Invariance == Spec => []IInv
<1>1. Init => IInv
  <2>1. Init => WritersInv
    BY NumbersAssumption DEF Init, WritersInv, SequenceOrder, Unread
  <2>2. Init => DeliveryInv
    BY DEF Init, DeliveryInv, Handling
  <2>3. Init => TypeOK
    BY InitTypes
  <2> QED BY <2>1, <2>2, <2>3 DEF IInv
<1>2. IInv /\ [Next]_vars => IInv'
  BY TypeStep, OrderStep, DeliveryStep DEF IInv
<1> QED BY <1>1, <1>2, PTL DEF Spec

\* Any number of dispatchers that crash, lose claims and take them over
\* implement at-least-once delivery: a row counts as published only after a
\* copy was sent, and what is settled is never opened or settled again.
THEOREM OutboxDelivers == Spec => DeliversAtLeastOnce
<1>1. Init => Abs!AInit
  BY DEF Init, Abs!AInit, Outcome
<1>2. IInv /\ [Next]_vars => [Abs!ANext]_(Abs!avars)
  BY DeliveryStep
<1> QED BY <1>1, <1>2, Invariance, PTL DEF Spec, DeliversAtLeastOnce, Abs!ASpec

\* No notification is given up before its last attempt, whoever counted the
\* attempts of the claims that were lost.
THEOREM NothingGivenUpEarly == Spec => []FailedAfterAllAttempts
<1>1. Init => FailedAfterAllAttempts
  BY DEF Init, FailedAfterAllAttempts
<1>2. ASSUME IInv, FailedAfterAllAttempts, [Next]_vars PROVE FailedAfterAllAttempts'
  <2> USE <1>2 DEF FailedAfterAllAttempts
  <2>1. ASSUME UNCHANGED <<status, attempts>> PROVE FailedAfterAllAttempts'
    BY <2>1
  <2>2. ASSUME NEW w \in Writers, Write(w) PROVE FailedAfterAllAttempts'
    <3>1. CASE Commit(w)
      BY <3>1 DEF Commit
    <3>2. CASE ~Commit(w)
      BY <2>1, <2>2, <3>2 DEF Write, Load, Append_, AppendRefused, Rollback, rowVars
    <3> QED BY <3>1, <3>2
  <2>3. ASSUME NEW d \in Dispatchers, Claim(d) PROVE FailedAfterAllAttempts'
    <3>1. PICK rows \in SUBSET due : \E fresh \in [rows -> Tokens] : Mark(d, rows, fresh)
      BY <2>3, ClaimMarks
    <3> QED BY <3>1 DEF Mark
  <2>4. ASSUME NEW d \in Dispatchers, NEW result \in Statuses, Record(d, result),
               result = "failed" => Exhausted(job[d].row)
        PROVE  FailedAfterAllAttempts'
    <3>1. attempts' = attempts /\ MaxAttempts \in Nat
      BY <2>4, NumbersAssumption DEF Record, Continue
    <3>2. status' = status \/ status' = [status EXCEPT ![job[d].row] = result]
      BY <2>4 DEF Record
    <3> QED BY <2>4, <3>1, <3>2 DEF Exhausted, IInv, TypeOK
  <2>5. ASSUME NEW d \in Dispatchers, Dispatch(d) \/ Trouble(d) PROVE FailedAfterAllAttempts'
    <3>1. CASE FinishSuccess(d) \/ FinishFailure(d) \/ CancelUnauthorised(d)
      BY <2>4, <3>1 DEF FinishSuccess, FinishFailure, CancelUnauthorised, Statuses
    <3>2. CASE Claim(d)
      BY <2>3, <3>2
    <3>3. CASE ~Claim(d) /\ ~FinishSuccess(d) /\ ~FinishFailure(d) /\ ~CancelUnauthorised(d)
      BY <2>1, <2>5, <3>3 DEF Dispatch, Trouble, Authorise, AuthoriserFails, Take, Publish,
         PublishFails, CancelFails, Crash, DatabaseError, Halt, Restart, rowVars
    <3> QED BY <3>1, <3>2, <3>3
  <2>6. CASE UNCHANGED vars
    BY <2>1, <2>6 DEF vars, rowVars
  <2> QED BY <1>2, <2>1, <2>2, <2>5, <2>6 DEF Next, BecomesDue, Overruns, Due, ChangeAccess, rowVars
<1> QED BY <1>1, <1>2, Invariance, PTL DEF Spec

-----------------------------------------------------------------------------
\* Why one dispatcher handles a row as long as claims outlive their handling: what a
\* dispatcher holds is claimed under its token and is not due, so nobody else
\* can claim it.
SoleInv ==
  ~overrun =>
    /\ \A d \in Dispatchers : \A c \in Held(d) : c # None => Owns(c) /\ c.row \notin due
    /\ \A d \in Dispatchers : job[d] # None => job[d] \notin batch[d]
    /\ SoleHandler

\* What dispatchers hold are claims of rows.
LEMMA HeldTypes ==
  ASSUME TypeOK, NEW d \in Dispatchers, NEW c \in Held(d)
  PROVE  /\ c = None \/ c \in Claims
         /\ c # None => c.row \in Rows /\ c.row # None.row
         /\ c \in batch[d] => c # None
<1>1. \A b \in Claims : b.row \in Rows /\ b.row # None.row
  BY NumbersAssumption DEF Claims, Rows, None
<1> QED BY <1>1 DEF TypeOK, Held

\* Two claims under one token of a row are the same claim.
LEMMA SameClaim ==
  ASSUME NEW c \in Claims, NEW b \in Claims, c.row = b.row, c.token = b.token
  PROVE  c = b
BY DEF Claims

\* Holding less, of rows that stay as they are, keeps the invariant.
LEMMA FewerHeld ==
  ASSUME TypeOK, SoleInv, UNCHANGED <<status, token, due, overrun>>,
         \A d \in Dispatchers : Held(d)' \subseteq Held(d) \cup {None},
         \A d \in Dispatchers : job'[d] # None => job'[d] \notin batch'[d]
  PROVE  SoleInv'
<1> SUFFICES ASSUME ~overrun PROVE SoleInv'
  BY DEF SoleInv
<1>1. \A d \in Dispatchers : \A c \in Held(d) : c # None => c.row # None.row
  BY HeldTypes
<1>2. \A d \in Dispatchers : \A c \in Held(d)' : c # None => c \in Held(d)
  OBVIOUS
<1>3. \A d \in Dispatchers : \A c \in Held(d)' : c # None => Owns(c)' /\ c.row \notin due'
  BY <1>2 DEF SoleInv, Owns
<1>4. SoleHandler'
  <2> SUFFICES ASSUME NEW d \in Dispatchers, NEW e \in Dispatchers, d # e,
                      NEW c \in Held(d)', NEW b \in Held(e)', c.row = b.row, c # None
               PROVE  FALSE
    BY DEF SoleHandler, Held
  <2>1. c \in Held(d) /\ c.row # None.row
    BY <1>1, <1>2
  <2>2. b \in Held(e)
    BY <1>2, <2>1
  <2> QED BY <2>1, <2>2 DEF SoleInv, SoleHandler, Held
<1> QED BY <1>3, <1>4 DEF SoleInv

\* A commit leaves the rows that existed alone.
LEMMA CommitKeeps ==
  ASSUME IInv, NEW w \in Writers, Commit(w), NEW r \in Rows, status[r] # "absent"
  PROVE  status'[r] = status[r] /\ (r \in due' => r \in due)
<1> DEFINE new == {q \in Rows : \E i \in DOMAIN tx[w] : q[1] = tx[w][i][1] /\ q[2] \in tx[w][i][2]}
<1>1. /\ lastSequence \in Nat /\ DOMAIN tx[w] = 1..Len(tx[w]) /\ Len(tx[w]) \in Nat
      /\ \A q \in Rows : q[1] \in Nat
  BY NumbersAssumption, LenProperties DEF IInv, TypeOK, Rows
<1>2. \A q \in new : q[1] > lastSequence
  BY <1>1 DEF IInv, WritersInv
<1>3. r \notin new
  BY <1>1, <1>2 DEF IInv, DeliveryInv
<1>4. /\ status' = [q \in Rows |-> IF q \in new THEN "pending" ELSE status[q]]
      /\ due' = due \cup new
  BY DEF Commit
<1> QED BY <1>3, <1>4

\* A new claim takes rows that were due, which nobody holds.
LEMMA ClaimIsSole ==
  ASSUME TypeOK, SoleInv, ~overrun, NEW d \in Dispatchers, Claim(d)
  PROVE  SoleInv'
<1>1. PICK rows \in SUBSET due : \E fresh \in [rows -> Tokens] : Mark(d, rows, fresh)
  BY ClaimMarks
<1>2. PICK fresh \in [rows -> Tokens] : Mark(d, rows, fresh)
  BY <1>1
<1>3. /\ status' = [r \in Rows |-> IF r \in rows THEN "claimed" ELSE status[r]]
      /\ token' = [r \in Rows |-> IF r \in rows THEN fresh[r] ELSE token[r]]
      /\ batch' = [batch EXCEPT ![d] = {[row |-> r, token |-> fresh[r]] : r \in rows}]
      /\ due' = due \ rows /\ job' = job
  BY <1>2 DEF Mark, Claim
<1>4. rows \subseteq Rows
  BY DEF TypeOK
<1>5. ASSUME NEW e \in Dispatchers, NEW c \in Held(e)', c # None
      PROVE  \/ e = d /\ c.row \in rows /\ c.token = fresh[c.row] /\ c \in batch'[d]
             \/ c \in Held(e) /\ c.row \notin rows /\ c.row \in Rows
  <2>1. CASE e = d /\ c \in batch'[d]
    <3>1. PICK r \in rows : c = [row |-> r, token |-> fresh[r]]
      BY <1>3, <2>1 DEF TypeOK
    <3> QED BY <2>1, <3>1
  <2>2. CASE ~(e = d /\ c \in batch'[d])
    <3>1. c \in Held(e)
      BY <1>3, <1>5, <2>2 DEF Held, TypeOK
    <3>2. c.row \notin due /\ c.row \in Rows
      BY <1>5, <3>1, HeldTypes DEF SoleInv
    <3> QED BY <3>1, <3>2
  <2> QED BY <2>1, <2>2
<1>6. ASSUME NEW e \in Dispatchers, NEW c \in Held(e)', c # None
      PROVE  Owns(c)' /\ c.row \notin due'
  <2>1. CASE c.row \in rows /\ c.token = fresh[c.row]
    BY <1>3, <1>4, <2>1 DEF Owns
  <2>2. CASE c \in Held(e) /\ c.row \notin rows /\ c.row \in Rows
    BY <1>3, <1>6, <2>2 DEF Owns, SoleInv
  <2> QED BY <1>5, <1>6, <2>1, <2>2
<1>7. ASSUME NEW e \in Dispatchers, job'[e] # None PROVE job'[e] \notin batch'[e]
  <2>1. CASE e = d
    <3>1. job[d] \in Held(d) /\ job[d] # None
      BY <1>3, <1>7, <2>1 DEF Held
    <3>2. job[d].row \notin due
      BY <3>1 DEF SoleInv
    <3>3. \A c \in batch'[d] : c.row \in rows
      BY <1>3 DEF TypeOK
    <3> QED BY <1>3, <2>1, <3>2, <3>3
  <2>2. CASE e # d
    BY <1>3, <1>7, <2>2 DEF SoleInv, TypeOK
  <2> QED BY <2>1, <2>2
<1>8. SoleHandler'
  <2> SUFFICES ASSUME NEW e \in Dispatchers, NEW f \in Dispatchers, e # f,
                      NEW c \in Held(e)', NEW b \in Held(f)', c.row = b.row, c # None
               PROVE  FALSE
    BY DEF SoleHandler, Held
  <2>1. b = None \/ c.row \in rows \/ (c \in Held(e) /\ c.row \in Rows)
    BY <1>5
  <2>2. c.row \in Rows
    BY <1>4, <1>5
  <2>3. b # None
    BY <2>2, NumbersAssumption DEF Rows, None
  <2>4. c \in Held(e) /\ b \in Held(f)
    BY <1>5, <2>3
  <2> QED BY <2>4 DEF SoleInv, SoleHandler, Held
<1> QED BY <1>6, <1>7, <1>8 DEF SoleInv

\* A result changes the row of the claim it ends, which nobody else holds.
LEMMA ResultIsSole ==
  ASSUME TypeOK, SoleInv, ~overrun, NEW d \in Dispatchers, pc[d] \in Handling,
         NEW result, Record(d, result)
  PROVE  SoleInv'
<1> DEFINE own == job[d]
<1>1. own \in Claims /\ own \in Held(d) /\ own # None
  <2>1. job[d] \in Claims
    BY DEF TypeOK
  <2> QED BY <2>1, NumbersAssumption DEF Held, Claims, None, Rows
<1>2. Owns(own)
  BY <1>1 DEF SoleInv
<1>3. /\ status' = [status EXCEPT ![own.row] = result]
      /\ token' = [token EXCEPT ![own.row] = 0]
      /\ due' = due \ {own.row}
      /\ job' = [job EXCEPT ![d] = None] /\ batch' = batch
  BY <1>2 DEF Record, Continue
<1> HIDE DEF own
<1>4. ASSUME NEW e \in Dispatchers, NEW c \in Held(e)', c # None
      PROVE  c \in Held(e) /\ c.row # own.row
  <2>1. c \in Held(e) /\ (e = d => c \in batch[d])
    BY <1>3, <1>4 DEF Held, TypeOK
  <2>2. CASE e # d
    BY <1>1, <1>4, <2>1, <2>2 DEF SoleInv, SoleHandler, Held
  <2>3. CASE e = d
    <3>1. c \in Claims /\ Owns(c) /\ own \notin batch[d]
      BY <1>1, <1>4, <2>1, <2>3, HeldTypes DEF SoleInv, own
    <3>2. c.row = own.row => c = own
      BY <1>1, <1>2, <3>1, SameClaim DEF Owns
    <3> QED BY <2>1, <2>3, <3>1, <3>2
  <2> QED BY <2>2, <2>3
<1>5. ASSUME NEW e \in Dispatchers, NEW c \in Held(e)', c # None
      PROVE  Owns(c)' /\ c.row \notin due'
  <2>1. c \in Held(e) /\ c.row # own.row /\ Owns(c) /\ c.row \notin due
    BY <1>4, <1>5 DEF SoleInv
  <2> QED BY <1>3, <2>1 DEF Owns, TypeOK
<1>6. \A e \in Dispatchers : job'[e] # None => job'[e] \notin batch'[e]
  BY <1>3 DEF SoleInv, TypeOK
<1>7. SoleHandler'
  <2> SUFFICES ASSUME NEW e \in Dispatchers, NEW f \in Dispatchers, e # f,
                      NEW c \in Held(e)', NEW b \in Held(f)', c.row = b.row, c # None
               PROVE  FALSE
    BY DEF SoleHandler, Held
  <2>1. c \in Held(e) /\ c.row # None.row
    BY <1>4, HeldTypes
  <2>2. b \in Held(f)
    BY <1>4, <2>1
  <2> QED BY <2>1, <2>2 DEF SoleInv, SoleHandler, Held
<1> QED BY <1>5, <1>6, <1>7 DEF SoleInv

\* Every step keeps what dispatchers hold apart.
LEMMA SoleStep == ASSUME IInv, SoleInv, [Next]_vars PROVE SoleInv'
<1> SUFFICES ASSUME ~overrun' PROVE SoleInv'
  BY DEF SoleInv
<1>0. TypeOK
  BY DEF IInv
<1>o. ~overrun
  <2>1. CASE \E w \in Writers : Write(w)
    BY <2>1 DEF Write, Load, Append_, AppendRefused, Commit, Rollback
  <2>2. CASE \E r \in Rows : BecomesDue(r) \/ Overruns(r)
    BY <2>2 DEF BecomesDue, Overruns
  <2>3. CASE \E u \in Users : ChangeAccess(u)
    BY <2>3 DEF ChangeAccess
  <2>4. CASE \E d \in Dispatchers : Dispatch(d) \/ Trouble(d)
    BY <2>4, Zenon DEF Dispatch, Trouble, Claim, Authorise, AuthoriserFails, Take, Publish,
       PublishFails, FinishSuccess, FinishFailure, CancelUnauthorised, Record, Continue,
       CancelFails, Crash, DatabaseError, Halt, Restart
  <2> QED BY <2>1, <2>2, <2>3, <2>4 DEF Next, vars
<1>1. ASSUME UNCHANGED <<status, token, due, batch, job>> PROVE SoleInv'
  BY <1>1, <1>o DEF SoleInv, SoleHandler, Held, Owns
<1>2. ASSUME NEW w \in Writers, Write(w) PROVE SoleInv'
  <2>1. CASE Commit(w)
    <3>1. UNCHANGED <<token, batch, job>>
      BY <2>1 DEF Commit, dispatcherVars
    <3>2. ASSUME NEW d \in Dispatchers, NEW c \in Held(d), c # None
          PROVE  Owns(c)' /\ c.row \notin due'
      <4>1. c.row \in Rows /\ Owns(c) /\ c.row \notin due
        BY <1>o, <1>0, <3>2, HeldTypes DEF SoleInv
      <4>2. status'[c.row] = status[c.row] /\ c.row \notin due'
        BY <2>1, <4>1, CommitKeeps DEF Owns
      <4> QED BY <3>1, <4>1, <4>2 DEF Owns
    <3> QED BY <1>o, <3>1, <3>2 DEF SoleInv, SoleHandler, Held
  <2>2. CASE ~Commit(w)
    BY <1>1, <1>2, <2>2 DEF Write, Load, Append_, AppendRefused, Rollback, rowVars, dispatcherVars
  <2> QED BY <2>1, <2>2
<1>3. ASSUME NEW r \in Rows, BecomesDue(r) PROVE SoleInv'
  <2>1. UNCHANGED <<status, token, batch, job>> /\ due' = due \cup {r}
    BY <1>3 DEF BecomesDue, Due, dispatcherVars
  <2>2. ASSUME NEW d \in Dispatchers, NEW c \in Held(d), c # None PROVE c.row # r
    <3>1. Owns(c)
      BY <1>o, <2>2 DEF SoleInv
    <3>2. c.row = r => Handled(r)
      BY <3>1 DEF Handled, Owns
    <3> QED BY <1>3, <3>1, <3>2 DEF BecomesDue, Owns
  <2> QED BY <1>o, <2>1, <2>2 DEF SoleInv, SoleHandler, Held, Owns
<1>4. ASSUME NEW d \in Dispatchers, Dispatch(d) \/ Trouble(d) PROVE SoleInv'
  <2>1. CASE Claim(d)
    BY <1>0, <2>1, <1>o, ClaimIsSole
  <2>2. CASE Authorise(d) \/ AuthoriserFails(d)
    <3>1. PICK c \in batch[d] : \E stage \in {"publish", "cancel", "fail"} : Take(d, c, stage)
      BY <2>2 DEF Authorise, AuthoriserFails
    <3>2. /\ job' = [job EXCEPT ![d] = c] /\ batch' = [batch EXCEPT ![d] = @ \ {c}]
          /\ UNCHANGED <<status, token, due, overrun>>
      BY <3>1 DEF Take, rowVars
    <3>3. \A e \in Dispatchers : Held(e)' \subseteq Held(e) \cup {None}
      BY <1>0, <3>2 DEF Held, TypeOK
    <3>4. \A e \in Dispatchers : job'[e] # None => job'[e] \notin batch'[e]
      BY <1>o, <1>0, <3>2 DEF SoleInv, TypeOK
    <3> QED BY <1>0, <1>o, <3>2, <3>3, <3>4, FewerHeld
  <2>3. CASE FinishSuccess(d) \/ FinishFailure(d) \/ CancelUnauthorised(d)
    BY <1>0, <2>3, <1>o, ResultIsSole DEF FinishSuccess, FinishFailure, CancelUnauthorised, Handling
  <2>4. CASE Publish(d) \/ PublishFails(d) \/ CancelFails(d) \/ Restart(d)
    BY <1>1, <2>4 DEF Publish, PublishFails, CancelFails, Restart, rowVars
  <2>5. CASE Crash(d) \/ DatabaseError(d)
    <3>1. /\ batch' = [batch EXCEPT ![d] = {}] /\ job' = [job EXCEPT ![d] = None]
          /\ UNCHANGED <<status, token, due, overrun>>
      BY <2>5 DEF Crash, DatabaseError, Halt, rowVars
    <3>2. \A e \in Dispatchers : Held(e)' \subseteq Held(e) \cup {None}
      BY <1>0, <3>1 DEF Held, TypeOK
    <3>3. \A e \in Dispatchers : job'[e] # None => job'[e] \notin batch'[e]
      BY <1>o, <1>0, <3>1 DEF SoleInv, TypeOK
    <3> QED BY <1>0, <1>o, <3>1, <3>2, <3>3, FewerHeld
  <2> QED BY <1>4, <2>1, <2>2, <2>3, <2>4, <2>5 DEF Dispatch, Trouble
<1>5. ASSUME NEW u \in Users, ChangeAccess(u) PROVE SoleInv'
  BY <1>1, <1>5 DEF ChangeAccess, rowVars, dispatcherVars
<1>6. CASE UNCHANGED vars
  BY <1>1, <1>6 DEF vars, rowVars, dispatcherVars
<1> QED BY <1>2, <1>3, <1>4, <1>5, <1>6 DEF Next, Overruns

\* As long as claims outlive their handling, no two of any number of dispatchers
\* handle one row, through crashes, failures and take-overs.
THEOREM HandledAlone == Spec => []SoleHandler
<1>1. Init => SoleInv
  BY DEF Init, SoleInv, SoleHandler, Held, Owns
<1>2. IInv /\ SoleInv /\ [Next]_vars => SoleInv'
  BY SoleStep
<1>3. SoleInv => SoleHandler
  BY DEF SoleInv, SoleHandler
<1> QED BY <1>1, <1>2, <1>3, Invariance, PTL DEF Spec
-----------------------------------------------------------------------------
\* What `EveryRowSettles` rests on: an open row always has time or a dispatcher
\* that can work to wait for, and its claims are numbered.

\* What a dispatcher holds at each stage: nothing while it is idle or stopped,
\* the rest of a batch between two claims, and one claim of a row at most.
Posts ==
  \A d \in Dispatchers :
    /\ pc[d] \in {"idle", "stopped"} => batch[d] = {}
    /\ pc[d] \in {"idle", "stopped", "next"} => job[d] = None
    /\ pc[d] = "next" => batch[d] # {}
    /\ job[d] # None => job[d] \notin batch[d]
    /\ \A b, c \in Held(d) : b.row = c.row /\ b # None => b = c

\* A row waiting for a claim has an attempt left.
Budget ==
  MaxAttempts > 0 =>
    \A r \in Rows : /\ status[r] = "absent" => attempts[r] = 0
                    /\ status[r] = "pending" => attempts[r] < MaxAttempts

\* The guards of the steps of Dispatch: there is one for every stage.
Goes(d) ==
  \/ /\ pc[d] = "idle"
     /\ \E rows \in SUBSET due : /\ Cardinality(rows) \in 1..BatchSize
                                 /\ \A r \in rows : Unused(r) # {}
  \/ /\ pc[d] = "next"
     /\ \E c \in batch[d] : \A other \in batch[d] : c.row[1] <= other.row[1]
  \/ pc[d] \in Handling \cup {"stopped"}

\* An open row becomes due by the passing of time, or some dispatcher can take
\* a step.
Served ==
  \A r \in Rows :
    status[r] \in {"pending", "claimed"} =>
      \/ r \notin due /\ (status[r] = "pending" \/ ~Handled(r))
      \/ \E d \in Dispatchers : Goes(d)

\* A row whose attempts are used up is claimed again only when its last claim
\* was lost: nobody handles it, or a claim has timed out under its handler.
LastClaimLost ==
  [][\A r \in Rows :
       (MaxAttempts > 0 /\ attempts[r] = MaxAttempts /\ token'[r] \notin {0, token[r]})
         => (status[r] = "claimed" /\ (~Handled(r) \/ overrun))]_vars

\* Holding the same or less, at a stage that fits, keeps the posts.
LEMMA PostChanges ==
  ASSUME TypeOK, Posts, NEW d \in Dispatchers,
         NEW stage, NEW rest \in SUBSET batch[d], NEW own \in Held(d) \cup {None},
         pc' = [pc EXCEPT ![d] = stage],
         batch' = [batch EXCEPT ![d] = rest],
         job' = [job EXCEPT ![d] = own],
         stage \in {"idle", "stopped"} => rest = {},
         stage \in {"idle", "stopped", "next"} => own = None,
         stage = "next" => rest # {},
         own # None => own \notin rest
  PROVE  Posts'
<1>1. ASSUME NEW e \in Dispatchers, e # d
      PROVE  pc'[e] = pc[e] /\ batch'[e] = batch[e] /\ job'[e] = job[e]
  BY <1>1 DEF TypeOK
<1>2. pc'[d] = stage /\ batch'[d] = rest /\ job'[d] = own
  BY DEF TypeOK
<1>3. \A b, c \in rest \cup {own} : b.row = c.row /\ b # None => b = c
  <2> SUFFICES ASSUME NEW b \in rest \cup {own}, NEW c \in rest \cup {own}, b.row = c.row, b # None
               PROVE  b = c
    OBVIOUS
  <2>1. b \in Held(d) /\ (c = None \/ c \in Held(d))
    BY DEF Held
  <2>2. b.row # None.row
    BY <2>1, HeldTypes
  <2> QED BY <2>1, <2>2 DEF Posts
<1>4. ASSUME NEW e \in Dispatchers, e # d
      PROVE  \A b, c \in Held(e)' : b.row = c.row /\ b # None => b = c
  BY <1>1, <1>4 DEF Posts, Held
<1>5. \A b, c \in Held(d)' : b.row = c.row /\ b # None => b = c
  BY <1>2, <1>3 DEF Held
<1>6. ASSUME NEW e \in Dispatchers
      PROVE  /\ pc'[e] \in {"idle", "stopped"} => batch'[e] = {}
             /\ pc'[e] \in {"idle", "stopped", "next"} => job'[e] = None
             /\ pc'[e] = "next" => batch'[e] # {}
             /\ job'[e] # None => job'[e] \notin batch'[e]
  BY <1>1, <1>2 DEF Posts
<1> QED BY <1>4, <1>5, <1>6 DEF Posts

\* A claim gives the dispatcher a batch that is not empty, one claim a row.
LEMMA ClaimPosts ==
  ASSUME TypeOK, Posts, NEW d \in Dispatchers, Claim(d)
  PROVE  Posts'
<1>1. PICK rows \in SUBSET due : /\ Cardinality(rows) \in 1..BatchSize
                                 /\ Mark(d, rows, [r \in rows |-> Fresh(r)])
  BY DEF Claim
<1>2. rows # {}
  BY <1>1, FS_EmptySet, NumbersAssumption
<1> DEFINE new == {[row |-> r, token |-> Fresh(r)] : r \in rows}
<1>3. batch' = [batch EXCEPT ![d] = new]
  BY <1>1 DEF Mark
<1>4. pc' = [pc EXCEPT ![d] = "next"] /\ job' = job /\ job[d] = None
  BY DEF Claim, Posts
<1>5. new # {} /\ \A b, c \in new : b.row = c.row => b = c
  <2>1. \A b \in new : \E r \in rows : b = [row |-> r, token |-> Fresh(r)] /\ b.row = r
    OBVIOUS
  <2>2. new # {}
    BY <1>2
  <2> QED BY <2>1, <2>2
<1>6. \A b \in new : b.row \in Rows
  BY DEF TypeOK
<1> HIDE DEF new
<1>7. ASSUME NEW e \in Dispatchers
      PROVE  \A b, c \in Held(e)' : b.row = c.row /\ b # None => b = c
  <2>1. CASE e = d
    <3>1. Held(d)' = new \cup {None}
      BY <1>3, <1>4 DEF Held, TypeOK
    <3>2. \A b \in new : b.row # None.row
      BY <1>6, NumbersAssumption DEF Rows, None
    <3> QED BY <1>5, <2>1, <3>1, <3>2
  <2>2. CASE e # d
    BY <1>3, <1>4, <2>2 DEF Held, Posts, TypeOK
  <2> QED BY <2>1, <2>2
<1> QED BY <1>3, <1>4, <1>5, <1>7 DEF Posts, TypeOK

\* Every step of a dispatcher keeps the posts.
LEMMA DispatcherPosts ==
  ASSUME TypeOK, Posts, NEW d \in Dispatchers, Dispatch(d) \/ Trouble(d)
  PROVE  Posts'
<1>0. batch = [batch EXCEPT ![d] = batch[d]] /\ job = [job EXCEPT ![d] = job[d]]
  BY DEF TypeOK
<1>1. CASE Claim(d)
  BY <1>1, ClaimPosts
<1>2. CASE Authorise(d) \/ AuthoriserFails(d)
  <2>1. PICK c \in batch[d] : \E stage \in {"publish", "cancel", "fail"} : Take(d, c, stage)
    BY <1>2 DEF Authorise, AuthoriserFails
  <2>2. PICK stage \in {"publish", "cancel", "fail"} : Take(d, c, stage)
    BY <2>1
  <2>3. /\ pc' = [pc EXCEPT ![d] = stage] /\ job' = [job EXCEPT ![d] = c]
        /\ batch' = [batch EXCEPT ![d] = batch[d] \ {c}]
    BY <2>2 DEF Take
  <2> QED BY <2>3, PostChanges DEF Held
<1>3. CASE Publish(d) \/ PublishFails(d) \/ CancelFails(d)
  <2>1. PICK stage \in {"succeed", "fail"} :
          pc' = [pc EXCEPT ![d] = stage] /\ batch' = batch /\ job' = job
    BY <1>3 DEF Publish, PublishFails, CancelFails
  <2> QED BY <1>0, <2>1, PostChanges DEF Held, Posts
<1>4. CASE FinishSuccess(d) \/ FinishFailure(d) \/ CancelUnauthorised(d)
  <2>1. Continue(d)
    BY <1>4 DEF FinishSuccess, FinishFailure, CancelUnauthorised, Record
  <2>2. PICK stage \in {"idle", "next"} :
          /\ stage = IF batch[d] = {} THEN "idle" ELSE "next"
          /\ pc' = [pc EXCEPT ![d] = stage] /\ batch' = batch /\ job' = [job EXCEPT ![d] = None]
    BY <2>1 DEF Continue
  <2> QED BY <1>0, <2>2, PostChanges
<1>5. CASE Crash(d) \/ DatabaseError(d)
  <2>1. /\ pc' = [pc EXCEPT ![d] = "stopped"] /\ batch' = [batch EXCEPT ![d] = {}]
        /\ job' = [job EXCEPT ![d] = None]
    BY <1>5 DEF Crash, DatabaseError, Halt
  <2> QED BY <2>1, PostChanges
<1>6. CASE Restart(d)
  <2>1. pc' = [pc EXCEPT ![d] = "idle"] /\ batch' = batch /\ job' = job /\ pc[d] = "stopped"
    BY <1>6 DEF Restart
  <2> QED BY <1>0, <2>1, PostChanges DEF Held, Posts
<1> QED BY <1>1, <1>2, <1>3, <1>4, <1>5, <1>6 DEF Dispatch, Trouble

\* Commits, claims and results leave a waiting row an attempt.
LEMMA BudgetStep ==
  ASSUME IInv, Budget, [Next]_vars
  PROVE  Budget'
<1> SUFFICES ASSUME MaxAttempts > 0 PROVE Budget'
  BY DEF Budget
<1>0. /\ MaxAttempts \in Nat /\ TypeOK /\ \A r \in due : r \in Rows /\ status[r] # "absent"
      /\ \A r \in Rows : attempts[r] \in 0..MaxAttempts
  BY NumbersAssumption DEF IInv, DeliveryInv, TypeOK
<1>1. ASSUME UNCHANGED <<status, attempts>> PROVE Budget'
  BY <1>1 DEF Budget
<1>2. ASSUME NEW w \in Writers, Write(w) PROVE Budget'
  <2>1. CASE Commit(w)
    <3>1. ASSUME NEW r \in Rows, status'[r] # status[r] PROVE status[r] = "absent"
      BY <2>1, <3>1, CommitKeeps
    <3>2. attempts' = attempts /\ \A r \in Rows : status'[r] = "absent" => status[r] = "absent"
      BY <2>1 DEF Commit
    <3> QED BY <1>0, <3>1, <3>2 DEF Budget
  <2>2. CASE ~Commit(w)
    BY <1>1, <1>2, <2>2 DEF Write, Load, Append_, AppendRefused, Rollback, rowVars
  <2> QED BY <2>1, <2>2
<1>3. ASSUME NEW d \in Dispatchers, Claim(d) PROVE Budget'
  <2>1. PICK rows \in SUBSET due : \E fresh \in [rows -> Tokens] : Mark(d, rows, fresh)
    BY <1>3, ClaimMarks
  <2>2. \A r \in Rows : /\ r \in rows => status'[r] = "claimed"
                        /\ r \notin rows => status'[r] = status[r] /\ attempts'[r] = attempts[r]
    BY <2>1 DEF Mark
  <2> QED BY <2>2 DEF Budget
<1>4. ASSUME NEW d \in Dispatchers, pc[d] \in Handling, NEW result, Record(d, result),
             result \notin {"absent", "pending"} \/ (result = "pending" /\ ~Exhausted(job[d].row))
      PROVE  Budget'
  <2>1. attempts' = attempts /\ job[d].row \in Rows
    BY <1>0, <1>4, Parts DEF Record, Continue
  <2>2. status' = status \/ status' = [status EXCEPT ![job[d].row] = result]
    BY <1>4 DEF Record
  <2> QED BY <1>0, <1>4, <2>1, <2>2 DEF Budget, Exhausted, TypeOK
<1>5. ASSUME NEW d \in Dispatchers, Dispatch(d) \/ Trouble(d) PROVE Budget'
  <2>1. CASE FinishSuccess(d) \/ CancelUnauthorised(d)
    BY <1>4, <2>1 DEF FinishSuccess, CancelUnauthorised, Handling
  <2>2. CASE FinishFailure(d)
    BY <1>4, <2>2 DEF FinishFailure, Handling
  <2>3. CASE Claim(d)
    BY <1>3, <2>3
  <2>4. CASE ~Claim(d) /\ ~FinishSuccess(d) /\ ~FinishFailure(d) /\ ~CancelUnauthorised(d)
    BY <1>1, <1>5, <2>4 DEF Dispatch, Trouble, Authorise, AuthoriserFails, Take, Publish,
       PublishFails, CancelFails, Crash, DatabaseError, Halt, Restart, rowVars
  <2> QED BY <2>1, <2>2, <2>3, <2>4
<1>6. CASE UNCHANGED vars
  BY <1>1, <1>6 DEF vars, rowVars
<1> QED BY <1>1, <1>2, <1>5, <1>6 DEF Next, BecomesDue, Overruns, Due, ChangeAccess, rowVars

\* Posts and budget hold in every reachable state.
LEMMA PostsAndBudget == Spec => [](Posts /\ Budget)
<1>1. Init => Posts /\ Budget
  BY NumbersAssumption DEF Init, Posts, Budget, Held
<1>2. ASSUME IInv, Posts, [Next]_vars PROVE Posts'
  <2>1. CASE UNCHANGED dispatcherVars
    BY <1>2, <2>1 DEF dispatcherVars, Posts, Held
  <2>2. ASSUME NEW d \in Dispatchers, Dispatch(d) \/ Trouble(d) PROVE Posts'
    BY <1>2, <2>2, DispatcherPosts DEF IInv
  <2> QED BY <1>2, <2>1, <2>2 DEF Next, Write, Load, Append_, AppendRefused, Commit, Rollback,
        BecomesDue, Overruns, Due, ChangeAccess, vars
<1>3. IInv /\ Budget /\ [Next]_vars => Budget'
  BY BudgetStep
<1> QED BY <1>1, <1>2, <1>3, Invariance, PTL DEF Spec

\* The oldest event of a batch that is not empty.
LEMMA Oldest ==
  ASSUME TypeOK, NEW d \in Dispatchers, batch[d] # {}
  PROVE  \E c \in batch[d] : \A other \in batch[d] : c.row[1] <= other.row[1]
<1> DEFINE Ages == {c.row[1] : c \in batch[d]}
           Less == {ss \in Nat \X Nat : ss[1] < ss[2]}
<1>1. \A c \in batch[d] : c.row[1] \in Nat
  BY Parts DEF Rows
<1>2. Ages \subseteq Nat /\ Ages # {}
  BY <1>1
<1>3. IsWellFoundedOn(Less, Nat)
  BY NatLessThanWellFounded DEF OpToRel
<1>4. PICK m \in Ages : \A n \in Ages : <<n, m>> \notin Less
  <2> HIDE DEF Less, Ages
  <2> QED BY <1>2, <1>3, WFMin
<1>5. ASSUME NEW n \in Ages PROVE m <= n
  <2>1. ~(n < m)
    BY <1>2, <1>4
  <2>2. m \in Nat /\ n \in Nat
    BY <1>2
  <2> QED BY <2>1, <2>2
<1> QED BY <1>4, <1>5

\* An idle dispatcher finds a token for every row: each of the others holds one
\* claim of it at most.
LEMMA TokensSuffice ==
  ASSUME TypeOK, Posts, NEW d \in Dispatchers, pc[d] = "idle", NEW r \in Rows
  PROVE  Unused(r) # {}
<1> SUFFICES ASSUME Unused(r) = {} PROVE FALSE
  OBVIOUS
<1> DEFINE Holds(e, t) == \E c \in Held(e) : c.row = r /\ c.token = t
           holder == [t \in Tokens |-> IF t = token[r] THEN d
                                        ELSE CHOOSE e \in Dispatchers : Holds(e, t)]
<1>1. ASSUME NEW t \in Tokens, t # token[r] PROVE \E e \in Dispatchers : Holds(e, t)
  BY <1>1 DEF Unused
<1>2. ASSUME NEW t \in Tokens, t # token[r]
      PROVE  holder[t] \in Dispatchers /\ Holds(holder[t], t)
  BY <1>1, <1>2
<1>3. \A t \in Tokens : ~Holds(d, t)
  <2>1. Held(d) = {None}
    BY DEF Posts, Held
  <2> QED BY <2>1, NumbersAssumption DEF None, Rows
<1>4. ASSUME NEW e \in Dispatchers, NEW t \in Tokens, NEW u \in Tokens, Holds(e, t), Holds(e, u)
      PROVE  t = u
  <2>1. PICK b \in Held(e), c \in Held(e) : b.row = r /\ b.token = t /\ c.row = r /\ c.token = u
    BY <1>4
  <2>2. b # None
    BY <2>1, NumbersAssumption DEF None, Rows
  <2> QED BY <2>1, <2>2 DEF Posts
<1>5. holder \in [Tokens -> Dispatchers]
  BY <1>2
<1>6. ASSUME NEW t \in Tokens, NEW u \in Tokens, holder[t] = holder[u] PROVE t = u
  <2>1. CASE t = token[r] /\ u = token[r]
    BY <2>1
  <2>2. CASE t = token[r] /\ u # token[r]
    <3>1. holder[u] = d
      BY <1>6, <2>2
    <3> QED BY <1>2, <1>3, <2>2, <3>1
  <2>3. CASE t # token[r] /\ u = token[r]
    <3>1. holder[t] = d
      BY <1>6, <2>3
    <3> QED BY <1>2, <1>3, <2>3, <3>1
  <2>4. CASE t # token[r] /\ u # token[r]
    <3> HIDE DEF Holds, holder
    <3> QED BY <1>2, <1>4, <1>6, <2>4
  <2> QED BY <2>1, <2>2, <2>3, <2>4
<1> HIDE DEF holder
<1> QED BY <1>5, <1>6, TokensAssumption, FS_PigeonHole

\* No open row is ever stranded: it becomes due in time, or there is a
\* dispatcher that has a step, whatever was lost in crashes and time-outs.
THEOREM RowsAreServed == Dispatchers # {} /\ Spec => []Served
<1>1. ASSUME Dispatchers # {}, TypeOK, Posts PROVE Served
  <2> SUFFICES ASSUME NEW r \in Rows, status[r] \in {"pending", "claimed"},
                      r \in due \/ (status[r] = "claimed" /\ Handled(r))
               PROVE  \E d \in Dispatchers : Goes(d)
    BY DEF Served
  <2>1. ASSUME NEW d \in Dispatchers, pc[d] # "idle" PROVE Goes(d)
    <3>1. CASE pc[d] = "next"
      BY <1>1, <3>1, Oldest DEF Posts, Goes
    <3>2. CASE pc[d] # "next"
      BY <1>1, <2>1, <3>2 DEF TypeOK, Stages, Handling, Goes
    <3> QED BY <3>1, <3>2
  <2>2. CASE r \in due
    <3>1. PICK d \in Dispatchers : TRUE
      BY <1>1
    <3>2. CASE pc[d] = "idle"
      <4>1. Unused(r) # {}
        BY <1>1, <3>2, TokensSuffice
      <4>2. Cardinality({r}) \in 1..BatchSize
        BY FS_Singleton, NumbersAssumption
      <4>3. {r} \in SUBSET due
        BY <2>2
      <4> QED BY <3>2, <4>1, <4>2, <4>3 DEF Goes
    <3> QED BY <2>1, <3>1, <3>2
  <2>3. CASE Handled(r)
    <3>1. PICK d \in Dispatchers : \E c \in Held(d) : c.row = r
      BY <2>3 DEF Handled
    <3>2. Held(d) # {None}
      BY <3>1, NumbersAssumption DEF None, Rows
    <3>3. pc[d] # "idle"
      BY <1>1, <3>2 DEF Posts, Held
    <3> QED BY <2>1, <3>1, <3>3
  <2> QED BY <2>2, <2>3
<1>2. CASE Dispatchers # {}
  <2>1. IInv /\ Posts /\ Budget => Served
    BY <1>1, <1>2 DEF IInv
  <2> QED BY <2>1, Invariance, PostsAndBudget, PTL
<1> QED BY <1>2

\* The attempts of a row are limited: at the limit it fails, and only a claim
\* that was lost is taken over, however many dispatchers compete.
THEOREM RetriesEnd == Spec => LastClaimLost
<1> DEFINE Lost(r) == (MaxAttempts > 0 /\ attempts[r] = MaxAttempts /\ token'[r] \notin {0, token[r]})
                        => (status[r] = "claimed" /\ (~Handled(r) \/ overrun))
<1>1. ASSUME IInv, SoleInv, Budget, [Next]_vars, NEW r \in Rows PROVE Lost(r)
  <2>0. TypeOK /\ MaxAttempts \in Nat
    BY <1>1, NumbersAssumption DEF IInv
  <2>1. ASSUME token' = token PROVE Lost(r)
    BY <2>1
  <2>2. ASSUME NEW d \in Dispatchers, Claim(d) PROVE Lost(r)
    <3>1. PICK rows \in SUBSET due : \E fresh \in [rows -> Tokens] : Mark(d, rows, fresh)
      BY <2>2, ClaimMarks
    <3>2. CASE r \in rows
      <4>1. status[r] \in {"pending", "claimed"} /\ r \in due
        BY <1>1, <3>2 DEF IInv, DeliveryInv
      <4>2. status[r] = "pending" /\ MaxAttempts > 0 => attempts[r] < MaxAttempts
        BY <1>1 DEF Budget
      <4>3. ~overrun => ~Handled(r)
        <5> SUFFICES ASSUME ~overrun, NEW e \in Dispatchers, NEW c \in Held(e), c.row = r
                     PROVE  FALSE
          BY DEF Handled
        <5>1. c # None
          BY NumbersAssumption DEF None, Rows
        <5> QED BY <1>1, <4>1, <5>1 DEF SoleInv
      <4> QED BY <2>0, <4>1, <4>2, <4>3
    <3>3. CASE r \notin rows
      BY <3>1, <3>3 DEF Mark
    <3> QED BY <3>2, <3>3
  <2>3. ASSUME NEW d \in Dispatchers, NEW result, Record(d, result) PROVE Lost(r)
    <3>1. token' = token \/ token' = [token EXCEPT ![job[d].row] = 0]
      BY <2>3 DEF Record
    <3> QED BY <2>0, <3>1 DEF TypeOK
  <2>4. ASSUME NEW d \in Dispatchers, Dispatch(d) \/ Trouble(d) PROVE Lost(r)
    <3>1. CASE FinishSuccess(d) \/ FinishFailure(d) \/ CancelUnauthorised(d)
      BY <2>3, <3>1 DEF FinishSuccess, FinishFailure, CancelUnauthorised
    <3>2. CASE Claim(d)
      BY <2>2, <3>2
    <3>3. CASE ~Claim(d) /\ ~FinishSuccess(d) /\ ~FinishFailure(d) /\ ~CancelUnauthorised(d)
      BY <2>1, <2>4, <3>3 DEF Dispatch, Trouble, Authorise, AuthoriserFails, Take, Publish,
         PublishFails, CancelFails, Crash, DatabaseError, Halt, Restart, rowVars
    <3> QED BY <3>1, <3>2, <3>3
  <2>5. CASE UNCHANGED vars
    BY <2>1, <2>5 DEF vars, rowVars
  <2> QED BY <1>1, <2>1, <2>4, <2>5 DEF Next, Write, Load, Append_, AppendRefused, Commit, Rollback,
        BecomesDue, Overruns, Due, ChangeAccess, rowVars
<1>2. Init => SoleInv
  BY DEF Init, SoleInv, SoleHandler, Held, Owns
<1>3. IInv /\ SoleInv /\ [Next]_vars => SoleInv'
  BY SoleStep
<1>4. IInv /\ SoleInv /\ Budget /\ [Next]_vars => [\A r \in Rows : Lost(r)]_vars
  BY <1>1
<1> QED BY <1>2, <1>3, <1>4, Invariance, PostsAndBudget, PTL DEF Spec, LastClaimLost
=============================================================================

------------------------- MODULE OutboxPollerProofs -------------------------
(* Theorems about OutboxPoller, for every number of replicas, rows, retries *)
(* and incidents.                                                           *)
EXTENDS OutboxPoller, TLAPS

\* Rows in a snapshot were pending when they were read, so each of them can
\* still fail once without passing MaxRetries.
SnapshotBudget == \A t \in Polls : \A row \in batch[t] : row.retries < MaxRetries

\* A row that is not committed yet has the default retries.
FreshBudget == \A e \in Events : status[e] = "absent" => retries[e] = 0

\* The inductive invariant behind the type invariant and the retry accounting.
BudgetInv == TypeOK /\ RetryBudget /\ SnapshotBudget /\ FreshBudget

LEMMA InitBudget == Init => BudgetInv
BY ConstantsAssumption DEF Init, BudgetInv, TypeOK, RetryBudget, SnapshotBudget, FreshBudget,
   Relying, Lives, Row

\* Ending a poll leaves the other invocations' snapshots alone.
LEMMA NextEventBudget ==
    ASSUME BudgetInv, NEW t \in Polls, NEW row \in batch[t], NextEvent(t, row)
    PROVE  /\ pc' \in [Polls -> {"idle", "acquire", "check"} \union Relying]
           /\ batch' \in [Polls -> SUBSET Row]
           /\ isProcessing' \in [Instances -> BOOLEAN]
           /\ SnapshotBudget'
<1>1. CASE batch[t] = {row}
    BY <1>1, ConstantsAssumption
       DEF BudgetInv, TypeOK, SnapshotBudget, NextEvent, EndPoll, Goto, Relying
<1>2. CASE batch[t] # {row}
    BY <1>2, ConstantsAssumption
       DEF BudgetInv, TypeOK, SnapshotBudget, NextEvent, Goto, Relying
<1> QED BY <1>1, <1>2

\* A failure counted from a snapshot stays within the budget.
LEMMA WriteRetryBudget ==
    ASSUME BudgetInv, NEW t \in Polls, NEW row \in batch[t], WriteRetry(row)
    PROVE  /\ status' \in [Events -> {"absent", "PENDING", "PUBLISHED", "FAILED"}]
           /\ retries' \in [Events -> 0 .. MaxRetries]
           /\ due' \in [Events -> BOOLEAN]
           /\ RetryBudget' /\ FreshBudget'
<1>1. row.id \in Events /\ row.retries \in 0 .. MaxRetries /\ row.retries < MaxRetries
    BY DEF BudgetInv, TypeOK, SnapshotBudget, Row
<1>2. row.retries + 1 \in 0 .. MaxRetries
    BY <1>1, ConstantsAssumption
<1> QED
    BY <1>1, <1>2, ConstantsAssumption DEF BudgetInv, TypeOK, RetryBudget, FreshBudget, WriteRetry

LEMMA StepBudget == BudgetInv /\ [Next]_vars => BudgetInv'
<1> SUFFICES ASSUME BudgetInv, [Next]_vars PROVE BudgetInv'
    OBVIOUS
<1> USE ConstantsAssumption
<1>1. ASSUME NEW t \in Polls, Acquire(t) PROVE BudgetInv'
    BY <1>1 DEF BudgetInv, TypeOK, RetryBudget, SnapshotBudget, FreshBudget, Acquire, Tick, SetNx, CheckOwner,
       Renew, Move, Goto, Relying, tableVars, brokerVars, processVars
<1>2. ASSUME NEW t \in Polls, Lead(t) PROVE BudgetInv'
    BY <1>2 DEF BudgetInv, TypeOK, RetryBudget, SnapshotBudget, FreshBudget, Lead, Move, Goto, Relying,
       tableVars, brokerVars
<1>3. ASSUME NEW t \in Polls, FindPending(t) PROVE BudgetInv'
    <2>1. PICK B \in SUBSET Eligible :
            \/ EndPoll(t)
            \/ /\ Goto(t, "publish")
               /\ batch' = [batch EXCEPT ![t] = {[id |-> e, retries |-> retries[e]] : e \in B}]
               /\ UNCHANGED isProcessing
        BY <1>3 DEF FindPending
    <2>2. \A e \in B : e \in Events /\ retries[e] \in 0 .. MaxRetries /\ retries[e] < MaxRetries
        BY <2>1 DEF BudgetInv, TypeOK, RetryBudget, Eligible
    <2>3. {[id |-> e, retries |-> retries[e]] : e \in B} \in SUBSET Row
        BY <2>2 DEF Row
    <2>4. \A row \in {[id |-> e, retries |-> retries[e]] : e \in B} : row.retries < MaxRetries
        BY <2>2
    <2>5. UNCHANGED <<lock, tableVars, brokerVars, life, incidents>>
        BY <1>3 DEF FindPending
    <2>6. CASE EndPoll(t)
        BY <2>5, <2>6 DEF BudgetInv, TypeOK, RetryBudget, SnapshotBudget, FreshBudget, EndPoll, Goto, Relying,
           tableVars, brokerVars
    <2>7. CASE /\ Goto(t, "publish")
               /\ batch' = [batch EXCEPT ![t] = {[id |-> e, retries |-> retries[e]] : e \in B}]
               /\ UNCHANGED isProcessing
        <3>1. batch' \in [Polls -> SUBSET Row]
            BY <2>3, <2>7 DEF BudgetInv, TypeOK
        <3>2. SnapshotBudget'
            BY <2>4, <2>7 DEF BudgetInv, TypeOK, SnapshotBudget
        <3> QED BY <2>5, <2>7, <3>1, <3>2 DEF BudgetInv, TypeOK, RetryBudget, FreshBudget, Goto, Relying,
               tableVars, brokerVars
    <2> QED BY <2>1, <2>6, <2>7
<1>4. ASSUME NEW t \in Polls, NEW row \in batch[t], Publish(t, row) PROVE BudgetInv'
    <2>1. row.id \in Events
        BY DEF BudgetInv, TypeOK, Row
    <2> QED BY <1>4, <2>1 DEF BudgetInv, TypeOK, RetryBudget, SnapshotBudget, FreshBudget, Publish, Goto,
           Relying, tableVars, processVars
<1>5. ASSUME NEW t \in Polls, NEW row \in batch[t], MarkPublished(t, row) PROVE BudgetInv'
    <2>1. row.id \in Events
        BY DEF BudgetInv, TypeOK, Row
    <2>2. NextEvent(t, row)
        BY <1>5 DEF MarkPublished
    <2> QED BY <1>5, <2>1, <2>2, NextEventBudget DEF BudgetInv, TypeOK, RetryBudget, FreshBudget,
           MarkPublished, WritePublished, brokerVars
<1>6. ASSUME NEW t \in Polls, NEW row \in batch[t], MarkRetry(t, row) PROVE BudgetInv'
    <2>1. NextEvent(t, row) /\ WriteRetry(row)
        BY <1>6 DEF MarkRetry
    <2> QED BY <1>6, <2>1, NextEventBudget, WriteRetryBudget DEF BudgetInv, TypeOK, MarkRetry,
           brokerVars
<1>7. ASSUME NEW t \in Polls, RedisFails(t) \/ FindFails(t) PROVE BudgetInv'
    <2>1. incidents' \in 0 .. MaxIncidents
        BY <1>7 DEF BudgetInv, TypeOK, RedisFails, FindFails, Incident
    <2>2. CASE RedisFails(t)
        BY <2>1, <2>2 DEF BudgetInv, TypeOK, RetryBudget, SnapshotBudget, FreshBudget, RedisFails, Goto,
           Relying, tableVars, brokerVars, processVars
    <2>3. CASE FindFails(t)
        BY <2>1, <2>3 DEF BudgetInv, TypeOK, RetryBudget, SnapshotBudget, FreshBudget, FindFails, EndPoll,
           Goto, Relying, tableVars, brokerVars
    <2> QED BY <1>7, <2>2, <2>3
<1>8. ASSUME NEW t \in Polls, NEW row \in batch[t], MarkFails(t, row) PROVE BudgetInv'
    <2>1. row.id \in Events
        BY DEF BudgetInv, TypeOK, Row
    <2>2. /\ incidents' \in 0 .. MaxIncidents
          /\ pc' \in [Polls -> {"idle", "acquire", "check"} \union Relying]
          /\ UNCHANGED <<lock, brokerVars, processVars, batch>>
        BY <1>8 DEF BudgetInv, TypeOK, MarkFails, Incident, Goto, Relying
    <2>3. UNCHANGED tableVars \/ WritePublished(row.id)
        BY <1>8 DEF MarkFails
    <2>4. CASE UNCHANGED tableVars
        BY <2>2, <2>4 DEF BudgetInv, TypeOK, RetryBudget, SnapshotBudget, FreshBudget,
           tableVars, brokerVars, processVars
    <2>5. CASE WritePublished(row.id)
        BY <2>1, <2>2, <2>5 DEF BudgetInv, TypeOK, RetryBudget, SnapshotBudget, FreshBudget,
           WritePublished, brokerVars, processVars
    <2> QED BY <2>3, <2>4, <2>5
<1>9. ASSUME NEW t \in Polls, NEW row \in batch[t], RetryFails(t, row) PROVE BudgetInv'
    <2>1. /\ pc' \in [Polls -> {"idle", "acquire", "check"} \union Relying]
          /\ batch' \in [Polls -> SUBSET Row]
          /\ isProcessing' \in [Instances -> BOOLEAN]
          /\ SnapshotBudget'
        BY <1>9 DEF BudgetInv, TypeOK, SnapshotBudget, RetryFails, EndPoll, Goto, Relying
    <2>2. /\ lock' = lock /\ life' = life /\ UNCHANGED brokerVars
          /\ incidents' \in 0 .. MaxIncidents
        BY <1>9 DEF BudgetInv, TypeOK, RetryFails, Incident
    <2>3. CASE UNCHANGED tableVars
        BY <2>1, <2>2, <2>3 DEF BudgetInv, TypeOK, RetryBudget, FreshBudget, tableVars, brokerVars
    <2>4. CASE WriteRetry(row)
        BY <2>1, <2>2, <2>4, WriteRetryBudget DEF BudgetInv, TypeOK, brokerVars
    <2> QED BY <1>9, <2>3, <2>4 DEF RetryFails
<1>10. ASSUME NEW i \in Instances, ProcessStep(i) PROVE BudgetInv'
    <2>1. CASE BeginShutdown(i) \/ ClearTimer(i) \/ ReleaseGet(i) \/ ReleaseDel(i) \/ Restart(i)
        BY <2>1 DEF BudgetInv, TypeOK, RetryBudget, SnapshotBudget, FreshBudget, BeginShutdown, ClearTimer,
           ReleaseGet, ReleaseDel, Restart, Incident, Lives, tableVars, brokerVars, pollVars
    <2>2. CASE Exit(i) \/ Crash(i)
        <3>1. /\ pc' \in [Polls -> {"idle", "acquire", "check"} \union Relying]
              /\ batch' \in [Polls -> SUBSET Row]
              /\ isProcessing' \in [Instances -> BOOLEAN]
            <4>1. KillPolls(i)
                BY <2>2 DEF Exit, Crash
            <4>2. pc' \in [Polls -> {"idle", "acquire", "check"} \union Relying]
                BY <4>1 DEF BudgetInv, TypeOK, KillPolls
            <4>3. batch' \in [Polls -> SUBSET Row]
                BY <4>1 DEF BudgetInv, TypeOK, KillPolls
            <4>4. isProcessing' \in [Instances -> BOOLEAN]
                BY <4>1 DEF BudgetInv, TypeOK, KillPolls
            <4> QED BY <4>2, <4>3, <4>4
        <3>2. /\ life' \in [Instances -> Lives]
              /\ channel' \in [Instances -> {"open", "closed"}]
              /\ inflight' \in [Instances -> SUBSET Events]
              /\ incidents' \in 0 .. MaxIncidents
              /\ UNCHANGED <<lock, tableVars, broker, copies>>
            <4>1. CASE Exit(i)
                BY <4>1 DEF BudgetInv, TypeOK, Exit, Lives, brokerVars
            <4>2. CASE Crash(i)
                BY <4>2 DEF BudgetInv, TypeOK, Crash, Incident, Lives
            <4> QED BY <2>2, <4>1, <4>2
        <3>3. SnapshotBudget'
            BY <2>2 DEF BudgetInv, SnapshotBudget, Exit, Crash, KillPolls
        <3> QED BY <3>1, <3>2, <3>3 DEF BudgetInv, TypeOK, RetryBudget, FreshBudget, tableVars
    <2> QED BY <1>10, <2>1, <2>2 DEF ProcessStep, ShutdownStep
<1>11. ASSUME NEW e \in Events, Enqueue(e) \/ BackoffElapses(e) PROVE BudgetInv'
    <2>1. CASE Enqueue(e)
        BY <2>1 DEF BudgetInv, TypeOK, RetryBudget, SnapshotBudget, FreshBudget, Enqueue, brokerVars,
           processVars, pollVars
    <2>2. CASE BackoffElapses(e)
        BY <2>2 DEF BudgetInv, TypeOK, RetryBudget, SnapshotBudget, FreshBudget, BackoffElapses, brokerVars,
           processVars, pollVars
    <2> QED BY <1>11, <2>1, <2>2
<1>12. ASSUME NEW i \in Instances, NEW e \in Events, BrokerAccepts(i, e) PROVE BudgetInv'
    BY <1>12 DEF BudgetInv, TypeOK, RetryBudget, SnapshotBudget, FreshBudget, BrokerAccepts,
       tableVars, processVars, pollVars
<1>13. ASSUME NEW i \in Instances, ChannelCloses(i) PROVE BudgetInv'
    <2>1. incidents' \in 0 .. MaxIncidents
        BY <1>13 DEF BudgetInv, TypeOK, ChannelCloses, Incident
    <2> QED BY <1>13, <2>1 DEF BudgetInv, TypeOK, RetryBudget, SnapshotBudget, FreshBudget, ChannelCloses,
           tableVars, processVars, pollVars
<1>14. CASE LockExpires
    BY <1>14 DEF BudgetInv, TypeOK, RetryBudget, SnapshotBudget, FreshBudget, LockExpires, tableVars,
       brokerVars, processVars, pollVars
<1>15. CASE UNCHANGED vars
    BY <1>15 DEF BudgetInv, TypeOK, RetryBudget, SnapshotBudget, FreshBudget, vars, tableVars, brokerVars,
       processVars, pollVars
<1> QED
    BY <1>1, <1>2, <1>3, <1>4, <1>5, <1>6, <1>7, <1>8, <1>9, <1>10, <1>11, <1>12, <1>13, <1>14, <1>15
    DEF Next, PollStep, PollFails, Handle, EnvironmentStep

\* Every reachable state has its types, retries never passes outbox.maxRetries,
\* and a row is FAILED exactly when its retries are used up, whatever stale
\* leaders write over each other.
THEOREM RetriesAreBudgeted == Spec => [](TypeOK /\ RetryBudget)
<1>1. BudgetInv => TypeOK /\ RetryBudget
    BY DEF BudgetInv
<1> QED BY <1>1, InitBudget, StepBudget, PTL DEF Spec

THEOREM TypeCorrect == Spec => []TypeOK
BY RetriesAreBudgeted, PTL

-----------------------------------------------------------------------------
(* A row is PUBLISHED only after a message for it was handed to a channel. *)

\* Between publish() and the update the row at hand has been handed over.
MarkWasHanded ==
    \A t \in Polls : pc[t] = "mark" =>
        \A row \in batch[t] : IsOldest(row, batch[t]) => copies[row.id] > 0

HandedInv == PublishedWasHanded /\ MarkWasHanded

LEMMA InitHanded == Init => HandedInv
BY DEF Init, HandedInv, PublishedWasHanded, MarkWasHanded

LEMMA StepHanded == TypeOK /\ HandedInv /\ [Next]_vars => HandedInv'
<1> SUFFICES ASSUME TypeOK, HandedInv, [Next]_vars PROVE HandedInv'
    OBVIOUS
<1> USE ConstantsAssumption DEF TypeOK, HandedInv, PublishedWasHanded, MarkWasHanded
<1>1. ASSUME NEW t \in Polls, Acquire(t) PROVE HandedInv'
    BY <1>1 DEF Acquire, Tick, SetNx, CheckOwner, Renew, Move, Goto, tableVars, brokerVars
<1>2. ASSUME NEW t \in Polls, Lead(t) PROVE HandedInv'
    BY <1>2 DEF Lead, Move, Goto, tableVars, brokerVars
<1>3. ASSUME NEW t \in Polls, FindPending(t) PROVE HandedInv'
    <2>1. /\ pc' \in [Polls -> {"idle", "acquire", "check"} \union Relying] /\ pc'[t] # "mark"
          /\ \A u \in Polls \ {t} : pc'[u] = pc[u] /\ batch'[u] = batch[u]
          /\ UNCHANGED <<tableVars, brokerVars>>
        BY <1>3 DEF FindPending, EndPoll, Goto, Relying
    <2> QED BY <2>1 DEF tableVars, brokerVars
<1>4. ASSUME NEW t \in Polls, NEW row \in batch[t], Publish(t, row) PROVE HandedInv'
    <2>1. row.id \in Events /\ UNCHANGED <<status, batch>> /\ IsOldest(row, batch[t])
        BY <1>4 DEF Row, Publish, tableVars
    <2>2. /\ copies' \in [Events -> Nat]
          /\ \A e \in Events : copies'[e] >= copies[e]
        BY <1>4, <2>1 DEF Publish
    <2>3. pc'[t] = "mark" => copies'[row.id] > 0
        BY <1>4, <2>1 DEF Publish, Goto, Relying
    <2>4. \A r \in batch[t] : IsOldest(r, batch[t]) => r.id = row.id
        BY <2>1 DEF IsOldest, Row, Events
    <2>5. \A u \in Polls \ {t} : pc'[u] = pc[u]
        BY <1>4 DEF Publish, Goto
    <2>6. \A u \in Polls : \A r \in batch[u] : r.id \in Events
        BY DEF Row
    <2>7. PublishedWasHanded'
        BY <2>1, <2>2
    <2>8. MarkWasHanded'
        BY <2>1, <2>2, <2>3, <2>4, <2>5, <2>6 DEF IsOldest
    <2> QED BY <2>7, <2>8
<1>5. ASSUME NEW t \in Polls, NEW row \in batch[t], NextEvent(t, row)
      PROVE  /\ pc' \in [Polls -> {"idle", "acquire", "check"} \union Relying] /\ pc'[t] # "mark"
             /\ \A u \in Polls \ {t} : pc'[u] = pc[u] /\ batch'[u] = batch[u]
    BY <1>5 DEF NextEvent, EndPoll, Goto, Relying
<1>6. ASSUME NEW t \in Polls, NEW row \in batch[t], MarkPublished(t, row) PROVE HandedInv'
    <2>1. copies[row.id] > 0 /\ row.id \in Events
        BY <1>6 DEF MarkPublished, Row
    <2> QED BY <1>5, <1>6, <2>1 DEF MarkPublished, WritePublished, brokerVars
<1>7. ASSUME NEW t \in Polls, NEW row \in batch[t], MarkRetry(t, row) PROVE HandedInv'
    <2>1. row.id \in Events
        BY DEF Row
    <2> QED BY <1>5, <1>7, <2>1 DEF MarkRetry, WriteRetry, brokerVars
<1>8. ASSUME NEW t \in Polls, RedisFails(t) \/ FindFails(t) PROVE HandedInv'
    BY <1>8 DEF RedisFails, FindFails, EndPoll, Goto, tableVars, brokerVars
<1>9. ASSUME NEW t \in Polls, NEW row \in batch[t], MarkFails(t, row) PROVE HandedInv'
    <2>1. copies[row.id] > 0 /\ row.id \in Events
        BY <1>9 DEF MarkFails, Row
    <2>2. /\ \A u \in Polls : pc'[u] = "mark" => pc[u] = "mark"
          /\ UNCHANGED <<batch, copies>>
        BY <1>9 DEF MarkFails, Goto, brokerVars
    <2>3. status' = status \/ status' = [status EXCEPT ![row.id] = "PUBLISHED"]
        BY <1>9 DEF MarkFails, WritePublished, tableVars
    <2> QED BY <2>1, <2>2, <2>3
<1>10. ASSUME NEW t \in Polls, NEW row \in batch[t], RetryFails(t, row) PROVE HandedInv'
    <2>1. row.id \in Events
        BY DEF Row
    <2>2. /\ pc'[t] # "mark"
          /\ \A u \in Polls \ {t} : pc'[u] = pc[u] /\ batch'[u] = batch[u]
          /\ copies' = copies
        BY <1>10 DEF RetryFails, EndPoll, Goto, brokerVars
    <2>3. \A e \in Events : status'[e] = "PUBLISHED" => status[e] = "PUBLISHED"
        BY <1>10, <2>1 DEF RetryFails, WriteRetry, tableVars
    <2> QED BY <2>2, <2>3
<1>11. ASSUME NEW i \in Instances, ProcessStep(i) PROVE HandedInv'
    BY <1>11 DEF ProcessStep, ShutdownStep, BeginShutdown, ClearTimer, ReleaseGet, ReleaseDel,
       Exit, Crash, Restart, KillPolls, tableVars, brokerVars, pollVars
<1>12. ASSUME NEW e \in Events, Enqueue(e) \/ BackoffElapses(e) PROVE HandedInv'
    BY <1>12 DEF Enqueue, BackoffElapses, brokerVars, pollVars
<1>13. ASSUME NEW i \in Instances, NEW e \in Events, BrokerAccepts(i, e) PROVE HandedInv'
    BY <1>13 DEF BrokerAccepts, tableVars, pollVars
<1>14. ASSUME NEW i \in Instances, ChannelCloses(i) PROVE HandedInv'
    BY <1>14 DEF ChannelCloses, tableVars, pollVars
<1>15. CASE LockExpires
    BY <1>15 DEF LockExpires, tableVars, brokerVars, pollVars
<1>16. CASE UNCHANGED vars
    BY <1>16 DEF vars, tableVars, brokerVars, pollVars
<1> QED
    BY <1>1, <1>2, <1>3, <1>4, <1>6, <1>7, <1>8, <1>9, <1>10, <1>11, <1>12, <1>13, <1>14, <1>15, <1>16
    DEF Next, PollStep, PollFails, Handle, EnvironmentStep

\* The update to PUBLISHED always follows a publish() that did not throw.
THEOREM PublishedRowsWereHanded == Spec => []PublishedWasHanded
<1>1. HandedInv => PublishedWasHanded
    BY DEF HandedInv
<1> QED BY <1>1, TypeCorrect, InitHanded, StepHanded, PTL DEF Spec

-----------------------------------------------------------------------------
(* Mutual exclusion of the leaders, and what it takes. *)

\* A poll past the election has its process's id in the key.
LeaderHoldsLock == \A t \in Polls : pc[t] \in Relying => lock = InstanceOf[t]

LockInv == LeaderHoldsLock /\ \A i \in Instances : life[i] \in {"down", "running"}

LEMMA InitLock == Init => LockInv
BY ConstantsAssumption DEF Init, LockInv, LeaderHoldsLock, Relying

LEMMA StepLock ==
    ASSUME TtlCoversBatch, ~Shutdowns
    PROVE  TypeOK /\ LockInv /\ [Next]_vars => LockInv'
<1> SUFFICES ASSUME TypeOK, LockInv, [Next]_vars PROVE LockInv'
    OBVIOUS
<1> USE ConstantsAssumption DEF TypeOK, LockInv, LeaderHoldsLock, Relying
<1>1. ASSUME NEW t \in Polls, Acquire(t) PROVE LockInv'
    BY <1>1 DEF Acquire, Tick, SetNx, CheckOwner, Renew, Move, Goto, processVars
<1>2. ASSUME NEW t \in Polls, Lead(t) \/ FindPending(t) PROVE LockInv'
    BY <1>2 DEF Lead, FindPending, EndPoll, Move, Goto
<1>3. ASSUME NEW t \in Polls, NEW row \in batch[t],
             Handle(t, row) \/ MarkFails(t, row) \/ RetryFails(t, row)
      PROVE  LockInv'
    BY <1>3 DEF Handle, Publish, MarkPublished, MarkRetry, MarkFails, RetryFails, NextEvent,
       EndPoll, Goto, processVars
<1>4. ASSUME NEW t \in Polls, RedisFails(t) \/ FindFails(t) PROVE LockInv'
    BY <1>4 DEF RedisFails, FindFails, EndPoll, Goto, processVars
<1>5. ASSUME NEW i \in Instances, ProcessStep(i) PROVE LockInv'
    BY <1>5 DEF ProcessStep, ShutdownStep, BeginShutdown, ClearTimer, ReleaseGet, ReleaseDel,
       Exit, Crash, Restart, KillPolls, pollVars
<1>6. CASE EnvironmentStep
    BY <1>6 DEF EnvironmentStep, LockExpires, Enqueue, BackoffElapses, ChannelCloses,
       BrokerAccepts, processVars, pollVars
<1>7. CASE UNCHANGED vars
    BY <1>7 DEF vars, processVars, pollVars
<1> QED
    BY <1>1, <1>2, <1>3, <1>4, <1>5, <1>6, <1>7 DEF Next, PollStep, PollFails

\* The class comments' "only one worker instance" holds if the TTL outlives every
\* poll that relies on it and no replica is stopped gracefully.
THEOREM OneLeaderAtATime ==
    ASSUME TtlCoversBatch, ~Shutdowns
    PROVE  Spec => []OneInstanceProcesses
<1>1. LockInv => OneInstanceProcesses
    BY DEF LockInv, LeaderHoldsLock, OneInstanceProcesses
<1>2. TypeOK /\ LockInv /\ [Next]_vars => LockInv'
    BY StepLock
<1> QED BY <1>1, <1>2, TypeCorrect, InitLock, PTL DEF Spec

-----------------------------------------------------------------------------
(* With one leader at a time the worker implements the abstract outbox. *)

\* The timing assumption, no graceful shutdown, no committed update whose answer is lost,
\* and no second invocation of a replica.
OneAtATime ==
    /\ TtlCoversBatch /\ ~Shutdowns /\ ~LostReplies
    /\ \A t, u \in Polls : InstanceOf[t] = InstanceOf[u] => t = u

\* A snapshot agrees with the table until the loop has dealt with its rows.
Snapshots ==
    \A t \in Polls : \A row \in batch[t] :
        pc[t] \in InBatch /\ status[row.id] = "PENDING" /\ retries[row.id] = row.retries

SoloInv == BudgetInv /\ HandedInv /\ LockInv /\ Snapshots

\* Only one invocation is past the election, and only it has a snapshot.
LEMMA OnlyOnePoll ==
    ASSUME OneAtATime, SoloInv, NEW t \in Polls, pc[t] \in Relying
    PROVE  /\ \A u \in Polls \ {t} : pc[u] \notin Relying /\ batch[u] = {}
           /\ \A row \in batch[t] : row.id \in Events
<1>1. InBatch \subseteq Relying BY DEF InBatch, Relying
<1>2. \A u \in Polls : pc[u] \in Relying => u = t
  BY DEF OneAtATime, SoloInv, LockInv, LeaderHoldsLock
<1>3. \A u \in Polls \ {t} : batch[u] = {} BY <1>1, <1>2 DEF SoloInv, Snapshots
<1>4. \A row \in batch[t] : row.id \in Events BY DEF SoloInv, BudgetInv, TypeOK, Row
<1>5. QED BY <1>2, <1>3, <1>4

\* The loop goes on: the other rows of the snapshot are other rows of the table.
LEMMA NextEventSnapshots ==
    ASSUME OneAtATime, SoloInv, NEW t \in Polls, NEW row \in batch[t], pc[t] \in InBatch,
           IsOldest(row, batch[t]), NextEvent(t, row),
           \A e \in Events \ {row.id} : status'[e] = status[e] /\ retries'[e] = retries[e]
    PROVE  Snapshots'
<1>1. /\ \A u \in Polls \ {t} : batch[u] = {}
      /\ \A r \in batch[t] : r.id \in Events
  BY OnlyOnePoll DEF InBatch, Relying
<1>2. pc \in [Polls -> {"idle", "acquire", "check"} \union Relying] /\ batch \in [Polls -> SUBSET Row]
  BY DEF SoloInv, BudgetInv, TypeOK
<1>3. \A u \in Polls \ {t} : batch'[u] = {} BY <1>1, <1>2 DEF NextEvent, EndPoll
<1>4. ASSUME NEW r \in batch'[t]
      PROVE  pc'[t] \in InBatch /\ status'[r.id] = "PENDING" /\ retries'[r.id] = r.retries
  <2>1. batch[t] # {row} /\ r \in batch[t] \ {row} /\ pc'[t] = "publish"
    BY <1>2, <1>4 DEF NextEvent, EndPoll, Goto
  <2>2. r.id \in Events /\ status[r.id] = "PENDING" /\ retries[r.id] = r.retries /\ retries[row.id] = row.retries
    BY <1>1, <2>1 DEF SoloInv, Snapshots
  <2>3. r.id # row.id
    <3>1. r \in Row /\ row \in Row BY <1>2, <2>1
    <3>2. SUFFICES ASSUME r.id = row.id PROVE FALSE
      OBVIOUS
    <3>3. r.retries = row.retries BY <2>2, <3>2
    <3>4. r = row BY <3>1, <3>2, <3>3 DEF Row
    <3>5. QED BY <2>1, <3>4
  <2>4. QED BY <2>1, <2>2, <2>3 DEF InBatch
<1>5. QED BY <1>3, <1>4 DEF Snapshots

\* A step that writes no row and gives no snapshot keeps the snapshots exact.
LEMMA SnapshotsKept ==
    ASSUME SoloInv, UNCHANGED <<status, retries>>,
           \A t \in Polls : batch'[t] = {} \/ (batch'[t] = batch[t] /\ pc'[t] \in InBatch)
    PROVE  Snapshots'
BY DEF SoloInv, Snapshots

LEMMA StepSnapshots ==
    ASSUME OneAtATime, SoloInv, [Next]_vars
    PROVE  Snapshots'
<1> USE DEF tableVars, brokerVars, processVars, pollVars
<1>0. /\ pc \in [Polls -> {"idle", "acquire", "check"} \union Relying] /\ batch \in [Polls -> SUBSET Row]
      /\ status \in [Events -> {"absent", "PENDING", "PUBLISHED", "FAILED"}]
      /\ retries \in [Events -> 0 .. MaxRetries]
      /\ \A t \in Polls : pc[t] \notin InBatch => batch[t] = {}
  BY DEF SoloInv, BudgetInv, TypeOK, Snapshots
<1>1. ASSUME NEW t \in Polls, Acquire(t) \/ Lead(t) \/ RedisFails(t) \/ FindFails(t) PROVE Snapshots'
  <2>1. pc[t] \notin InBatch /\ UNCHANGED <<status, retries>>
    BY <1>1 DEF Acquire, Tick, SetNx, CheckOwner, Renew, Lead, RedisFails, FindFails, Move, InBatch
  <2>2. \A u \in Polls \ {t} : pc'[u] = pc[u] /\ batch'[u] = batch[u]
    BY <1>0, <1>1 DEF Acquire, Tick, SetNx, CheckOwner, Renew, Lead, RedisFails, FindFails, Move, Goto, EndPoll
  <2>3. batch'[t] = {}
    BY <1>0, <1>1, <2>1 DEF Acquire, Tick, SetNx, CheckOwner, Renew, Lead, RedisFails, FindFails, EndPoll
  <2>4. \A u \in Polls : batch'[u] = {} \/ (batch'[u] = batch[u] /\ pc'[u] \in InBatch) BY <1>0, <2>2, <2>3
  <2>5. QED BY <2>1, <2>4, SnapshotsKept
<1>2. ASSUME NEW t \in Polls, FindPending(t) PROVE Snapshots'
  <2>1. PICK B \in SUBSET Eligible :
          \/ EndPoll(t)
          \/ /\ Goto(t, "publish")
             /\ batch' = [batch EXCEPT ![t] = {[id |-> e, retries |-> retries[e]] : e \in B}]
    BY <1>2 DEF FindPending
  <2>2. UNCHANGED <<status, retries>> BY <1>2 DEF FindPending
  <2>3. \A u \in Polls \ {t} : pc'[u] = pc[u] /\ batch'[u] = batch[u] BY <1>0, <2>1 DEF Goto, EndPoll
  <2>4. ASSUME NEW r \in batch'[t]
        PROVE  pc'[t] \in InBatch /\ status[r.id] = "PENDING" /\ retries[r.id] = r.retries
    <3>1. ~EndPoll(t) BY <1>0, <2>4 DEF EndPoll
    <3>2. pc'[t] = "publish" /\ batch'[t] = {[id |-> e, retries |-> retries[e]] : e \in B}
      BY <1>0, <2>1, <3>1 DEF Goto
    <3>3. PICK e \in B : r = [id |-> e, retries |-> retries[e]] BY <2>4, <3>2
    <3>4. QED BY <3>2, <3>3 DEF Eligible, InBatch
  <2>5. QED BY <2>2, <2>3, <2>4 DEF Snapshots, SoloInv
<1>3. ASSUME NEW t \in Polls, NEW row \in batch[t], Publish(t, row) \/ MarkFails(t, row) PROVE Snapshots'
  <2>1. UNCHANGED <<status, retries, batch>>
    BY <1>3 DEF Publish, MarkFails, OneAtATime
  <2>2. pc'[t] \in InBatch /\ \A u \in Polls \ {t} : pc'[u] = pc[u]
    BY <1>0, <1>3 DEF Publish, MarkFails, Goto, InBatch
  <2>3. \A u \in Polls : batch'[u] = {} \/ (batch'[u] = batch[u] /\ pc'[u] \in InBatch)
    BY <1>0, <2>1, <2>2
  <2>4. QED BY <2>1, <2>3, SnapshotsKept
<1>4. ASSUME NEW t \in Polls, NEW row \in batch[t], MarkPublished(t, row) \/ MarkRetry(t, row)
      PROVE  Snapshots'
  <2>1. IsOldest(row, batch[t]) /\ NextEvent(t, row) /\ pc[t] \in InBatch
    BY <1>4 DEF MarkPublished, MarkRetry, InBatch
  <2>2. \A e \in Events \ {row.id} : status'[e] = status[e] /\ retries'[e] = retries[e]
    BY <1>0, <1>4 DEF MarkPublished, MarkRetry, WritePublished, WriteRetry
  <2>3. QED BY <2>1, <2>2, NextEventSnapshots
<1>5. ASSUME NEW t \in Polls, NEW row \in batch[t], RetryFails(t, row) PROVE Snapshots'
  <2>1. UNCHANGED <<status, retries>> /\ EndPoll(t) BY <1>5 DEF RetryFails, OneAtATime
  <2>2. \A u \in Polls \ {t} : pc'[u] = pc[u] /\ batch'[u] = batch[u] BY <1>0, <2>1 DEF EndPoll, Goto
  <2>3. batch'[t] = {} BY <1>0, <2>1 DEF EndPoll
  <2>4. \A u \in Polls : batch'[u] = {} \/ (batch'[u] = batch[u] /\ pc'[u] \in InBatch) BY <1>0, <2>2, <2>3
  <2>5. QED BY <2>1, <2>4, SnapshotsKept
<1>6. ASSUME NEW i \in Instances, ProcessStep(i) PROVE Snapshots'
  <2>1. UNCHANGED <<status, retries>>
    BY <1>6 DEF ProcessStep, ShutdownStep, BeginShutdown, ClearTimer, ReleaseGet, ReleaseDel, Exit, Crash, Restart
  <2>2. KillPolls(i) \/ UNCHANGED <<pc, batch>>
    BY <1>6 DEF ProcessStep, ShutdownStep, BeginShutdown, ClearTimer, ReleaseGet, ReleaseDel, Exit, Crash, Restart
  <2>3. \A u \in Polls : batch'[u] = {} \/ (batch'[u] = batch[u] /\ pc'[u] = pc[u])
    BY <2>2 DEF KillPolls
  <2>4. \A u \in Polls : batch'[u] = {} \/ (batch'[u] = batch[u] /\ pc'[u] \in InBatch) BY <1>0, <2>3
  <2>5. QED BY <2>1, <2>4, SnapshotsKept
<1>7. CASE EnvironmentStep
  <2>1. ASSUME NEW e \in Events, Enqueue(e) PROVE Snapshots'
    BY <1>0, <2>1 DEF Enqueue, SoloInv, Snapshots
  <2>2. CASE ~\E e \in Events : Enqueue(e)
    <3>1. UNCHANGED <<status, retries, pc, batch>>
      BY <1>7, <2>2 DEF EnvironmentStep, LockExpires, BackoffElapses, ChannelCloses, BrokerAccepts
    <3>2. QED BY <1>0, <3>1, SnapshotsKept
  <2>3. QED BY <2>1, <2>2
<1>8. CASE UNCHANGED vars
  BY <1>0, <1>8, SnapshotsKept DEF vars
<1>9. QED
  BY <1>1, <1>2, <1>3, <1>4, <1>5, <1>6, <1>7, <1>8 DEF Next, PollStep, PollFails, Handle

LEMMA SoloHolds == ASSUME OneAtATime PROVE Spec => []SoloInv
<1>1. Init => Snapshots BY DEF Init, Snapshots
<1>2. SoloInv /\ [Next]_vars => Snapshots' BY StepSnapshots
<1>3. TypeOK /\ LockInv /\ [Next]_vars => LockInv' BY StepLock DEF OneAtATime
<1>4. BudgetInv => TypeOK BY DEF BudgetInv
<1>5. SoloInv <=> BudgetInv /\ HandedInv /\ LockInv /\ Snapshots BY DEF SoloInv
<1>6. QED
  BY <1>1, <1>2, <1>3, <1>4, <1>5, InitBudget, InitHanded, InitLock, StepBudget, StepHanded, PTL DEF Spec

\* Every step of the worker is a step of the abstract outbox, or none.
LEMMA StepImplements ==
    ASSUME OneAtATime, SoloInv, [Next]_vars
    PROVE  [Delivery!Next]_(Delivery!vars)
<1> USE DEF tableVars, brokerVars, processVars, pollVars
<1>0. /\ status \in [Events -> {"absent", "PENDING", "PUBLISHED", "FAILED"}]
      /\ retries \in [Events -> 0 .. MaxRetries] /\ copies \in [Events -> Nat]
      /\ \A t \in Polls : \A row \in batch[t] : row.id \in Events /\ status[row.id] = "PENDING"
                                                 /\ retries[row.id] = row.retries
  BY DEF SoloInv, BudgetInv, TypeOK, Snapshots, Row
<1>1. ASSUME UNCHANGED <<status, retries, copies>> PROVE [Delivery!Next]_(Delivery!vars)
  BY <1>1 DEF Delivery!vars
<1>2. ASSUME NEW t \in Polls, NEW row \in batch[t], Publish(t, row) PROVE [Delivery!Next]_(Delivery!vars)
  <2>1. CASE channel[InstanceOf[t]] = "open"
    <3>1. Delivery!Send(row.id) BY <1>0, <1>2, <2>1 DEF Publish, Delivery!Send
    <3>2. QED BY <1>0, <3>1 DEF Delivery!Next
  <2>2. CASE channel[InstanceOf[t]] # "open" BY <1>1, <1>2, <2>2 DEF Publish
  <2>3. QED BY <2>1, <2>2
<1>3. ASSUME NEW t \in Polls, NEW row \in batch[t], MarkPublished(t, row) PROVE [Delivery!Next]_(Delivery!vars)
  <2>1. copies[row.id] > 0 BY <1>3 DEF MarkPublished, SoloInv, HandedInv, MarkWasHanded
  <2>2. Delivery!Settle(row.id) BY <1>0, <1>3, <2>1 DEF MarkPublished, WritePublished, Delivery!Settle
  <2>3. QED BY <1>0, <2>2 DEF Delivery!Next
<1>4. ASSUME NEW t \in Polls, NEW row \in batch[t], MarkRetry(t, row) PROVE [Delivery!Next]_(Delivery!vars)
  <2>1. row.id \in Events /\ retries[row.id] = row.retries /\ status[row.id] = "PENDING"
        /\ row.retries \in 0 .. MaxRetries /\ row.retries < MaxRetries
    BY <1>0 DEF SoloInv, BudgetInv, RetryBudget
  <2>2. /\ retries' = [retries EXCEPT ![row.id] = row.retries + 1]
        /\ status' = [status EXCEPT ![row.id] = IF row.retries + 1 >= MaxRetries THEN "FAILED" ELSE "PENDING"]
        /\ UNCHANGED copies
    BY <1>4 DEF MarkRetry, WriteRetry
  <2>3. retries'[row.id] = row.retries + 1 /\ (row.retries + 1 >= MaxRetries <=> row.retries + 1 = MaxRetries)
    BY <1>0, <2>1, <2>2, ConstantsAssumption
  <2>4. retries' = [retries EXCEPT ![row.id] = retries[row.id] + 1] BY <2>1, <2>2
  <2>5. status' = [status EXCEPT ![row.id] = IF retries'[row.id] = MaxRetries THEN "FAILED" ELSE status[row.id]]
    <3>1. CASE row.retries + 1 = MaxRetries BY <2>2, <2>3, <3>1
    <3>2. CASE row.retries + 1 # MaxRetries BY <2>1, <2>2, <2>3, <3>2
    <3>3. QED BY <3>1, <3>2
  <2>6. Delivery!CountFailure(row.id) BY <2>1, <2>2, <2>4, <2>5 DEF Delivery!CountFailure
  <2>7. QED BY <2>1, <2>6 DEF Delivery!Next
<1>5. ASSUME NEW e \in Events, Enqueue(e) PROVE [Delivery!Next]_(Delivery!vars)
  <2>1. Delivery!Record(e) BY <1>5 DEF Enqueue, Delivery!Record
  <2>2. QED BY <2>1 DEF Delivery!Next
<1>6. ASSUME NEW t \in Polls,
             \/ Acquire(t) \/ Lead(t) \/ FindPending(t) \/ RedisFails(t) \/ FindFails(t)
             \/ \E row \in batch[t] : MarkFails(t, row) \/ RetryFails(t, row)
      PROVE  UNCHANGED <<status, retries, copies>>
  BY <1>6 DEF Acquire, Tick, SetNx, CheckOwner, Renew, Lead, FindPending, RedisFails, FindFails, MarkFails,
     RetryFails, OneAtATime
<1>7. ASSUME NEW i \in Instances, ProcessStep(i) PROVE UNCHANGED <<status, retries, copies>>
  BY <1>7 DEF ProcessStep, ShutdownStep, BeginShutdown, ClearTimer, ReleaseGet, ReleaseDel, Exit, Crash, Restart
<1>8. CASE EnvironmentStep
  <2>1. CASE ~\E e \in Events : Enqueue(e)
    <3>1. UNCHANGED <<status, retries, copies>>
      BY <1>8, <2>1 DEF EnvironmentStep, LockExpires, BackoffElapses, ChannelCloses, BrokerAccepts
    <3>2. QED BY <1>1, <3>1
  <2>2. QED BY <1>5, <2>1
<1>9. CASE UNCHANGED vars BY <1>1, <1>9 DEF vars
<1>10. QED
  BY <1>1, <1>2, <1>3, <1>4, <1>6, <1>7, <1>8, <1>9 DEF Next, PollStep, PollFails, Handle

\* With one leader at a time, whose polls do not overlap and whose failed updates did not
\* commit, the worker implements the abstract outbox: no row leaves PUBLISHED or FAILED,
\* none is sent again after it, and no failed attempt goes uncounted.
THEOREM PollerImplementsDelivery ==
    ASSUME OneAtATime
    PROVE  Spec => ImplementsDelivery
<1>1. Init => Delivery!Init BY DEF Init, Delivery!Init
<1>2. SoloInv /\ [Next]_vars => [Delivery!Next]_(Delivery!vars) BY StepImplements
<1>3. Spec => []SoloInv BY SoloHolds
<1>4. Spec => Delivery!Spec BY <1>1, <1>2, <1>3, PTL DEF Spec, Delivery!Spec
<1>5. QED BY <1>4 DEF ImplementsDelivery

-----------------------------------------------------------------------------
(* What a duplicate costs. *)

\* An invocation has handed event e over and has not yet written so.
HandedBy(t, e) ==
    pc[t] = "mark" /\ \E row \in batch[t] : IsOldest(row, batch[t]) /\ row.id = e

\* A copy is paid for by an incident, or it is the one that the row, or the poll about to
\* mark the row, stands for.
CopiesPaid ==
    \A e \in Events :
        \/ copies[e] <= incidents
        \/ copies[e] <= incidents + 1 /\ (status[e] = "PUBLISHED" \/ \E t \in Polls : HandedBy(t, e))

LEMMA CopiesTypes == SoloInv => copies \in [Events -> Nat] /\ incidents \in Nat
BY ConstantsAssumption DEF SoloInv, BudgetInv, TypeOK

\* An incident that hands nothing over pays for the copy that was open.
LEMMA IncidentPays ==
    ASSUME SoloInv, CopiesPaid, incidents' = incidents + 1, UNCHANGED copies
    PROVE  CopiesPaid'
<1>1. copies \in [Events -> Nat] /\ incidents \in Nat BY CopiesTypes
<1>2. \A e \in Events : copies[e] <= incidents + 1 BY <1>1 DEF CopiesPaid
<1>3. QED BY <1>2 DEF CopiesPaid

\* A step that hands nothing over, publishes or unpublishes no row and leaves the polls at
\* "mark" alone.
LEMMA CopiesKept ==
    ASSUME CopiesPaid, UNCHANGED <<copies, incidents>>,
           \A e \in Events : status[e] = "PUBLISHED" => status'[e] = "PUBLISHED",
           \A t \in Polls : pc[t] = "mark" => pc'[t] = pc[t] /\ batch'[t] = batch[t]
    PROVE  CopiesPaid'
<1> SUFFICES ASSUME NEW e \in Events
             PROVE  \/ copies[e] <= incidents
                    \/ copies[e] <= incidents + 1 /\ (status'[e] = "PUBLISHED" \/ \E t \in Polls : HandedBy(t, e)')
    BY DEF CopiesPaid
<1>1. \A t \in Polls : HandedBy(t, e) => HandedBy(t, e)' BY DEF HandedBy, IsOldest
<1>2. QED BY <1>1 DEF CopiesPaid

LEMMA StepCopies ==
    ASSUME OneAtATime, SoloInv, CopiesPaid, [Next]_vars
    PROVE  CopiesPaid'
<1> USE DEF tableVars, brokerVars, processVars, pollVars
<1>0. /\ pc \in [Polls -> {"idle", "acquire", "check"} \union Relying] /\ batch \in [Polls -> SUBSET Row]
      /\ status \in [Events -> {"absent", "PENDING", "PUBLISHED", "FAILED"}]
      /\ copies \in [Events -> Nat] /\ incidents \in Nat
      /\ \A t \in Polls : \A row \in batch[t] : row.id \in Events /\ status[row.id] = "PENDING"
  BY CopiesTypes DEF SoloInv, BudgetInv, TypeOK, Snapshots, Row
<1>1. ASSUME NEW t \in Polls, Acquire(t) \/ Lead(t) \/ FindPending(t) PROVE CopiesPaid'
  <2>1. pc[t] # "mark" /\ UNCHANGED <<status, copies, incidents>>
    BY <1>1 DEF Acquire, Tick, SetNx, CheckOwner, Renew, Lead, FindPending, Move
  <2>2. \A u \in Polls \ {t} : pc'[u] = pc[u] /\ batch'[u] = batch[u]
    BY <1>0, <1>1 DEF Acquire, Tick, SetNx, CheckOwner, Renew, Lead, FindPending, Move, Goto, EndPoll
  <2>3. QED BY <2>1, <2>2, CopiesKept
<1>2. ASSUME NEW t \in Polls, NEW row \in batch[t], Publish(t, row) PROVE CopiesPaid'
  <2>1. pc[t] = "publish" /\ UNCHANGED <<status, incidents, batch>> /\ IsOldest(row, batch[t])
    BY <1>2 DEF Publish
  <2>2. \A u \in Polls : pc[u] # "mark"
    <3>1. \A u \in Polls \ {t} : pc[u] \notin Relying BY <2>1, OnlyOnePoll DEF Relying
    <3>2. QED BY <2>1, <3>1 DEF Relying
  <2>3. CASE channel[InstanceOf[t]] # "open"
    <3>1. UNCHANGED copies BY <1>2, <2>3 DEF Publish
    <3>2. QED BY <2>1, <2>2, <3>1, CopiesKept
  <2>4. CASE channel[InstanceOf[t]] = "open"
    <3>1. /\ copies' = [copies EXCEPT ![row.id] = @ + 1] /\ pc' = [pc EXCEPT ![t] = "mark"]
      BY <1>2, <2>4 DEF Publish, Goto
    <3>2. \A e \in Events : copies[e] <= incidents \/ (copies[e] <= incidents + 1 /\ status[e] = "PUBLISHED")
      BY <2>2 DEF CopiesPaid, HandedBy
    <3>3. row.id \in Events /\ status[row.id] # "PUBLISHED" BY <1>0
    <3>4. copies'[row.id] <= incidents + 1 BY <1>0, <3>1, <3>2, <3>3
    <3>5. HandedBy(t, row.id)' BY <1>0, <2>1, <3>1 DEF HandedBy, IsOldest
    <3>6. \A e \in Events \ {row.id} : copies'[e] = copies[e] BY <1>0, <3>1
    <3>7. ASSUME NEW e \in Events
          PROVE  \/ copies'[e] <= incidents'
                 \/ copies'[e] <= incidents' + 1 /\ (status'[e] = "PUBLISHED" \/ \E u \in Polls : HandedBy(u, e)')
      <4>1. CASE e = row.id BY <2>1, <3>4, <3>5, <4>1
      <4>2. CASE e # row.id BY <2>1, <3>2, <3>6, <4>2
      <4>3. QED BY <4>1, <4>2
    <3>8. QED BY <3>7 DEF CopiesPaid
  <2>5. QED BY <2>3, <2>4
<1>3. ASSUME NEW t \in Polls, NEW row \in batch[t], MarkPublished(t, row) PROVE CopiesPaid'
  <2>1. pc[t] = "mark" /\ UNCHANGED <<copies, incidents>> /\ IsOldest(row, batch[t])
        /\ status' = [status EXCEPT ![row.id] = "PUBLISHED"]
    BY <1>3 DEF MarkPublished, WritePublished
  <2>2. \A u \in Polls \ {t} : pc[u] # "mark" BY <2>1, OnlyOnePoll DEF Relying
  <2>3. row.id \in Events /\ \A r \in batch[t] : r.id \in Nat BY <1>0 DEF Row, Events
  <2>4. \A u \in Polls, e \in Events : HandedBy(u, e) => e = row.id
    <3>1. \A r \in batch[t] : IsOldest(r, batch[t]) => r.id = row.id
      BY <2>1, <2>3 DEF IsOldest
    <3>2. QED BY <2>2, <3>1 DEF HandedBy
  <2>5. ASSUME NEW e \in Events
        PROVE  copies[e] <= incidents \/ (copies[e] <= incidents + 1 /\ status'[e] = "PUBLISHED")
    <3>1. CASE e = row.id
      <4>1. copies[e] <= incidents \/ copies[e] <= incidents + 1 BY DEF CopiesPaid
      <4>2. status'[e] = "PUBLISHED" BY <1>0, <2>1, <3>1
      <4>3. QED BY <4>1, <4>2
    <3>2. CASE e # row.id
      <4>1. status'[e] = status[e] BY <1>0, <2>1, <3>2
      <4>2. QED BY <2>4, <3>2, <4>1 DEF CopiesPaid
    <3>3. QED BY <3>1, <3>2
  <2>6. QED BY <2>1, <2>5 DEF CopiesPaid
<1>4. ASSUME NEW t \in Polls, NEW row \in batch[t], MarkRetry(t, row) PROVE CopiesPaid'
  <2>1. pc[t] = "retry" /\ UNCHANGED <<copies, incidents>> /\ NextEvent(t, row) /\ WriteRetry(row)
    BY <1>4 DEF MarkRetry
  <2>2. \A u \in Polls \ {t} : pc[u] # "mark" BY <2>1, OnlyOnePoll DEF Relying
  <2>3. \A e \in Events : status[e] = "PUBLISHED" => status'[e] = "PUBLISHED"
    <3>1. row.id \in Events /\ status[row.id] = "PENDING" BY <1>0
    <3>2. \A e \in Events \ {row.id} : status'[e] = status[e] BY <1>0, <2>1 DEF WriteRetry
    <3>3. QED BY <3>1, <3>2
  <2>4. QED BY <2>1, <2>2, <2>3, CopiesKept
<1>5. ASSUME NEW t \in Polls, PollFails(t) PROVE CopiesPaid'
  <2>1. incidents' = incidents + 1 /\ UNCHANGED copies
    BY <1>5 DEF PollFails, RedisFails, FindFails, MarkFails, RetryFails, Incident
  <2>2. QED BY <2>1, IncidentPays
<1>6. ASSUME NEW i \in Instances, ProcessStep(i) PROVE CopiesPaid'
  <2>1. life[i] \in {"down", "running"} /\ ~Shutdowns BY DEF SoloInv, LockInv, OneAtATime
  <2>2. CASE Crash(i)
    <3>1. incidents' = incidents + 1 /\ UNCHANGED copies BY <2>2 DEF Crash, Incident
    <3>2. QED BY <3>1, IncidentPays
  <2>3. CASE Restart(i)
    <3>1. UNCHANGED <<status, pc, batch, copies, incidents>> BY <2>3 DEF Restart
    <3>2. QED BY <3>1, CopiesKept
  <2>4. QED BY <1>6, <2>1, <2>2, <2>3 DEF ProcessStep, ShutdownStep, BeginShutdown, ClearTimer, ReleaseGet,
                ReleaseDel, Exit
<1>7. CASE EnvironmentStep
  <2>1. CASE \E i \in Instances : ChannelCloses(i)
    <3>1. incidents' = incidents + 1 /\ UNCHANGED copies BY <2>1 DEF ChannelCloses, Incident
    <3>2. QED BY <3>1, IncidentPays
  <2>2. CASE ~\E i \in Instances : ChannelCloses(i)
    <3>1. UNCHANGED <<pc, batch, copies, incidents>>
      BY <1>7, <2>2 DEF EnvironmentStep, LockExpires, Enqueue, BackoffElapses, BrokerAccepts
    <3>2. \A e \in Events : status[e] = "PUBLISHED" => status'[e] = "PUBLISHED"
      BY <1>0, <1>7, <2>2 DEF EnvironmentStep, LockExpires, Enqueue, BackoffElapses, BrokerAccepts
    <3>3. QED BY <3>1, <3>2, CopiesKept
  <2>3. QED BY <2>1, <2>2
<1>8. CASE UNCHANGED vars BY <1>8, CopiesKept DEF vars
<1>9. QED BY <1>1, <1>2, <1>3, <1>4, <1>5, <1>6, <1>7, <1>8 DEF Next, PollStep, Handle

\* With one leader at a time, every copy of an event beyond the first costs an incident:
\* a crash, a failed call or a closed channel.
THEOREM DuplicatesCostIncidents ==
    ASSUME OneAtATime
    PROVE  Spec => []DuplicatesNeedIncidents
<1>1. Init => CopiesPaid BY DEF Init, CopiesPaid
<1>2. SoloInv /\ CopiesPaid /\ [Next]_vars => CopiesPaid' BY StepCopies
<1>3. SoloInv /\ CopiesPaid => DuplicatesNeedIncidents
  <2>1. SUFFICES ASSUME SoloInv, CopiesPaid, NEW e \in Events PROVE copies[e] <= 1 + incidents
    BY DEF DuplicatesNeedIncidents
  <2>2. copies[e] \in Nat /\ incidents \in Nat BY <2>1, CopiesTypes
  <2>3. copies[e] <= incidents \/ copies[e] <= incidents + 1 BY <2>1 DEF CopiesPaid
  <2>4. QED BY <2>1, <2>2, <2>3
<1>4. Spec => []SoloInv BY SoloHolds
<1>5. QED BY <1>1, <1>2, <1>3, <1>4, PTL DEF Spec

=============================================================================

---------------------------- MODULE OutboxPoller ----------------------------
(***************************************************************************)
(* The outbox-poller worker: replicas of one process elect a leader with a *)
(* Redis key, and the leader moves rows of the outbox table to RabbitMQ.   *)
(*                                                                         *)
(* A poll() invocation is a thread of control of its own (an element of    *)
(* Polls): setInterval starts one at every tick, and a tick that finds     *)
(* isProcessing false while an earlier invocation is still awaiting Redis  *)
(* runs beside it.  Every await of the source is a step boundary here.     *)
(*                                                                         *)
(* Events are numbered by createdAt.  Time is abstracted: the lock's TTL   *)
(* and a row's nextRetryAt lapse by steps of the environment.              *)
(***************************************************************************)
EXTENDS Integers, FiniteSets

CONSTANTS
    Instances,      \* replicas of the worker, each with an instanceId of its own
    Polls,          \* poll() invocations that can be in progress at once
    InstanceOf,     \* the replica an invocation belongs to
    NoOwner,        \* the lock key does not exist
    NumEvents,      \* outbox rows, numbered in the order of createdAt
    BatchSize,      \* outbox.batchSize
    MaxRetries,     \* outbox.maxRetries
    MaxIncidents,   \* bound on crashes, shutdowns, failed Redis and database calls
    LostReplies,    \* may a failed update have been committed after all?
    TtlCoversBatch, \* timing assumption: the TTL outlives the poll that relies on it
    Shutdowns       \* are replicas ever stopped gracefully (SIGTERM)?

Events == 1 .. NumEvents

ASSUME ConstantsAssumption ==
    /\ InstanceOf \in [Polls -> Instances]
    /\ NoOwner \notin Instances
    /\ NumEvents \in Nat
    /\ BatchSize \in Nat \ {0}
    /\ MaxRetries \in Nat \ {0}
    /\ MaxIncidents \in Nat
    /\ {LostReplies, TtlCoversBatch, Shutdowns} \subseteq BOOLEAN

VARIABLES
    lock,         \* the Redis key: its owner or NoOwner
    status,       \* outbox.status of each row, "absent" before it is committed
    retries,      \* outbox.retries
    due,          \* outbox.nextRetryAt is null or has passed
    life,         \* where each process is in its life cycle
    isProcessing, \* OutboxPollerService.isProcessing of each process
    channel,      \* each process's AMQP channel
    inflight,     \* messages written to that channel's socket, not yet at the broker
    broker,       \* events of which the broker has accepted a message
    copies,       \* messages handed to any channel, per event (history)
    pc,           \* where each poll() invocation is
    batch,        \* the rows findMany gave it that it has not dealt with yet
    incidents     \* how many incidents have happened

tableVars   == <<status, retries, due>>
brokerVars  == <<channel, inflight, broker, copies>>
processVars == <<life, isProcessing>>
pollVars    == <<pc, batch>>
vars == <<lock, tableVars, brokerVars, processVars, pollVars, incidents>>

Lives == {"down", "running", "destroyed", "draining", "deleting", "released"}

\* An invocation past the point where Redis told it that it leads.
Relying == {"renew", "lead", "find", "publish", "mark", "retry"}

\* An invocation that holds a snapshot.
InBatch == {"publish", "mark", "retry"}

Init ==
    /\ lock = NoOwner
    /\ status = [e \in Events |-> "absent"]
    /\ retries = [e \in Events |-> 0]
    /\ due = [e \in Events |-> TRUE]
    /\ life = [i \in Instances |-> "running"]
    /\ isProcessing = [i \in Instances |-> FALSE]
    /\ channel = [i \in Instances |-> "open"]
    /\ inflight = [i \in Instances |-> {}]
    /\ broker = {}
    /\ copies = [e \in Events |-> 0]
    /\ pc = [t \in Polls |-> "idle"]
    /\ batch = [t \in Polls |-> {}]
    /\ incidents = 0

-----------------------------------------------------------------------------
(* Helpers *)

Incident == incidents < MaxIncidents /\ incidents' = incidents + 1

Goto(t, label) == pc' = [pc EXCEPT ![t] = label]

Move(t, from, to) == pc[t] = from /\ Goto(t, to)

\* Mutant: poll() without its finally block.
EndPollKeepsFlag(t) ==
    /\ Goto(t, "idle")
    /\ batch' = [batch EXCEPT ![t] = {}]
    /\ UNCHANGED isProcessing

\* poll()'s finally block: the invocation ends and the flag is cleared.
EndPoll(t) ==
    /\ Goto(t, "idle")
    /\ batch' = [batch EXCEPT ![t] = {}]
    /\ isProcessing' = [isProcessing EXCEPT ![InstanceOf[t]] = FALSE]

\* The for loop goes on with the next row of the snapshot, or poll() ends.
NextEvent(t, row) ==
    IF batch[t] = {row}
    THEN EndPoll(t)
    ELSE /\ Goto(t, "publish")
         /\ batch' = [batch EXCEPT ![t] = @ \ {row}]
         /\ UNCHANGED isProcessing

\* The row the loop is at: rows are taken in the order of createdAt.
IsOldest(row, S) == row \in S /\ \A r \in S : row.id <= r.id

\* Mutant: the query forgets the status condition.
EligibleAnyStatus == {e \in Events : status[e] # "absent" /\ due[e]}

\* Mutant: given-up rows are picked up again.
EligibleWithFailed == {e \in Events : status[e] \in {"PENDING", "FAILED"} /\ due[e]}

Eligible == {e \in Events : status[e] = "PENDING" /\ due[e]}

\* What findMany returns: the oldest eligible rows, at most BatchSize of them.
IsBatch(B) ==
    /\ B \subseteq Eligible
    /\ \A e \in B, f \in Eligible \ B : e < f
    /\ \/ Cardinality(B) = BatchSize
       \/ Cardinality(B) < BatchSize /\ B = Eligible

-----------------------------------------------------------------------------
(* Leader election: acquireLock is SET NX, then GET, then EXPIRE. *)

\* setInterval's callback runs poll(), which gives up while a batch is running.
Tick(t) ==
    /\ life[InstanceOf[t]] \in {"running", "destroyed"}
    /\ ~isProcessing[InstanceOf[t]]
    /\ Move(t, "idle", "acquire")
    /\ UNCHANGED <<lock, tableVars, brokerVars, processVars, batch, incidents>>

\* Mutant: SET without NX.
SetOverwrites(t) ==
    /\ pc[t] = "acquire"
    /\ lock' = InstanceOf[t] /\ Goto(t, "lead")
    /\ UNCHANGED <<tableVars, brokerVars, processVars, batch, incidents>>

SetNx(t) ==
    /\ pc[t] = "acquire"
    /\ IF lock = NoOwner
       THEN lock' = InstanceOf[t] /\ Goto(t, "lead")
       ELSE UNCHANGED lock /\ Goto(t, "check")
    /\ UNCHANGED <<tableVars, brokerVars, processVars, batch, incidents>>

CheckOwner(t) ==
    /\ pc[t] = "check"
    /\ Goto(t, IF lock = InstanceOf[t] THEN "renew" ELSE "idle")
    /\ UNCHANGED <<lock, tableVars, brokerVars, processVars, batch, incidents>>

\* EXPIRE does not look at the owner, and its result is ignored.
Renew(t) ==
    /\ Move(t, "renew", "lead")
    /\ UNCHANGED <<lock, tableVars, brokerVars, processVars, batch, incidents>>

\* Any Redis error makes acquireLock return false.
RedisFails(t) ==
    /\ pc[t] \in {"acquire", "check", "renew"}
    /\ Incident
    /\ Goto(t, "idle")
    /\ UNCHANGED <<lock, tableVars, brokerVars, processVars, batch>>

-----------------------------------------------------------------------------
(* The batch. *)

Lead(t) ==
    /\ Move(t, "lead", "find")
    /\ isProcessing' = [isProcessing EXCEPT ![InstanceOf[t]] = TRUE]
    /\ UNCHANGED <<lock, tableVars, brokerVars, life, batch, incidents>>

FindPending(t) ==
    /\ pc[t] = "find"
    /\ \E B \in SUBSET Eligible :
        /\ IsBatch(B)
        /\ IF B = {}
           THEN EndPoll(t)
           ELSE /\ Goto(t, "publish")
                /\ batch' = [batch EXCEPT ![t] = {[id |-> e, retries |-> retries[e]] : e \in B}]
                /\ UNCHANGED isProcessing
    /\ UNCHANGED <<lock, tableVars, brokerVars, life, incidents>>

FindFails(t) ==
    /\ pc[t] = "find"
    /\ Incident
    /\ EndPoll(t)
    /\ UNCHANGED <<lock, tableVars, brokerVars, life>>

\* Mutant: the exception of a closed channel is swallowed.
PublishSwallows(t, row) ==
    /\ pc[t] = "publish"
    /\ IsOldest(row, batch[t])
    /\ LET i == InstanceOf[t] IN
        IF channel[i] = "open"
        THEN /\ inflight' = [inflight EXCEPT ![i] = @ \union {row.id}]
             /\ copies' = [copies EXCEPT ![row.id] = @ + 1]
        ELSE UNCHANGED <<inflight, copies>>
    /\ Goto(t, "mark")
    /\ UNCHANGED <<lock, tableVars, channel, broker, processVars, batch, incidents>>

\* publish() writes to the socket and never waits for the broker; it throws on
\* a closed channel.
Publish(t, row) ==
    /\ pc[t] = "publish"
    /\ IsOldest(row, batch[t])
    /\ LET i == InstanceOf[t] IN
        IF channel[i] = "open"
        THEN /\ inflight' = [inflight EXCEPT ![i] = @ \union {row.id}]
             /\ copies' = [copies EXCEPT ![row.id] = @ + 1]
             /\ Goto(t, "mark")
        ELSE /\ UNCHANGED <<inflight, copies>>
             /\ Goto(t, "retry")
    /\ UNCHANGED <<lock, tableVars, channel, broker, processVars, batch, incidents>>

\* The two updates name the row by its id and look at nothing else of it.
WritePublished(e) ==
    /\ status' = [status EXCEPT ![e] = "PUBLISHED"]
    /\ due' = [due EXCEPT ![e] = TRUE]
    /\ UNCHANGED retries

\* Mutant: off by one in isPermanentFailure.
WriteRetryOffByOne(row) ==
    LET newRetries == row.retries + 1
        permanent  == newRetries > MaxRetries
    IN /\ retries' = [retries EXCEPT ![row.id] = newRetries]
       /\ status' = [status EXCEPT ![row.id] = IF permanent THEN "FAILED" ELSE "PENDING"]
       /\ due' = [due EXCEPT ![row.id] = permanent]

WriteRetry(row) ==
    LET newRetries == row.retries + 1
        permanent  == newRetries >= MaxRetries
    IN /\ retries' = [retries EXCEPT ![row.id] = newRetries]
       /\ status' = [status EXCEPT ![row.id] = IF permanent THEN "FAILED" ELSE "PENDING"]
       /\ due' = [due EXCEPT ![row.id] = permanent]

MarkPublished(t, row) ==
    /\ pc[t] = "mark"
    /\ IsOldest(row, batch[t])
    /\ WritePublished(row.id)
    /\ NextEvent(t, row)
    /\ UNCHANGED <<lock, brokerVars, life, incidents>>

\* The update throws, so the catch block takes the event for a failed one.
MarkFails(t, row) ==
    /\ pc[t] = "mark"
    /\ IsOldest(row, batch[t])
    /\ Incident
    /\ \/ UNCHANGED tableVars
       \/ LostReplies /\ WritePublished(row.id)
    /\ Goto(t, "retry")
    /\ UNCHANGED <<lock, brokerVars, processVars, batch>>

MarkRetry(t, row) ==
    /\ pc[t] = "retry"
    /\ IsOldest(row, batch[t])
    /\ WriteRetry(row)
    /\ NextEvent(t, row)
    /\ UNCHANGED <<lock, brokerVars, life, incidents>>

\* An error in the catch block leaves the loop and ends the poll.
RetryFails(t, row) ==
    /\ pc[t] = "retry"
    /\ IsOldest(row, batch[t])
    /\ Incident
    /\ \/ UNCHANGED tableVars
       \/ LostReplies /\ WriteRetry(row)
    /\ EndPoll(t)
    /\ UNCHANGED <<lock, brokerVars, life>>

-----------------------------------------------------------------------------
(* Process life cycle.  Nest closes an application in two phases: every    *)
(* onModuleDestroy first (the AMQP channel is closed, the poll timer still *)
(* runs), then every onApplicationShutdown, those of one module in         *)
(* parallel: the timer is cleared and the lock released while the poller   *)
(* waits, at most 15 s, for isProcessing to become false.                  *)

\* The polls of process i die with it.
KillPolls(i) ==
    /\ isProcessing' = [isProcessing EXCEPT ![i] = FALSE]
    /\ pc' = [t \in Polls |-> IF InstanceOf[t] = i THEN "idle" ELSE pc[t]]
    /\ batch' = [t \in Polls |-> IF InstanceOf[t] = i THEN {} ELSE batch[t]]

BeginShutdown(i) ==
    /\ Shutdowns
    /\ life[i] = "running"
    /\ Incident
    /\ life' = [life EXCEPT ![i] = "destroyed"]
    /\ channel' = [channel EXCEPT ![i] = "closed"]
    /\ broker' = broker \union inflight[i]
    /\ inflight' = [inflight EXCEPT ![i] = {}]
    /\ UNCHANGED <<lock, tableVars, copies, isProcessing, pollVars>>

ClearTimer(i) ==
    /\ life[i] = "destroyed"
    /\ life' = [life EXCEPT ![i] = "draining"]
    /\ UNCHANGED <<lock, tableVars, brokerVars, isProcessing, pollVars, incidents>>

ReleaseGet(i) ==
    /\ life[i] = "draining"
    /\ life' = [life EXCEPT ![i] = IF lock = i THEN "deleting" ELSE "released"]
    /\ UNCHANGED <<lock, tableVars, brokerVars, isProcessing, pollVars, incidents>>

ReleaseDel(i) ==
    /\ life[i] = "deleting"
    /\ lock' = NoOwner
    /\ life' = [life EXCEPT ![i] = "released"]
    /\ UNCHANGED <<tableVars, brokerVars, isProcessing, pollVars, incidents>>

\* The batch has ended or the deadline has passed; the process exits.
Exit(i) ==
    /\ life[i] = "released"
    /\ life' = [life EXCEPT ![i] = "down"]
    /\ KillPolls(i)
    /\ UNCHANGED <<lock, tableVars, brokerVars, incidents>>

Crash(i) ==
    /\ life[i] # "down"
    /\ Incident
    /\ life' = [life EXCEPT ![i] = "down"]
    /\ KillPolls(i)
    /\ channel' = [channel EXCEPT ![i] = "closed"]
    /\ inflight' = [inflight EXCEPT ![i] = {}]
    /\ UNCHANGED <<lock, tableVars, broker, copies>>

Restart(i) ==
    /\ life[i] = "down"
    /\ life' = [life EXCEPT ![i] = "running"]
    /\ channel' = [channel EXCEPT ![i] = "open"]
    /\ UNCHANGED <<lock, tableVars, inflight, broker, copies, isProcessing, pollVars, incidents>>

-----------------------------------------------------------------------------
(* Environment: Redis, the broker, the clock and the services. *)

\* A service commits a business change together with its outbox row.
Enqueue(e) ==
    /\ status[e] = "absent"
    /\ status' = [status EXCEPT ![e] = "PENDING"]
    /\ UNCHANGED <<lock, retries, due, brokerVars, processVars, pollVars, incidents>>

BackoffElapses(e) ==
    /\ ~due[e]
    /\ due' = [due EXCEPT ![e] = TRUE]
    /\ UNCHANGED <<lock, status, retries, brokerVars, processVars, pollVars, incidents>>

LockExpires ==
    /\ lock # NoOwner
    /\ TtlCoversBatch => \A t \in Polls : InstanceOf[t] = lock => pc[t] \notin Relying
    /\ lock' = NoOwner
    /\ UNCHANGED <<tableVars, brokerVars, processVars, pollVars, incidents>>

BrokerAccepts(i, e) ==
    /\ e \in inflight[i]
    /\ inflight' = [inflight EXCEPT ![i] = @ \ {e}]
    /\ broker' = broker \union {e}
    /\ UNCHANGED <<lock, tableVars, channel, copies, processVars, pollVars, incidents>>

\* The broker closes the connection (its own restart, say): what it has not
\* accepted is lost, and QueuePublisherService never opens another channel.
ChannelCloses(i) ==
    /\ channel[i] = "open"
    /\ Incident
    /\ channel' = [channel EXCEPT ![i] = "closed"]
    /\ inflight' = [inflight EXCEPT ![i] = {}]
    /\ UNCHANGED <<lock, tableVars, broker, copies, processVars, pollVars>>

-----------------------------------------------------------------------------

Acquire(t) == Tick(t) \/ SetNx(t) \/ CheckOwner(t) \/ Renew(t)

Handle(t, row) == Publish(t, row) \/ MarkPublished(t, row) \/ MarkRetry(t, row)

\* What an invocation does when nothing goes wrong.
PollStep(t) ==
    Acquire(t) \/ Lead(t) \/ FindPending(t) \/ \E row \in batch[t] : Handle(t, row)

PollFails(t) ==
    \/ RedisFails(t) \/ FindFails(t)
    \/ \E row \in batch[t] : MarkFails(t, row) \/ RetryFails(t, row)

ShutdownStep(i) == ClearTimer(i) \/ ReleaseGet(i) \/ ReleaseDel(i) \/ Exit(i)

ProcessStep(i) == BeginShutdown(i) \/ ShutdownStep(i) \/ Crash(i) \/ Restart(i)

EnvironmentStep ==
    \/ LockExpires
    \/ \E e \in Events : Enqueue(e) \/ BackoffElapses(e)
    \/ \E i \in Instances : ChannelCloses(i) \/ \E e \in Events : BrokerAccepts(i, e)

Next ==
    \/ \E t \in Polls : PollStep(t) \/ PollFails(t)
    \/ \E i \in Instances : ProcessStep(i)
    \/ EnvironmentStep

Spec == Init /\ [][Next]_vars

\* Timers fire, promises settle, processes are restarted, backoffs pass, the
\* broker takes what reaches it, and the key of a dead owner expires.  Nothing
\* makes an incident happen, and a live owner's key need not expire.
Fairness ==
    /\ \A t \in Polls : WF_vars(PollStep(t))
    /\ \A i \in Instances : WF_vars(ShutdownStep(i)) /\ WF_vars(Restart(i))
    /\ \A e \in Events : WF_vars(BackoffElapses(e))
    /\ \A i \in Instances, e \in Events : WF_vars(BrokerAccepts(i, e))
    /\ WF_vars(lock # NoOwner /\ life[lock] = "down" /\ LockExpires)

FairSpec == Spec /\ Fairness

-----------------------------------------------------------------------------
(* Properties *)

Row == [id : Events, retries : 0 .. MaxRetries]

\* Types; retries never passes outbox.maxRetries, also under stale snapshots.
TypeOK ==
    /\ lock \in Instances \union {NoOwner}
    /\ status \in [Events -> {"absent", "PENDING", "PUBLISHED", "FAILED"}]
    /\ retries \in [Events -> 0 .. MaxRetries]
    /\ due \in [Events -> BOOLEAN]
    /\ life \in [Instances -> Lives]
    /\ isProcessing \in [Instances -> BOOLEAN]
    /\ channel \in [Instances -> {"open", "closed"}]
    /\ inflight \in [Instances -> SUBSET Events]
    /\ broker \in SUBSET Events
    /\ copies \in [Events -> Nat]
    /\ pc \in [Polls -> {"idle", "acquire", "check"} \union Relying]
    /\ batch \in [Polls -> SUBSET Row]
    /\ incidents \in 0 .. MaxIncidents

\* A row is only PUBLISHED when a message for it was handed to an open channel,
\* whatever two leaders with stale snapshots do to each other's rows.
PublishedWasHanded == \A e \in Events : status[e] = "PUBLISHED" => copies[e] > 0

\* Retry accounting under concurrent leaders: a row is given up only after
\* exactly MaxRetries failures were counted, and a row that is still pending has
\* at least one attempt left.
RetryBudget ==
    \A e \in Events :
        /\ status[e] = "FAILED" => retries[e] = MaxRetries
        /\ status[e] = "PENDING" => retries[e] < MaxRetries

\* The leader lock does its work: the polls that act as leader are all of one
\* process (the class comments of LeaderElectionService and OutboxPollerService).
OneInstanceProcesses ==
    \A t, u \in Polls : pc[t] \in Relying /\ pc[u] \in Relying => InstanceOf[t] = InstanceOf[u]

\* Duplicates have a cause: beyond the first, every copy of an event costs a
\* crash or a failed database call.
DuplicatesNeedIncidents == \A e \in Events : copies[e] <= 1 + incidents

\* The table and the channel as the abstract outbox sees them.
Delivery == INSTANCE OutboxDelivery WITH attempts <- retries, sent <- copies

\* With one leader at a time the worker implements the abstract outbox: no row
\* leaves PUBLISHED or FAILED, none is sent again after it, no failure is lost.
ImplementsDelivery == Delivery!Spec

\* Every row gets out of PENDING for good, whatever leaders crash, expire or
\* overwrite each other on the way.
EventuallySettled ==
    \A e \in Events :
        status[e] = "PENDING" ~> [](status[e] \in {"PUBLISHED", "FAILED"})
=============================================================================

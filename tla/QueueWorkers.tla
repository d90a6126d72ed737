----------------------------- MODULE QueueWorkers -----------------------------
(***************************************************************************)
(* The email worker and the notification worker: replicas that consume one *)
(* queue with prefetch 1, retry a failed job by publishing it again with a *)
(* higher retryCount, and park it in a dead-letter queue when the retries  *)
(* are used up.  An instance is one of the two (kind); consumer, retry and *)
(* dead-letter code is the same.                                           *)
(*                                                                         *)
(* A worker consumes on one connection and publishes on another, neither   *)
(* is reopened when the broker closes it, and publishing is not confirmed. *)
(***************************************************************************)
EXTENDS Integers, Sequences

CONSTANTS
    Jobs,         \* jobs in the queue, all different
    Workers,      \* replicas of the worker
    Devices,      \* push subscriptions of the user
    MAX_RETRIES,  \* EmailRetryService.MAX_RETRIES, NotificationRetryService.MAX_RETRIES
    MaxIncidents  \* bound on crashes and closed connections

ASSUME ConstantsAssumption == MAX_RETRIES \in Nat /\ MaxIncidents \in Nat

VARIABLES
    kind,      \* "email" or "notification"
    ready,     \* per job and retryCount: copies of its message in the queue
    worker,    \* per replica: the message it handles and how far it is
    consumer,  \* per replica: is the consuming channel open?
    publisher, \* per replica: is the publishing channel open?
    wire,      \* per replica: published messages the broker has not taken yet
    dead,      \* per job: messages in the dead-letter queue
    key,       \* emails: jobs with an idempotency key in the cache
    sent,      \* emails: times each was handed over to the mail server
    rows,      \* notifications: in-app rows made of each job
    gone,      \* notifications: subscriptions the push service no longer knows
    devices,   \* notifications: subscriptions in the database
    retried,   \* per job: retries scheduled (history)
    excuse,    \* per job: what can make it run again: a redelivery, a send or a mark
               \* whose failure hides that the mail went out (history)
    done,      \* jobs a handler finished without a failure (history)
    lost,      \* jobs of which a message was dropped (history)
    incidents  \* crashes and closed connections so far

broker == <<ready, wire, dead, lost>>
channels == <<consumer, publisher, incidents>>
effects == <<key, sent, rows, devices>>
vars == <<kind, broker, worker, channels, effects, gone, retried, excuse, done>>

Retries == 0..MAX_RETRIES
Messages == [job : Jobs, retry : Retries, to : {"queue", "dlq"}]

Idle == [at |-> "idle"]
Busy == [at : {"check", "send", "mark", "dispatch", "fail", "ack", "nack"},
         job : Jobs, retry : Retries, held : BOOLEAN, inApp : BOOLEAN,
         push : {"find", "send", "failed"}, left : SUBSET Devices]
First(k) == IF k = "email" THEN "check" ELSE "dispatch"

Handling(w) == worker[w].at # "idle"
JobOf(w) == worker[w].job

Init ==
    /\ kind \in {"email", "notification"}
    /\ ready = [j \in Jobs |-> [r \in Retries |-> IF r = 0 THEN 1 ELSE 0]]
    /\ worker = [w \in Workers |-> Idle]
    /\ consumer = [w \in Workers |-> TRUE] /\ publisher = [w \in Workers |-> TRUE]
    /\ wire = [w \in Workers |-> <<>>]
    /\ dead = [j \in Jobs |-> 0]
    /\ key = {} /\ sent = [j \in Jobs |-> 0] /\ rows = [j \in Jobs |-> 0]
    /\ gone \in (IF kind = "email" THEN {{}} ELSE SUBSET Devices)
    /\ devices = Devices
    /\ retried = [j \in Jobs |-> 0] /\ excuse = [j \in Jobs |-> 0]
    /\ done = {} /\ lost = {} /\ incidents = 0

Bump(f, j) == [f EXCEPT ![j] = @ + 1]
Goto(w, at) == worker' = [worker EXCEPT ![w].at = at]
Finish(w) == Goto(w, "ack") /\ done' = done \union {JobOf(w)}

\* QueueConsumerService hands the worker the next message.
Deliver(w) ==
    /\ consumer[w] /\ ~Handling(w)
    /\ \E j \in Jobs, r \in Retries :
        /\ ready[j][r] > 0
        /\ ready' = [ready EXCEPT ![j][r] = @ - 1]
        /\ worker' = [worker EXCEPT ![w] =
               [at |-> First(kind), job |-> j, retry |-> r, held |-> TRUE,
                inApp |-> FALSE, push |-> "find", left |-> {}]]
    /\ UNCHANGED <<kind, wire, dead, lost, channels, effects, gone, retried, excuse, done>>

-----------------------------------------------------------------------------
(* EmailWorkerService.processEmail *)

\* A job with a key is skipped; the cache or the template may throw.
Check(w) ==
    /\ worker[w].at = "check"
    /\ \/ JobOf(w) \in key /\ Finish(w)
       \/ JobOf(w) \notin key /\ Goto(w, "send") /\ UNCHANGED done
       \/ Goto(w, "fail") /\ UNCHANGED done
    /\ UNCHANGED <<kind, broker, channels, effects, gone, retried, excuse>>

\* The mail goes out; or it does not; or it does and the answer is lost.
Send(w) ==
    /\ worker[w].at = "send"
    /\ \/ sent' = Bump(sent, JobOf(w)) /\ Goto(w, "mark") /\ UNCHANGED excuse
       \/ Goto(w, "fail") /\ UNCHANGED <<sent, excuse>>
       \/ sent' = Bump(sent, JobOf(w)) /\ Goto(w, "fail") /\ excuse' = Bump(excuse, JobOf(w))
    /\ UNCHANGED <<kind, broker, channels, key, rows, devices, gone, retried, done>>

\* Mutant: the key is not written.
MarkNothing(w) ==
    /\ worker[w].at = "mark"
    /\ \/ Finish(w) /\ UNCHANGED <<key, excuse>>
       \/ Goto(w, "fail") /\ excuse' = Bump(excuse, JobOf(w)) /\ UNCHANGED <<key, done>>
    /\ UNCHANGED <<kind, broker, channels, sent, rows, devices, gone, retried>>

\* The key is written after the mail went out; when that fails, the job is retried.
Mark(w) ==
    /\ worker[w].at = "mark"
    /\ \/ key' = key \union {JobOf(w)} /\ Finish(w) /\ UNCHANGED excuse
       \/ Goto(w, "fail") /\ excuse' = Bump(excuse, JobOf(w)) /\ UNCHANGED <<key, done>>
    /\ UNCHANGED <<kind, broker, channels, sent, rows, devices, gone, retried>>

-----------------------------------------------------------------------------
(* NotificationWorkerService.processNotification, for both channels at once *)

\* Mutant: the insert is repeated when the live update after it fails.
InAppAgain(w) ==
    /\ worker[w].at = "dispatch" /\ ~worker[w].inApp
    /\ rows' = Bump(rows, JobOf(w)) \/ UNCHANGED rows
    /\ worker' = [worker EXCEPT ![w].inApp = TRUE] \/ UNCHANGED worker
    /\ UNCHANGED <<kind, broker, channels, key, sent, devices, gone, retried, excuse, done>>

\* The row is made, whether or not the live update after it is published; or the
\* insert fails, which is only logged.
InApp(w) ==
    /\ worker[w].at = "dispatch" /\ ~worker[w].inApp
    /\ rows' = Bump(rows, JobOf(w)) \/ UNCHANGED rows
    /\ worker' = [worker EXCEPT ![w].inApp = TRUE]
    /\ UNCHANGED <<kind, broker, channels, key, sent, devices, gone, retried, excuse, done>>

FindDevices(w) ==
    /\ worker[w].at = "dispatch" /\ worker[w].push = "find"
    /\ \/ worker' = [worker EXCEPT ![w].push = "send", ![w].left = devices]
       \/ worker' = [worker EXCEPT ![w].push = "failed"]
    /\ UNCHANGED <<kind, broker, channels, effects, gone, retried, excuse, done>>

\* One device after another: it is reached, or it is gone and its subscription is
\* deleted, or an error ends the loop.  Deleting a row that another replica has
\* deleted is such an error.
Push(w) ==
    /\ worker[w].at = "dispatch" /\ worker[w].push = "send"
    /\ \E d \in worker[w].left :
        \/ /\ d \notin gone
           /\ worker' = [worker EXCEPT ![w].left = @ \ {d}]
           /\ UNCHANGED devices
        \/ /\ d \in gone /\ d \in devices
           /\ worker' = [worker EXCEPT ![w].left = @ \ {d}]
           /\ devices' = devices \ {d}
        \/ /\ worker' = [worker EXCEPT ![w].push = "failed"]
           /\ UNCHANGED devices
    /\ UNCHANGED <<kind, broker, channels, key, sent, rows, gone, retried, excuse, done>>

\* Mutant: the push channel of a user without devices never settles.
SettleWithDevices(w) ==
    /\ worker[w].at = "dispatch" /\ worker[w].inApp
    /\ \/ worker[w].push = "failed" /\ Goto(w, "fail") /\ UNCHANGED done
       \/ worker[w].push = "send" /\ worker[w].left = {} /\ devices # {} /\ Finish(w)
    /\ UNCHANGED <<kind, broker, channels, effects, gone, retried, excuse>>

\* Both channels have settled; only a failed push is handed to the retry service.
Settle(w) ==
    /\ worker[w].at = "dispatch" /\ worker[w].inApp
    /\ \/ worker[w].push = "failed" /\ Goto(w, "fail") /\ UNCHANGED done
       \/ worker[w].push = "send" /\ worker[w].left = {} /\ Finish(w)
    /\ UNCHANGED <<kind, broker, channels, effects, gone, retried, excuse>>

-----------------------------------------------------------------------------
(* Retry service, dead-letter service and consumer *)

\* The message handleFailure publishes, and where.
RetryMessage(w) ==
    IF worker[w].retry + 1 > MAX_RETRIES
    THEN [job |-> JobOf(w), retry |-> worker[w].retry, to |-> "dlq"]
    ELSE [job |-> JobOf(w), retry |-> worker[w].retry + 1, to |-> "queue"]

\* Mutant: the failure is logged and the message acknowledged.
SwallowFailure(w) ==
    /\ worker[w].at = "fail"
    /\ Goto(w, "ack")
    /\ UNCHANGED <<kind, broker, channels, effects, gone, retried, excuse, done>>

\* A closed channel makes the publish, and with it the handler, throw.
HandleFailure(w) ==
    /\ worker[w].at = "fail"
    /\ IF publisher[w]
       THEN /\ wire' = [wire EXCEPT ![w] = Append(@, RetryMessage(w))]
            /\ retried' = IF RetryMessage(w).to = "queue" THEN Bump(retried, JobOf(w)) ELSE retried
            /\ Goto(w, "ack")
       ELSE Goto(w, "nack") /\ UNCHANGED <<wire, retried>>
    /\ UNCHANGED <<kind, ready, dead, lost, channels, effects, gone, excuse, done>>

Ack(w) ==
    /\ worker[w].at = "ack" /\ worker[w].held
    /\ worker' = [worker EXCEPT ![w] = Idle]
    /\ UNCHANGED <<kind, broker, channels, effects, gone, retried, excuse, done>>

\* nack without requeue: the queue has no dead-letter exchange of its own.
Nack(w) ==
    /\ worker[w].at = "nack" /\ worker[w].held
    /\ worker' = [worker EXCEPT ![w] = Idle]
    /\ lost' = lost \union {JobOf(w)}
    /\ UNCHANGED <<kind, ready, wire, dead, channels, effects, gone, retried, excuse, done>>

-----------------------------------------------------------------------------
(* The broker and the process *)

OnWire(w) == {wire[w][i].job : i \in 1..Len(wire[w])}

Accept(w) ==
    /\ wire[w] # <<>>
    /\ LET m == Head(wire[w])
       IN IF m.to = "dlq"
          THEN dead' = Bump(dead, m.job) /\ UNCHANGED ready
          ELSE ready' = [ready EXCEPT ![m.job][m.retry] = @ + 1] /\ UNCHANGED dead
    /\ wire' = [wire EXCEPT ![w] = Tail(@)]
    /\ UNCHANGED <<kind, lost, worker, channels, effects, gone, retried, excuse, done>>

\* The broker closes the publishing connection; what it had not taken is lost.
PublisherCloses(w) ==
    /\ publisher[w] /\ incidents < MaxIncidents
    /\ publisher' = [publisher EXCEPT ![w] = FALSE]
    /\ wire' = [wire EXCEPT ![w] = <<>>]
    /\ lost' = lost \union OnWire(w)
    /\ incidents' = incidents + 1
    /\ UNCHANGED <<kind, ready, dead, worker, consumer, effects, gone, retried, excuse, done>>

\* An unacknowledged message goes back to the queue: a reason for a job to run
\* again, but not for an email that is done.
Requeued(w) ==
    IF Handling(w) /\ worker[w].held
    THEN /\ ready' = [ready EXCEPT ![JobOf(w)][worker[w].retry] = @ + 1]
         /\ excuse' = IF kind = "email" /\ JobOf(w) \in done
                       THEN excuse ELSE Bump(excuse, JobOf(w))
    ELSE UNCHANGED <<ready, excuse>>

\* The broker closes the consuming connection; the handler goes on regardless.
ConsumerCloses(w) ==
    /\ consumer[w] /\ incidents < MaxIncidents
    /\ consumer' = [consumer EXCEPT ![w] = FALSE]
    /\ Requeued(w)
    /\ worker' = IF Handling(w) THEN [worker EXCEPT ![w].held = FALSE] ELSE worker
    /\ incidents' = incidents + 1
    /\ UNCHANGED <<kind, wire, dead, lost, publisher, effects, gone, retried, done>>

\* The process dies and starts again with fresh connections.
Restart(w) ==
    /\ Requeued(w)
    /\ worker' = [worker EXCEPT ![w] = Idle]
    /\ consumer' = [consumer EXCEPT ![w] = TRUE]
    /\ publisher' = [publisher EXCEPT ![w] = TRUE]
    /\ wire' = [wire EXCEPT ![w] = <<>>]
    /\ lost' = lost \union OnWire(w)
    /\ UNCHANGED <<kind, dead, effects, gone, retried, done>>

\* Acknowledging on a closed channel throws, in the catch block too: the
\* rejection is not handled and ends the process.
AckThrows(w) ==
    /\ worker[w].at \in {"ack", "nack"} /\ ~worker[w].held
    /\ Restart(w)
    /\ UNCHANGED incidents

Crash(w) ==
    /\ incidents < MaxIncidents
    /\ incidents' = incidents + 1
    /\ Restart(w)

Step(w) ==
    \/ Deliver(w)
    \/ Check(w) \/ Send(w) \/ Mark(w)
    \/ InApp(w) \/ FindDevices(w) \/ Push(w) \/ Settle(w)
    \/ HandleFailure(w) \/ Ack(w) \/ Nack(w) \/ AckThrows(w)
    \/ Accept(w)

Incident(w) == PublisherCloses(w) \/ ConsumerCloses(w) \/ Crash(w)

Next == \E w \in Workers : Step(w) \/ Incident(w)

\* Node runs every handler to its end and the broker delivers and accepts; nothing
\* is assumed of mail server, cache, database and push service.
Fairness == \A w \in Workers : WF_vars(Step(w)) /\ WF_vars(Accept(w))

Spec == Init /\ [][Next]_vars /\ Fairness

-----------------------------------------------------------------------------
(* Properties *)

InQueue(j) == \E r \in Retries : ready[j][r] > 0
InProgress(j) ==
    \E w \in Workers : (Handling(w) /\ JobOf(w) = j) \/ j \in OnWire(w)

\* Types.
TypeOK ==
    /\ kind \in {"email", "notification"}
    /\ ready \in [Jobs -> [Retries -> Nat]]
    /\ worker \in [Workers -> Busy \union {Idle}]
    /\ wire \in [Workers -> Seq(Messages)]
    /\ consumer \in [Workers -> BOOLEAN] /\ publisher \in [Workers -> BOOLEAN]
    /\ key \subseteq Jobs /\ done \subseteq Jobs /\ lost \subseteq Jobs
    /\ gone \subseteq Devices /\ devices \subseteq Devices
    /\ \A f \in {dead, sent, rows, retried, excuse} : f \in [Jobs -> Nat]
    /\ incidents \in 0..MaxIncidents

\* An email is sent again only if its message was redelivered before a handler was
\* done with it, or a send or a mark failed although the mail was out: against
\* redelivery after that the idempotency key protects.
MailsExplained == \A j \in Jobs : sent[j] <= 1 + excuse[j]

\* A user sees an in-app notification again only because its push was retried or
\* its message redelivered.
RowsExplained == \A j \in Jobs : rows[j] <= 1 + retried[j] + excuse[j]

\* A job is in the queue, in progress or in the dead-letter queue until it is done;
\* it vanishes only with a message the broker never took or was told to drop.
NoJobVanishes ==
    \A j \in Jobs :
        InQueue(j) \/ InProgress(j) \/ dead[j] > 0 \/ j \in done \/ j \in lost

\* As long as a replica keeps its consumer, every job is over some day: none is
\* retried for ever, and none stays behind in the queue.
JobsEnd ==
    <>[](\E w \in Workers : consumer[w])
        => \A j \in Jobs : <>[](~InQueue(j) /\ ~InProgress(j))
=============================================================================

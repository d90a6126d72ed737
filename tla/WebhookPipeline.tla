-------------------------- MODULE WebhookPipeline --------------------------
(***************************************************************************)
(* Inbound webhooks: the webhooks service stores each delivery as a row of *)
(* webhookLog and sends a message to payments.webhook.queue; replicas of   *)
(* the webhook worker take messages one at a time (prefetch 1), run the    *)
(* Razorpay handler with retries and park what keeps failing in the DLQ.   *)
(*                                                                         *)
(* A row is named after the HTTP request that created it.  All events are  *)
(* about one payment, which the database knows by its externalId.  Every   *)
(* await of the source is a step boundary; backoff sleeps are left out.    *)
(***************************************************************************)
EXTENDS Integers, FiniteSets

CONSTANTS
    NumRequests,   \* HTTP requests (deliveries and admin replays), bound
    Workers,       \* replicas of the webhook worker
    Kinds,         \* events Razorpay sends in this instance
    MaxRetries,    \* webhook-worker.maxRetries
    MaxIncidents,  \* bound on crashes, closed channels and failed database calls
    Enveloped      \* do bodies have Razorpay's {event, payload: {...}} envelope?

Requests == 1 .. NumRequests
None == 0

ASSUME ConstantsAssumption ==
    /\ NumRequests \in Nat
    /\ IsFiniteSet(Workers)
    /\ Kinds \subseteq {"captured", "failed", "refund", "dispute", "unhandled"}
    /\ MaxRetries \in Nat \ {0}
    /\ MaxIncidents \in Nat
    /\ Enveloped \in BOOLEAN

VARIABLES
    log,        \* webhookLog.status of each row
    kind,       \* its event type
    reqPc,      \* where each HTTP request is
    reqRow,     \* the row it is about
    apiUp,      \* is the webhooks service's AMQP channel open?
    queue,      \* messages of each row waiting in payments.webhook.queue
    dlq,        \* copies of each row's message in payments.webhook.queue.dlq
    wpc,        \* where each worker is
    wrow,       \* the row of the message it holds
    attempt,    \* the loop variable of handleMessage
    workerUp,   \* is the worker's publishing channel open?
    consumerUp, \* is the channel it consumes on open?
    payment,    \* payment.status
    disputed,   \* the dispute row exists
    notified,   \* notification.payment.completed messages published
    undone,     \* committed writes that took the payment out of COMPLETED (history)
    overtaken,  \* workers about to write, since whose read another has captured (history)
    doubled,    \* captures written by an overtaken worker (history)
    sent,       \* messages the service wrote to its channel, per row (history)
    gone,       \* messages of a row that left the queue for good (history)
    fate,       \* what has become of a row's messages (history)
    runs,       \* handler runs started for a row (history)
    incidents

apiVars     == <<reqPc, reqRow, apiUp>>
logVars     == <<log, kind>>
brokerVars  == <<queue, dlq>>
channelVars == <<workerUp, consumerUp>>
workerVars  == <<wpc, wrow, attempt, channelVars>>
paymentVars == <<payment, disputed, notified, undone, overtaken, doubled>>
historyVars == <<sent, gone, fate, runs>>
vars == <<apiVars, logVars, brokerVars, workerVars, paymentVars, historyVars, incidents>>

Init ==
    /\ log = [l \in Requests |-> "absent"]
    /\ kind = [l \in Requests |-> "none"]
    /\ reqPc = [r \in Requests |-> "unused"]
    /\ reqRow = [r \in Requests |-> None]
    /\ apiUp = TRUE
    /\ queue = [l \in Requests |-> 0]
    /\ dlq = [l \in Requests |-> 0]
    /\ wpc = [w \in Workers |-> "idle"]
    /\ wrow = [w \in Workers |-> None]
    /\ attempt = [w \in Workers |-> 0]
    /\ workerUp = [w \in Workers |-> TRUE]
    /\ consumerUp = [w \in Workers |-> TRUE]
    /\ payment = "COMPLETED"
    /\ disputed = FALSE
    /\ notified = 0
    /\ undone = 0
    /\ overtaken = {} /\ doubled = 0
    /\ sent = [l \in Requests |-> 0]
    /\ gone = [l \in Requests |-> 0]
    /\ fate = [l \in Requests |-> {}]
    /\ runs = [l \in Requests |-> 0]
    /\ incidents = 0

Incident == incidents < MaxIncidents /\ incidents' = incidents + 1

-----------------------------------------------------------------------------
(* The webhooks service *)

ReqMove(r, from, to) == reqPc[r] = from /\ reqPc' = [reqPc EXCEPT ![r] = to]

\* handleIncoming: signature, JSON and event are fine; the row is created.
Receive(r) ==
    /\ ReqMove(r, "unused", "dispatch")
    /\ reqRow' = [reqRow EXCEPT ![r] = r]
    /\ log' = [log EXCEPT ![r] = "PENDING"]
    /\ \E k \in Kinds : kind' = [kind EXCEPT ![r] = k]
    /\ UNCHANGED <<apiUp, brokerVars, workerVars, paymentVars, historyVars, incidents>>

\* replay: an admin asks for a stored row, whatever its status, once more.
Replay(r, l) ==
    /\ log[l] # "absent"
    /\ ReqMove(r, "unused", "dispatch")
    /\ reqRow' = [reqRow EXCEPT ![r] = l]
    /\ UNCHANGED <<apiUp, logVars, brokerVars, workerVars, paymentVars, historyVars, incidents>>

\* dispatch: the message is written to the socket; a dying connection eats it.
Dispatch(r) ==
    /\ apiUp
    /\ ReqMove(r, "dispatch", "mark")
    /\ sent' = [sent EXCEPT ![reqRow[r]] = @ + 1]
    /\ \/ /\ queue' = [queue EXCEPT ![reqRow[r]] = @ + 1]
          /\ UNCHANGED <<apiUp, gone, fate, incidents>>
       \/ /\ Incident
          /\ apiUp' = FALSE
          /\ gone' = [gone EXCEPT ![reqRow[r]] = @ + 1]
          /\ fate' = [fate EXCEPT ![reqRow[r]] = @ \union {"lost"}]
          /\ UNCHANGED queue
    /\ UNCHANGED <<reqRow, logVars, dlq, workerVars, paymentVars, runs>>

\* sendToQueue throws once the channel is closed.
DispatchThrows(r) ==
    /\ ~apiUp
    /\ ReqMove(r, "dispatch", "fail")
    /\ UNCHANGED <<reqRow, apiUp, logVars, brokerVars, workerVars, paymentVars, historyVars, incidents>>

\* The service marks the row PROCESSED as soon as the message is written.
ApiMarkProcessed(r) ==
    /\ ReqMove(r, "mark", "done")
    /\ log' = [log EXCEPT ![reqRow[r]] = "PROCESSED"]
    /\ UNCHANGED <<reqRow, apiUp, kind, brokerVars, workerVars, paymentVars, historyVars, incidents>>

\* The update throws: the catch block runs.
ApiMarkThrows(r) ==
    /\ Incident
    /\ ReqMove(r, "mark", "fail")
    /\ UNCHANGED <<reqRow, apiUp, logVars, brokerVars, workerVars, paymentVars, historyVars>>

\* The catch block marks the row FAILED, or throws itself.
ApiMarkFailed(r) ==
    /\ ReqMove(r, "fail", "done")
    /\ \/ log' = [log EXCEPT ![reqRow[r]] = "FAILED"] /\ UNCHANGED incidents
       \/ Incident /\ UNCHANGED log
    /\ UNCHANGED <<reqRow, apiUp, kind, brokerVars, workerVars, paymentVars, historyVars>>

\* The service's process dies and comes back: its requests end where they are.
ApiCrash ==
    /\ Incident
    /\ \/ ~apiUp
       \/ \E r \in Requests : reqPc[r] \in {"dispatch", "mark", "fail"}
    /\ apiUp' = TRUE
    /\ reqPc' = [r \in Requests |-> IF reqPc[r] = "unused" THEN "unused" ELSE "done"]
    /\ UNCHANGED <<reqRow, logVars, brokerVars, workerVars, paymentVars, historyVars>>

ApiStep(r) ==
    \/ Dispatch(r) \/ DispatchThrows(r)
    \/ ApiMarkProcessed(r) \/ ApiMarkThrows(r) \/ ApiMarkFailed(r)

-----------------------------------------------------------------------------
(* The worker: QueueConsumerService.consume and WebhookConsumer.handleMessage *)

Goto(w, label) == wpc' = [wpc EXCEPT ![w] = label]
At(w, label)   == wpc[w] = label
Row(w)         == wrow[w]

\* The message is acknowledged (or dropped by nack) on the channel it came on, and
\* the worker is free.
Release(w, what) ==
    /\ consumerUp[w]
    /\ Goto(w, "idle")
    /\ wrow' = [wrow EXCEPT ![w] = None]
    /\ attempt' = [attempt EXCEPT ![w] = 0]
    /\ gone' = [gone EXCEPT ![Row(w)] = @ + 1]
    /\ fate' = [fate EXCEPT ![Row(w)] = @ \union what]

\* Does the broker wait for worker w's answer about a message of row l?
Holds(w, l) == consumerUp[w] /\ Row(w) = l

\* The broker takes back the message it waits for an answer about, if any.
Requeue(w) ==
    queue' = [l \in Requests |-> IF Holds(w, l) THEN queue[l] + 1 ELSE queue[l]]

\* The process ends, and its supervisor starts it again: channels are opened once
\* per process.
Restart(w) ==
    /\ Goto(w, "idle")
    /\ wrow' = [wrow EXCEPT ![w] = None]
    /\ attempt' = [attempt EXCEPT ![w] = 0]
    /\ workerUp' = [workerUp EXCEPT ![w] = TRUE]
    /\ consumerUp' = [consumerUp EXCEPT ![w] = TRUE]

\* The broker delivers a message to an idle consumer.
Take(w, l) ==
    /\ At(w, "idle") /\ consumerUp[w] /\ queue[l] > 0
    /\ queue' = [queue EXCEPT ![l] = @ - 1]
    /\ wrow' = [wrow EXCEPT ![w] = l]
    /\ Goto(w, "check")
    /\ UNCHANGED <<apiVars, logVars, dlq, attempt, channelVars, paymentVars, historyVars, incidents>>

\* A handler run begins.
StartRun(w) ==
    /\ Goto(w, "handle")
    /\ attempt' = [attempt EXCEPT ![w] = @ + 1]
    /\ runs' = [runs EXCEPT ![Row(w)] = @ + 1]

\* A row already PROCESSED is skipped; otherwise the retry loop begins.
Check(w) ==
    /\ At(w, "check")
    /\ IF log[Row(w)] = "PROCESSED"
       THEN Release(w, {"skipped"}) /\ UNCHANGED runs
       ELSE StartRun(w) /\ UNCHANGED <<wrow, gone, fate>>
    /\ UNCHANGED <<apiVars, logVars, brokerVars, channelVars, paymentVars, sent, incidents>>

\* findUnique throws: the consumer nacks without requeueing.
CheckThrows(w) ==
    /\ Incident
    /\ At(w, "check")
    /\ Release(w, {"dropped"})
    /\ UNCHANGED <<apiVars, logVars, brokerVars, channelVars, paymentVars, sent, runs>>

\* Mutant: gives up one attempt early.
AttemptFailsEarly(w) ==
    IF attempt[w] + 1 < MaxRetries
    THEN StartRun(w)
    ELSE Goto(w, "exhausted") /\ UNCHANGED <<attempt, runs>>

\* Mutant: the loop forgets to count.
AttemptFailsUncounted(w) ==
    /\ Goto(w, "handle")
    /\ UNCHANGED <<attempt, runs>>

\* The catch block of the retry loop.
AttemptFails(w) ==
    IF attempt[w] < MaxRetries
    THEN StartRun(w)
    ELSE Goto(w, "exhausted") /\ UNCHANGED <<attempt, runs>>

\* Mutant: without the check for a payment captured before.
HandlerVerdictNoGuard(k) ==
    CASE Enveloped \/ k = "unhandled" -> "throw"
      [] ~Enveloped /\ k = "refund" -> "mark"
      [] OTHER -> "commit"

\* What a handler does after its first reads: throw, return, or go on to write.
\* The refund handler finds no refund: no code writes refund.externalId.
HandlerVerdict(k) ==
    CASE Enveloped \/ k = "unhandled" -> "throw"
      [] ~Enveloped /\ (k = "refund" \/ (k = "captured" /\ payment = "COMPLETED")) -> "mark"
      [] OTHER -> "commit"

\* WebhookWorkerService.dispatch finds the handler, which looks up its rows.
Handle(w) ==
    /\ At(w, "handle")
    /\ LET verdict == HandlerVerdict(kind[Row(w)])
       IN IF verdict = "throw"
          THEN AttemptFails(w)
          ELSE Goto(w, verdict) /\ UNCHANGED <<attempt, runs>>
    /\ overtaken' = overtaken \ {w}
    /\ UNCHANGED <<apiVars, logVars, brokerVars, wrow, channelVars, payment, disputed, notified, undone,
                   doubled, sent, gone, fate, incidents>>

SetPayment(s) ==
    /\ payment' = s
    /\ undone' = IF payment = "COMPLETED" /\ s # "COMPLETED" THEN undone + 1 ELSE undone

\* payment.captured: COMPLETED, whatever the status is by now.
CommitCaptured(w) ==
    /\ At(w, "commit") /\ kind[Row(w)] = "captured"
    /\ SetPayment("COMPLETED")
    /\ doubled' = IF w \in overtaken THEN doubled + 1 ELSE doubled
    /\ overtaken' = (overtaken \union {v \in Workers : At(v, "commit")}) \ {w}
    /\ Goto(w, "publish")
    /\ UNCHANGED <<disputed, attempt, runs>>

\* payment.failed: FAILED, whatever the status is.
CommitFailed(w) ==
    /\ At(w, "commit") /\ kind[Row(w)] = "failed"
    /\ SetPayment("FAILED")
    /\ Goto(w, "publish")
    /\ UNCHANGED <<disputed, overtaken, doubled, attempt, runs>>

\* dispute.created: DISPUTED and a dispute row, whose externalId is unique.
CommitDispute(w) ==
    /\ At(w, "commit") /\ kind[Row(w)] = "dispute"
    /\ IF disputed
       THEN AttemptFails(w) /\ UNCHANGED <<payment, disputed, undone>>
       ELSE /\ SetPayment("DISPUTED")
            /\ disputed' = TRUE
            /\ Goto(w, "mark")
            /\ UNCHANGED <<attempt, runs>>
    /\ UNCHANGED <<overtaken, doubled>>

Commit(w) ==
    /\ CommitCaptured(w) \/ CommitFailed(w) \/ CommitDispute(w)
    /\ UNCHANGED <<apiVars, logVars, brokerVars, wrow, channelVars, notified, sent, gone, fate, incidents>>

\* The notification is published, or the closed channel throws.
PublishNotification(w) ==
    /\ At(w, "publish")
    /\ IF workerUp[w]
       THEN /\ Goto(w, "mark")
            /\ notified' = IF kind[Row(w)] = "captured" THEN notified + 1 ELSE notified
            /\ UNCHANGED <<attempt, runs>>
       ELSE AttemptFails(w) /\ UNCHANGED notified
    /\ UNCHANGED <<apiVars, logVars, brokerVars, wrow, channelVars, payment, disputed, undone,
                   overtaken, doubled, sent, gone, fate, incidents>>

\* The row is PROCESSED and, at once, the message acknowledged.
WorkerMarkProcessed(w) ==
    /\ At(w, "mark")
    /\ log' = [log EXCEPT ![Row(w)] = "PROCESSED"]
    /\ fate' = [fate EXCEPT ![Row(w)] = @ \union {"handled"}]
    /\ Goto(w, "ack")
    /\ UNCHANGED <<apiVars, kind, brokerVars, wrow, attempt, channelVars, paymentVars,
                   sent, gone, runs, incidents>>

\* A database call of the handler or of the PROCESSED update throws.
HandlerThrows(w) ==
    /\ Incident
    /\ wpc[w] \in {"handle", "commit", "mark"}
    /\ AttemptFails(w)
    /\ UNCHANGED <<apiVars, logVars, brokerVars, wrow, channelVars, paymentVars, sent, gone, fate>>

\* After the last attempt: FAILED; an error of this update is only logged.
WorkerMarkFailed(w) ==
    /\ At(w, "exhausted")
    /\ Goto(w, "dlq")
    /\ \/ log' = [log EXCEPT ![Row(w)] = "FAILED"] /\ UNCHANGED incidents
       \/ Incident /\ UNCHANGED log
    /\ UNCHANGED <<apiVars, kind, brokerVars, wrow, attempt, channelVars, paymentVars, historyVars>>

\* The message is parked; on a closed channel it is dropped instead.
SendToDlq(w) ==
    /\ At(w, "dlq")
    /\ IF workerUp[w]
       THEN /\ dlq' = [dlq EXCEPT ![Row(w)] = @ + 1]
            /\ fate' = [fate EXCEPT ![Row(w)] = @ \union {"parked"}]
            /\ Goto(w, "ack")
            /\ UNCHANGED <<wrow, attempt, gone>>
       ELSE Release(w, {"dropped"}) /\ UNCHANGED dlq
    /\ UNCHANGED <<apiVars, logVars, queue, channelVars, paymentVars, sent, runs, incidents>>

Ack(w) ==
    /\ At(w, "ack")
    /\ Release(w, {})
    /\ UNCHANGED <<apiVars, logVars, brokerVars, channelVars, paymentVars, sent, runs, incidents>>

\* On a closed channel ack throws, and nack in the catch block too: the rejection
\* is not handled and ends the process.  The broker has the message back already.
\* (So does a check whose database call fails here, which is a WorkerCrash.)
AckThrows(w) ==
    /\ ~consumerUp[w]
    /\ \/ At(w, "ack")
       \/ At(w, "check") /\ log[Row(w)] = "PROCESSED"
       \/ At(w, "dlq") /\ ~workerUp[w]
    /\ Restart(w)
    /\ UNCHANGED <<apiVars, logVars, brokerVars, paymentVars, historyVars, incidents>>

\* Mutant: messages are acknowledged on delivery, a crash does not requeue them.
WorkerCrashNoAck(w) ==
    /\ Incident
    /\ ~At(w, "idle") \/ ~workerUp[w] \/ ~consumerUp[w]
    /\ Restart(w)
    /\ UNCHANGED <<apiVars, logVars, brokerVars, paymentVars, historyVars>>

\* The process dies, working or with a channel closed, and restarts; the broker
\* requeues what it had not acknowledged.
WorkerCrash(w) ==
    /\ Incident
    /\ ~At(w, "idle") \/ ~workerUp[w] \/ ~consumerUp[w]
    /\ Requeue(w)
    /\ Restart(w)
    /\ UNCHANGED <<apiVars, logVars, dlq, paymentVars, historyVars>>

\* The broker closes the worker's publishing channel.
ChannelCloses(w) ==
    /\ Incident
    /\ workerUp[w]
    /\ workerUp' = [workerUp EXCEPT ![w] = FALSE]
    /\ UNCHANGED <<apiVars, logVars, brokerVars, wpc, wrow, attempt, consumerUp, paymentVars, historyVars>>

\* The broker closes the channel the worker consumes on, which nothing reopens,
\* and takes the message back; the handler goes on with its copy.
ConsumerCloses(w) ==
    /\ Incident
    /\ consumerUp[w]
    /\ consumerUp' = [consumerUp EXCEPT ![w] = FALSE]
    /\ Requeue(w)
    /\ UNCHANGED <<apiVars, logVars, dlq, wpc, wrow, attempt, workerUp, paymentVars, historyVars>>

WorkerStep(w) ==
    \/ \E l \in Requests : Take(w, l)
    \/ Check(w) \/ CheckThrows(w)
    \/ Handle(w) \/ Commit(w) \/ PublishNotification(w) \/ HandlerThrows(w)
    \/ WorkerMarkProcessed(w) \/ WorkerMarkFailed(w) \/ SendToDlq(w) \/ Ack(w) \/ AckThrows(w)

Next ==
    \/ \E r \in Requests : Receive(r) \/ ApiStep(r) \/ \E l \in Requests : Replay(r, l)
    \/ \E w \in Workers : WorkerStep(w) \/ WorkerCrash(w) \/ ChannelCloses(w) \/ ConsumerCloses(w)
    \/ ApiCrash

Spec == Init /\ [][Next]_vars

\* Processes that run are scheduled, and the broker delivers to a consumer whose
\* channel is open; nobody has to send, crash, fail or restart.
Fairness ==
    /\ \A r \in Requests : WF_vars(ApiStep(r))
    /\ \A w \in Workers : WF_vars(WorkerStep(w))

FairSpec == Spec /\ Fairness

-----------------------------------------------------------------------------
(* Properties *)

Held(l) == Cardinality({w \in Workers : Holds(w, l)})

\* Type invariant; the attempt counter stays within webhook-worker.maxRetries.
TypeOK ==
    /\ log \in [Requests -> {"absent", "PENDING", "PROCESSED", "FAILED"}]
    /\ kind \in [Requests -> Kinds \union {"none"}]
    /\ reqPc \in [Requests -> {"unused", "dispatch", "mark", "fail", "done"}]
    /\ reqRow \in [Requests -> Requests \union {None}]
    /\ apiUp \in BOOLEAN
    /\ queue \in [Requests -> Nat] /\ dlq \in [Requests -> Nat]
    /\ wpc \in [Workers -> {"idle", "check", "handle", "commit", "publish", "mark",
                            "exhausted", "dlq", "ack"}]
    /\ wrow \in [Workers -> Requests \union {None}]
    /\ attempt \in [Workers -> 0 .. MaxRetries]
    /\ workerUp \in [Workers -> BOOLEAN]
    /\ consumerUp \in [Workers -> BOOLEAN]
    /\ payment \in {"COMPLETED", "FAILED", "DISPUTED"}
    /\ disputed \in BOOLEAN
    /\ notified \in Nat /\ undone \in Nat
    /\ overtaken \subseteq Workers /\ doubled \in Nat
    /\ sent \in [Requests -> Nat] /\ gone \in [Requests -> Nat] /\ runs \in [Requests -> Nat]
    /\ fate \in [Requests -> SUBSET {"lost", "dropped", "skipped", "handled", "parked"}]
    /\ incidents \in 0 .. MaxIncidents

\* Every message the service sent is in the queue, with a worker, or left the
\* queue for good, and whatever left did so for a reason: its row was skipped,
\* handled or parked, or an incident dropped it (consume, handleMessage, DLQ).
MessagesAccountedFor ==
    \A l \in Requests :
        /\ sent[l] = queue[l] + Held(l) + gone[l]
        /\ gone[l] > 0 => fate[l] # {}
        /\ fate[l] \cap {"lost", "dropped"} # {} => incidents > 0

\* A message reaches the DLQ only after maxRetries runs of the handler, and no
\* row's handler runs more often than its deliveries and crashes allow.
ParkedAfterRetries ==
    \A l \in Requests :
        /\ dlq[l] > 0 => runs[l] >= MaxRetries
        /\ runs[l] <= MaxRetries * (sent[l] + incidents)

\* The client is told of a completed payment at most once for each time the
\* payment was taken out of COMPLETED, and once for each capture that a worker
\* wrote though another had captured since its read: redeliveries, retries and
\* replays alone never repeat the notice.
OneNoticePerCompletion == notified <= undone + doubled

\* Some replica keeps its consumer: nothing reopens the channel of another one
\* whose process lives on (QueueConsumerService.onModuleInit opens it once).
ConsumerStays == <>[](\E w \in Workers : consumerUp[w])

\* As long as a replica keeps its consumer, every row whose message was sent is
\* settled as PROCESSED or FAILED, unless an incident lost the message or the
\* worker's last update.
DispatchedRowSettles ==
    ConsumerStays =>
        \A l \in Requests :
            sent[l] > 0 ~> \/ log[l] \in {"PROCESSED", "FAILED"}
                           \/ fate[l] \cap {"lost", "dropped", "parked"} # {}

\* As long as a replica keeps its consumer, every message in the queue leaves it
\* and its worker in the end, though workers crash, channels close under a running
\* handler, calls fail and handlers throw.
QueueDrains ==
    ConsumerStays =>
        \A l \in Requests : queue[l] > 0 ~> queue[l] = 0 /\ \A w \in Workers : Row(w) # l

\* Claim of webhook.consumer.ts:18 and webhook-receiver.controller.ts:128: the
\* worker skips a message only when its row has been handled before.
SkipsOnlyHandled ==
    \A l \in Requests : "skipped" \in fate[l] => "handled" \in fate[l]
=============================================================================

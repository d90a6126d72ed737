# Nestlancer backend: a TLA+ verification project

The Nestlancer backend (`src/`) is a NestJS monorepo: an API gateway, a WebSocket
gateway, sixteen HTTP services, eight queue workers and two dozen shared libraries
over PostgreSQL (a primary and a read replica), Redis, RabbitMQ and an object
storage. This directory models its concurrent core in TLA+, checks it with TLC and
proves its safety with TLAPS. Every definition that models code is translated from
the TypeScript; `PROJECT.json` names the lines each one stands for, the hazards the
properties are for, and, per property, a plausible bug that breaks it.

## 1. Inventory

### How the parts interact

1. A client's HTTP request goes through the **API gateway** to a **service**. The
   service reads a snapshot, mostly from the **read replica**, checks it, and then
   writes by id on the **primary**, usually together with a row of the `outbox`
   table.
2. Replicas of the **outbox-poller** elect a leader with a Redis key; the leader
   turns PENDING outbox rows into RabbitMQ messages.
3. **Queue workers** consume with prefetch 1 through `libs/queue`, and acknowledge,
   retry by publishing again, or park in `<queue>.dlq`.
4. Razorpay calls the **webhooks service**, which stores the delivery and queues it;
   the **webhook worker** changes payments, refunds and disputes, the same rows the
   payments service writes.
5. The **media worker** scans and transforms what clients put into the object
   storage, and moves files that the storage's local fallback took back to it.
6. Live updates go through Redis pub/sub to the **ws-gateway**.

### Components

| Part | State | Operations | What is hard | What makes it correct |
| --- | --- | --- | --- | --- |
| outbox-poller worker | leader key, outbox rows, `isProcessing`, AMQP channel | poll, acquire, renew and release the lock, publish, mark, retry, shutdown | lock expiry in the middle of a batch, non-atomic GET/EXPIRE and GET/DEL, stale retry counters, crash between publish and mark, unconfirmed publishing | one leader; PUBLISHED means handed over; retries accounted for; every row settled |
| webhooks service, webhook worker | `webhookLog`, messages, payment, dispute | store, dispatch, mark, replay; check, handle with retries, mark, dead-letter, ack | two writers of one status, redelivery, reordering, a crash between effect and ack | no message vanishes; handled before skipped; one notice per completion; the queue drains |
| requests and quotes services | request and quote rows | submit, delete, override, quote, send, view, accept, decline, change, revise, drop | checks on a lagging snapshot followed by writes by id | a quote is decided once; request and quote agree; revisions are announced |
| payments service | payment, refund and milestone rows, Razorpay | intent, manual payment, cancel, release, refund | a remote call between check and booking, concurrent refunds, crash in between | the total stays within the amount; the books match Razorpay; a released payment stays paid |
| auth and users services | user and configuration rows, reset tokens, avatar objects | reset password; request, cancel and decide deletion and suspension; set up, verify and drop the second factor; change the avatar | tokens, statuses and secrets checked on a lagging replica; objects deleted after the row was written | a token is used once; a blocked account stays blocked; the factor in force was verified; the avatar exists |
| media service, media worker | media rows, the object, a lock per row, jobs | three uploads, confirm, edit, copy, delete, admin's status; lock, scan, process, unlock | a lock that outlives a crash, lapses in a long pipeline and is deleted by whoever ends one; whole-row writes from old snapshots | overlaps need lapses; a PROCESSING row is explained; no object outlives its rows |
| libs/storage, storage sync | cloud object, local file and its metadata file | upload with fallback, delete, sync | two-step local writes, several processes syncing one directory, faults between any two steps | the newest upload is kept; deleted stays deleted; whole bodies; waiting copies move |
| messaging service | messages with JSON lists of readers and reactions | send, read, react, pin, flag, edit, delete | columns read from the replica and written back whole; two features share one column | nobody's reaction or receipt is lost; a deleted message stays empty |
| email worker, notification worker | queue messages, idempotency keys, in-app rows, push subscriptions | check, send, mark; row and push per channel; retry; dead-letter | failure after the effect, unconfirmed retries, closed channels, two replicas on one message | repetitions have a cause; no job vanishes silently; retries end |
| audit worker | in-memory buffer, audit rows, fallback file | buffer, flush by size, timer and shutdown, fallback | acknowledged before stored, overlapping flushes, shutdown while consuming | each entry accounted for; no double rows; batches disjoint; entries settle |
| ws-gateway | connection sets, presence keys, rooms | connect, disconnect, heartbeat | nothing sets `client.data.user`, so no handler gets as far as its state | - |
| blog, portfolio | posts, likes, like counters | toggle like, bookmark, comment | a like and its counter are one transaction; a comment's counter is written from the replica | the counter is the number of likes |
| projects, progress | project, milestone, deliverable rows | approve, request revision, complete | most transactions name an outbox column that does not exist and roll back | - |
| contact, notifications, admin, health, API gateway, analytics worker, cdn worker, other libraries | single rows, caches, or nothing | create, read, update, delete; forwarding; adapters | little: no step of two actors | - |

The last four rows are not modelled; `PROJECT.json` gives the reason for each part.

## 2. Modules

Conventions: an action is one handler, or the part of one between two awaits, so
that every interleaving Node and the other processes allow is a behaviour. A check
that fails changes nothing and is left out as a step. *History* variables only
serve properties. `MC<Module>.tla` gives `<Module>.tla` its model values;
`<Module>Proofs.tla` holds its theorems. Two proof modules cover two components
each: **LocalFallbackProofs** AuditWorker and StorageSync, which both fall back on a
file of the process, **UserFacingProofs** QueueWorkers and MessageMarks, whose effects
users see. Since a proof module extends both, the specifications of StorageSync and
MessageMarks are called `StorageSpec` and `MarksSpec`, with `StorageInit`,
`StorageNext`, `StorageTypeOK`, `MarksInit`, `MarksNext`, `MarksTypeOK`; elsewhere the
names are `Spec`, `Init`, `Next`, `TypeOK`. A definition commented "Mutant" is a
variant of the one after it with a plausible bug; the models themselves never use
it.

**OutboxPoller** (`workers/outbox-poller`, the publishing half of `libs/queue`).
An element of `Polls` is a `poll()` invocation, because `setInterval` starts a tick
while an earlier one still awaits Redis. `pc` names the await it is at: SET NX, GET
and EXPIRE of `LeaderElectionService.acquireLock`, `findMany`, publish, mark, retry.
`batch` is the snapshot `findMany` returned, retry counters included; the retry
update writes the snapshot's counter plus one, whatever the row holds by then.
`life` follows SIGTERM: the channel closes in `onModuleDestroy`, then
`onApplicationShutdown` waits for the batch and releases the lock with GET and DEL.
**OutboxDelivery** is what the outbox promises about a row, without saying how:
recorded, sent while pending, settled once. OutboxPoller implements it through
`Delivery == INSTANCE OutboxDelivery WITH attempts <- retries, sent <- copies`.

**WebhookPipeline** (`services/webhooks`, `workers/webhook-worker`). A request
stores a row, dispatches a message and marks the row PROCESSED, in three steps, as
the service does; a worker takes a message, checks the row, runs the Razorpay
handler up to `MaxRetries` times, marks the row and acknowledges. Handlers read the
payment in one step and commit in another. The payment starts COMPLETED with an
`externalId`: apart from the development seed
(`prisma/seeds/dev/11-test-projects.seed.ts:166`) no code ever writes one, and
without it every handler returns early. `doubled` counts captures written by a
worker that another capture has overtaken since its read. A worker has a channel to
publish on (`workerUp`) and one to consume on (`consumerUp`), each opened once per
process. When the consuming one closes the broker takes the message back while the
handler goes on with its copy; acknowledging then throws, as does the nack in the
catch block, which ends the process (`AckThrows`).

**QuoteLifecycle** (`services/quotes`, `services/requests`). `db` holds request and
quote, `replica` an earlier version, `lag` the versions in between. A call begins by
passing its check on the snapshot its code reads, and commits later. `stale` counts
commits whose check no longer held on the primary, `reopened` those that took a
decision back. UserAccount and MessageMarks are built the same way.

**PaymentLedger** (`services/payments` and the webhook handlers as writers of the
same row). A refund is three steps: check, Razorpay, books; the new total is that of
the first step's snapshot plus the amount, as `refund.service.ts:64` computes it. A
call can die between any two steps.

**UserAccount** (`services/auth`, `services/users`). One user's status, second
factor, avatar and reset tokens. `blocked` is the admins' last decision; `laundered`
says that the user has since requested a deletion, which replaces SUSPENDED by
PENDING_DELETION, or that a cancellation ran on a stale snapshot. `verified` is the
secret the user last proved to have. An upload of an avatar is four steps: the
object, the replica's old key, the row, the deletion of the old object; the key
contains a millisecond, so two uploads may `collide`.

**MediaPipeline** (`services/media`, `workers/media-worker`). One object and the rows
that name it: the upload's and its copies. A worker takes the lock, marks the row
PROCESSING, scans, transforms, writes the result, and deletes the lock, whoever has
it by then. A crash leaves the lock (`lock`) and has the broker deliver the message
again; the redelivery finds the lock, is skipped and acknowledged (`abandoned`).
`lapses` counts locks that expired under a running pipeline.

**StorageSync** (`libs/storage`, the sync job of each media worker). One key: the
cloud's object, and a local file with its metadata file, written and deleted one
after the other. `expected` is the outcome of the last call if it had the key to
itself, `Unknown` otherwise.

**MessageMarks** (`services/messaging`). One message: `readBy`, and the `reactions`
column that reactions write as a list while pins and flags set properties on
whatever value it holds (`shape`). `readers`, `reactors` and `labels` are what was
confirmed to users.

**QueueWorkers** (`workers/email-worker`, `workers/notification-worker`,
`libs/queue`). `kind` selects the worker; consuming, retrying and dead-lettering is
one code. Publishing is not confirmed, so a published message stays on the `wire`
until the broker takes it or the connection closes. `held` tells whether the
message in progress can still be acknowledged: after a closed channel the handler
goes on, its ack throws, and so does the nack in the catch block, which ends the
process. A connection that fails with an error ends the process at once, because no
listener is registered: that is `Crash`; `ConsumerCloses` and `PublisherCloses` are
the closes the broker announces.

**AuditWorker** (`workers/audit-worker`). Only the handler whose entry fills the
buffer waits for a batch; timer and shutdown start batches of their own, so
`batches` is a set. A failed insert may have committed. `onModuleDestroy` waits for
its own batch while the consumer goes on.

## 3. What the runs check

| Run | Question | Bounds | Distinct states |
| --- | --- | --- | --- |
| outbox_exclusive | If the TTL outlives each poll and nobody is stopped gracefully: one leader, duplicates only through incidents, and the abstract outbox implemented | 2 replicas with a poll each, 2 rows, batch 1, 2 retries, 2 incidents | 168,403 |
| outbox_races | Without those assumptions, and with lost replies: PUBLISHED still means handed over, retry accounting holds, every row is settled for good | 2 replicas, 1 row, 2 retries, 2 incidents | 274,321 |
| webhook_liveness | Messages are accounted for, parked only after their retries, a completion announced once, rows settle, the queue drains; through duplicates, replays, crashes and closed channels, publishing or consuming | 2 requests, 2 workers, 4 kinds of event, 2 attempts, 1 incident | 293,368 |
| quote_lifecycle | Every decision beyond the first is explained by a stale commit or a reopening; the rows agree; revisions are announced | 2 calls at once, replica 1 behind, 5 commits | 2,233,544 |
| payment_ledger | The payment's total stays within the amount; refunds that saw each other are exact; released payments stay paid; refunds are booked | 2 calls at once, amount 3, replica 2 behind, 5 writes | 1.75 million |
| user_account | Reset tokens work once, blocked accounts stay blocked, the second factor is the verified one, avatars exist | 2 calls at once, replica 1 behind, 4 commits, 2 tokens, 2 secrets, 3 keys | 1,318,597 |
| media_pipeline | Pipelines of one row overlap only through lapsed locks, PROCESSING is explained, objects do not outlive their rows | 2 rows, 2 workers, 2 jobs, 1 incident, 2 calls | 2,761,928 |
| storage_sync | The newest upload is kept, deletions last, no torn object reaches the cloud, waiting copies get there | 2 bodies (so two uploads), 2 calls at once, 2 sync jobs, 1 deletion, 3 faults | 59,289 |
| message_marks | Receipts, reactions, pins and flags are what was confirmed, a deleted message stays empty, each up to what its exceptions name | 2 users, 2 calls at once, replica 1 behind, 4 commits | 751,128 |
| queue_workers | What can repeat a mail or a row, when a job can vanish, that retries end | 1 job, 2 replicas, 2 devices, 1 retry, 1 incident | 261,587 |
| audit_worker | Entries are accounted for, written once unless redelivered, in disjoint batches, and settle | 3 entries, buffer of 2, 2 incidents | 67,716 |

One run finds the code at odds with what it says of itself. **webhook_skip**: the
service marks a row PROCESSED after dispatching it
(`webhook-ingestion.service.ts:95`), and the worker skips PROCESSED rows, which
`webhook.consumer.ts:18` calls idempotency: a webhook may never be handled. Section 6 lists the disagreements that the other runs' exceptions show.

Every type invariant is proved (section 5), so no run repeats it.

### What the exceptions in the properties mean

Many invariants allow for something that a history variable counts: `doubled`,
`stale`, `reopened`, `unannounced`, `blind`, `unbooked`, `laundered`, `collided`,
`abandoned`, `forgot`, `rewrote`, `excuse`, `retried`, `lost`, `vanished`, `toggles`,
`staleReads`, `staleMarks`, `staleEdits`. The code really does what is counted there
(section 6 lists it). Such a property does not exclude that hazard: it shows that the
damage has no other cause and, where it counts, that each occurrence costs one repetition at
most. The notes of the hazards in `PROJECT.json` say which ones are meant.

### Why the bounds are enough

The races are between two actors and a third party that fails: two replicas, two
calls or two workers show them, and a row, quote or payment is independent of the
others, since no code relates two rows of one table (copies of a media row are the
exception, hence two of them). Two rows matter for the poller, because a leader can
be overtaken between the rows of a batch; three audit entries, because two batches
must be on their way at once; three avatar keys, because what is there, what
replaces it and what overtakes both must differ. Each upload brings a body of its own
and the properties of StorageSync compare a body only with the one expected, so two
bodies are two uploads; its three faults send an upload to the fallback and then hit
each of the two jobs (three bodies pass as well, with 818,605 states, in three
minutes). Two attempts
(`MaxRetries` 2, or one retry) distinguish the first, a middle and the last.
`MaxIncidents` and `MaxFaults` bound crashes, closed connections, lapsed locks and
failed calls: one puts a fault at every point, two let a recovery fail. An amount of
3 allows refunds of 1 and 2, in full and in excess. Counters that would grow without
end are capped by `MaxCommits`, `MaxReturned`, `NumRequests`, `MaxJobs`, `MaxCalls`,
`MaxDeletes`, `MaxTokens`, `MaxSecrets`, `MaxKeys` and `MaxIncidents`. The theorems
of section 5 do without the bounds. Symmetry is used for calls and for media
workers, and only in runs without liveness properties. `CHECK_DEADLOCK FALSE`
appears where the system really stops: all requests made, all jobs done, all commits
used up.

## 4. Fairness

Weak fairness, and only of steps that the runtime or the broker takes unless
something breaks: a handler goes on after an await, a timer fires, the broker
delivers, accepts and redelivers, a stopped process is restarted by its supervisor,
a dead leader's key expires, a worker's sync job runs again after the last one.
Nothing is assumed of the *outcome* of a call: a mail server, a database or a push
service may fail every time, which is why `EventuallySettled` allows FAILED, and
`JobsEnd` the dead-letter queue. `JobsEnd`, `EntriesSettle`, `QueueDrains` and
`DispatchedRowSettles` assume that in the end a consumer stays open, because no code
consumes again after its channel was closed, and nothing ends a process that is idle
then. Without the assumption the first three are false: a message waits for ever when
the last consumer has closed. `DispatchedRowSettles` shares the premise because a row
whose service died before marking it depends on the worker. In webhook_liveness the
one incident closes at most one of two consumers, so the premise always holds there, and the
run shows that the other worker drains the queue, messages taken back included. Incidents and faults are never fair; being
bounded, they end.

## 5. What is proved

Every invariant of a run that passes is also a theorem, for every value of the
constants. Assumed are the constants' `ConstantsAssumption`s (`StorageAssumption`,
`MarksAssumption`) and nothing else, unless a theorem says so. Each module's type
invariant is its `TypeCorrect` (`StorageTypeCorrect`, `MarksTypeCorrect`).

**OutboxPollerProofs**, for any number of replicas, polls and rows:
`RetriesAreBudgeted`, `PublishedRowsWereHanded`, `OneLeaderAtATime`,
`PollerImplementsDelivery` and `DuplicatesCostIncidents`. The first two hold for
concurrent stale leaders; `RetryBudget` is not inductive, because a retry is computed
from a snapshot: `BudgetInv` adds that every snapshot row still has an attempt left,
`HandedInv` that an invocation about to mark a row has handed it over. The last three
have as hypotheses that the TTL covers a batch and nobody is stopped gracefully
(outbox_races shows what survives without), and the last two also that a replica has
one poll at a time and failed updates did not commit: then `LockInv` gives one
leader, `SoloInv` that the leader's snapshot agrees with the rows it has not handled
yet, so each step is a step of OutboxDelivery or a stutter, and `CopiesPaid` that
each copy beyond the first was paid for with an incident.

**WebhookPipelineProofs**, for any number of requests, workers, attempts and
incidents: `MessagesAccounted`; `ParkedNotEarly`, through `ParkInv`: a worker's runs
so far are bounded by the attempts its delivery and the incidents have brought, and
the worker that parks has used all of its own (a consumer that closes under a handler
gives the message a second life, paid for by the incident); `OneNotice`, through `NoticeInv`: a
worker that read the payment before another's capture is among the overtaken, so the
notice it sends is paid for in `doubled`.

**QuoteLifecycleProofs**, for any number of calls and any lag:
`QuoteIsDecidedOnce`, through `DecisionInv`, which counts the decision that stands
beside the reopened and the stale ones (without it a reopening would not be seen to
pay for the next decision); `RowsAgree`; `RevisionsAreAnnounced`, through an equation:
revisions are those announced, those given up, and one per call between the two
writes.

**PaymentLedgerProofs**, for every amount, any number of calls and any lag:
`TotalWithinAmount`, through `AmountInv`: each version on its way to the replica is
within the amount, and each refund in progress fits on top of *its* snapshot, which
is why overlapping refunds can lose each other's total but never exceed the amount;
`SightedRefunds`, through `SightInv`: while no refund was blind, snapshots lag behind
the books, the books behind Razorpay, and a refund between Razorpay and the books is
the only one there and exactly the difference; `EveryRefundIsBooked`, through
`BookInv`, which counts the money calls hold as a set of coins;
`ReleasedPaymentsStayPaid`, through `OrderInv`: until Razorpay has answered the
intent no version is one that another call would write over.

**UserAccountProofs**, for any number of calls and any lag: `ResetOnce`, through
`ResetInv`: a token stored on the primary was never used; `BlockedNeedsCause` and
`FactorWasVerified`; `AvatarsExist`, through `AvatarInv`: an upload works on a key of
its own that no row has named yet, and no row names any more what a call is about to
delete.

**MediaPipelineProofs**, for any number of rows, workers, jobs and calls:
`OverlapsAreLapses` (a running pipeline beyond the lock's holder was overtaken by a
lapse), `ProcessingEnds` (an invariant in spite of its name: whoever wrote PROCESSING
is still under way, comes again, or is accounted for) and `ObjectsAreFreed`.

**LocalFallbackProofs**. Of StorageSync, for any number of bodies, calls, sync jobs
and faults: `KeptUntilMoved` and `GoneForGood`, through `NewestInv`, and
`OnlyWholeBodies`, through `WholeInv`. Of AuditWorker, for any number of entries, any
batch size and any number of incidents: `NoEntryDisappears`,
`OverlappingFlushesAreDisjoint` (through `ApartInv`: the buffer shares nothing with a
batch either) and `OneRowPerDelivery`.

**UserFacingProofs**. Of QueueWorkers, for any number of jobs, workers, devices,
retries and incidents: `JobsAreAccountedFor`, through `SomewhereInv`: a job that is
not over (done, parked, or a message of it dropped) is in the queue, on a wire, or
with a handler that still holds its message; `EveryMailIsExplained` and
`EveryRowIsExplained`, which say what can repeat an effect. These two count. Each copy
of a job in the queue or on a wire, and each handler that holds its message and has
yet to send, is permission for one more mail (or row); retries and incidents are what
permission is bought with. `BudgetInv` says that mails plus outstanding permission
never exceed what was bought, where copies stop counting once the idempotency key
exists, and `KindInv` that each worker has only its own kind of effect. `ParkedOnlyAfterRetries`:
neither a redelivery nor a crash lets a message skip a retry, through `RetriesInv`: no
copy, wherever it is, is ahead of the retries its job has been scheduled.

Of MessageMarks, for any number of users, calls and any lag: `ReceiptsStay`, through
`ReceiptInv` and `BlankInv` (nothing is recorded of a message that is not sent yet, so
the row it is created with forgets nobody); `MarksStayExact`, through `ExactInv`,
which adds that without pins and flags the column is still a list; `DeletionLasts`,
through `EmptyInv`: an edit in progress saw a row that was not deleted, so the one
that puts content back is counted stale.

**The exceptions need a second party.** Several invariants above allow for something:
stale commits, a blind refund, colliding avatar keys, an unbooked refund. Four theorems
say that no call meets these alone. They assume `OneAtATime`: no replica is
configured (`MaxLag = 0`, PrismaReadService then reads the primary) and calls do not
overlap. Then `OneCallDecidesOnce` (QuoteLifecycle): decisions never exceed one more
than the reopenings. `OneCallKeepsTheBooks` (PaymentLedger): unless a call died between
Razorpay and the books, Razorpay returned no more than the amount and the row's total
is what it returned, and a settled payment is neither pending nor cancelled.
`OneCallKeepsFactorAndAvatar` (UserAccount) and `OneCallLosesNothing` (MessageMarks): the
factor, the avatar, the receipts, the reactions and a deletion are exact. What is not a
call of a user still interleaves: expiry, an admin's status change, the purge. The
invariant behind each is `SerialInv`: what the call in progress was checked on still holds of the row.

Only model-checked is the liveness: `EventuallySettled`, `DispatchedRowSettles`,
`QueueDrains`, `JobsEnd`, `EntriesSettle` and `PendingCopyIsMoved`. The prover does
not reason about fairness and ENABLED. `SkipsOnlyHandled` is false, so its run shows
a behaviour that violates it.

## 6. What the models show without a run of their own

- The leader key is not renewed during a batch (`leader-election.service.ts:34`), so
  a second replica can lead beside the first, though line 7 promises only one;
  outbox_races is about what survives that. A row is PUBLISHED once its message is
  written to a socket (`queue-publisher.service.ts:31`), which is less than the
  at-least-once delivery of ADR-004.
- On shutdown the poller's channel is closed before its batch ends, so the rest of
  the batch counts failures. No worker reopens a channel.
- Two accepts of a quote can pass the check before either commits, and both commit;
  ADR-007 and the endpoint documentation promise the second a conflict.
- A capture and a failure handled in the opposite order leave a paid payment FAILED.
  With Razorpay's real envelope (`Enveloped` TRUE) the handlers read `data.payment`
  where the service stored `data.payload.payment`, throw, and everything is parked.
  `refund.processed` never finds its refund: nothing writes `refund.externalId`.
- A suspended user who requests the deletion of the account and cancels it is ACTIVE
  again: `JwtAuthGuard` does not look at the status, and the request overwrites it.
- A row of a media file whose worker crashed stays PROCESSING when the redelivery
  meets the dead worker's lock. Reprocessing publishes no job, the copy of a row that
  is PROCESSING stays so, the last write of a pipeline drops the metadata's
  `storageKey`, and `deleteQuarantinedMedia` deletes nothing. A scanner that cannot
  be reached lets the file pass.
- Downloads look only at the cloud, so a file that waits locally cannot be read. An
  upload into the fallback during a sync of the older file can be deleted by it; an
  older waiting copy overwrites a newer object; a deleted object with a waiting copy
  comes back. A sync that dies between its two unlinks leaves a metadata file that is
  listed for ever.
- A pin or a flag set on a list of reactions is confirmed but not stored, and a
  reaction wipes an earlier pin or flag. An edit let in before a deletion puts the
  content back into the deleted message.
- Emails can be sent twice in spite of "an idempotency layer to prevent duplicate
  sends" (`email-worker.service.ts:14`): the key is written after the send.
  `MailsExplained` names the only causes.
- The audit worker's last flush does not cover batches already on their way nor
  entries consumed during it, though `audit-worker.service.ts:36` speaks of all
  buffered logs; `EntriesAccounted` counts them among those a process died with.
- Confirming a payment and filing a dispute insert rows without required columns or
  with unknown ones; their transactions always roll back, so PaymentLedger has no
  action for them. The same holds for approving projects and milestones, and for
  login and token refresh, whose models the schema lacks. Resolving a dispute commits
  its update and then throws on the outbox row.
- No consumer creates a project on `QUOTE_ACCEPTED`; deleting a quote leaves its
  request QUOTED, and a QUOTED request cannot be quoted again.

## 7. Abstractions, and what is not modelled

Payloads, templates, metrics and logs are left out. Time is left out: TTLs, backoffs
and validity lapse by steps of the environment, and the 24-hour life of an email's
idempotency key is taken to outlast its retries. The dead-letter queues, which no
code declares, are taken to be declared by an operator. A job of the notification
worker is for both channels. An audit entry that fails validation is rejected in one
step. HTTP calls that die are modelled where a call has several effects; elsewhere
the one transaction of a call makes them no different from a call not made. Emojis
are left out of reactions, and the media statuses that no code tells apart are one.

Not modelled, and why: controllers, DTOs, guards, configuration and seeds, the larger
part of the code's lines, validate and forward and keep no state; most other services
create, read, update and delete single rows, where the only question, whose write
comes last, has no wrong answer in the code or its documents; `libs/idempotency`,
`libs/outbox` and `libs/circuit-breaker` are wired to nothing; the state of
ws-gateway and the transactions of projects and progress cannot be reached (section
6, `PROJECT.json`). A composition of OutboxPoller with the queue workers is left out
because no code binds a queue to the exchange the poller publishes to: there is no
path from an outbox row to a worker to translate.

## 8. Plan

Done: the modules above, in the order of section 2, the most important behaviour
(delivery of events, money, decisions) first, and the proofs of section 5.

Next, models:

1. `BufferedWorker`: what AuditWorker and the cdn worker's window buffer have in
   common, as an abstract buffer that both implement.
2. WebhookPipeline with PaymentLedger on one payment row: both write its status
   today, each with the other's writes as single steps.
3. `LikeCounter`: the counters of blog posts, whose like is a transaction, and of
   comments, whose like writes the replica's value plus one.

Next, proofs:

1. QueueWorkers: a notification is parked a second time only after a redelivery, by
   the counting of `BudgetInv`.
2. Of the abstract buffer and the like counters above, the refinements, step by step,
   and that the counter never passes the likes unless two comment likes overlapped.

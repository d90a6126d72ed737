----------------------------- MODULE AuditWorker -----------------------------
(***************************************************************************)
(* The audit worker: it acknowledges audit entries as soon as they are in  *)
(* an in-memory buffer, and writes the buffer to the database when it has  *)
(* batchSize entries, on a timer, and when the process is told to stop.    *)
(*                                                                         *)
(* Only the handler that fills the buffer waits for its batch, so several  *)
(* batches can be on their way to the database at once.                    *)
(***************************************************************************)
EXTENDS Integers, FiniteSets

CONSTANTS
    Entries,      \* audit entries published to the queue, all different
    batchSize,    \* AUDIT_BATCH_SIZE
    NoEntry,      \* the handler waits for no batch
    MaxIncidents  \* bound on crashes, stops and closed connections

ASSUME ConstantsAssumption ==
    /\ batchSize \in Nat \ {0}
    /\ NoEntry \notin Entries
    /\ MaxIncidents \in Nat

VARIABLES
    process,    \* "up", "stopping" (onModuleDestroy runs) or "down"
    consuming,  \* is the consuming channel open?
    bad,        \* entries that fail validation
    queue,      \* entries waiting in audit.queue
    buffer,     \* BatchBufferService.buffer
    batches,    \* drained batches that insertBatch is writing
    held,       \* the entry whose handler waits for its flush, not acknowledged yet
    rows,       \* per entry: rows in the audit log
    fallback,   \* entries in the fallback file
    dumped,     \* entries that only reached the log, both writes having failed
    parked,     \* invalid entries in the dead-letter queue
    dropped,    \* invalid entries whose dead-letter message did not arrive
    vanished,   \* entries that a process had acknowledged and died with (history)
    again,      \* per entry: redeliveries (history)
    incidents   \* crashes, stops and closed connections so far

stores == <<rows, fallback, dumped, parked, dropped, vanished, again>>
vars == <<process, consuming, bad, queue, buffer, batches, held, stores, incidents>>

Batches == [items : SUBSET Entries, by : {"timer", "handler", "destroy"}, at : {"insert", "file"}]

Init ==
    /\ process = "up" /\ consuming = TRUE
    /\ bad \in {S \in SUBSET Entries : Cardinality(S) <= 1}
    /\ queue = Entries
    /\ buffer = {} /\ batches = {} /\ held = NoEntry
    /\ rows = [e \in Entries |-> 0] /\ again = [e \in Entries |-> 0]
    /\ fallback = {} /\ dumped = {} /\ parked = {} /\ dropped = {} /\ vanished = {}
    /\ incidents = 0

Running == process # "down"
BumpAll(f, S) == [e \in Entries |-> IF e \in S THEN f[e] + 1 ELSE f[e]]
Waiting == \E b \in batches : b.by = "handler"

-----------------------------------------------------------------------------
(* The buffer *)

\* Mutant: the buffer is full only when it holds more than a batch.
FullLate(S) == Cardinality(S) > batchSize

\* BatchBufferService.add: should the caller flush?
Full(S) == Cardinality(S) >= batchSize

\* flush: all of the buffer becomes a batch.
Drain(S, by) ==
    /\ batches' = batches \union {[items |-> S, by |-> by, at |-> "insert"]}
    /\ buffer' = {}

\* A valid entry is buffered and acknowledged at once, unless it fills the buffer.
Deliver ==
    /\ Running /\ consuming /\ held = NoEntry
    /\ \E e \in queue \ bad :
        /\ queue' = queue \ {e}
        /\ IF Full(buffer \union {e})
           THEN Drain(buffer \union {e}, "handler") /\ held' = e
           ELSE buffer' = buffer \union {e} /\ UNCHANGED <<batches, held>>
    /\ UNCHANGED <<process, consuming, bad, stores, incidents>>

\* An invalid entry is sent to the dead-letter queue, if that works, and rejected
\* without requeue.
Reject ==
    /\ Running /\ consuming /\ held = NoEntry
    /\ \E e \in queue \intersect bad :
        /\ queue' = queue \ {e}
        /\ \/ parked' = parked \union {e} /\ UNCHANGED dropped
           \/ dropped' = dropped \union {e} /\ UNCHANGED parked
    /\ UNCHANGED <<process, consuming, bad, buffer, batches, held, rows, fallback, dumped,
                   vanished, again, incidents>>

\* Mutant: the timer only looks after full buffers.
TimerFlushFull ==
    /\ process = "up" /\ Full(buffer)
    /\ Drain(buffer, "timer")
    /\ UNCHANGED <<process, consuming, bad, queue, held, stores, incidents>>

\* The timer flushes whatever there is, and does not wait for earlier batches.
TimerFlush ==
    /\ process = "up" /\ buffer # {}
    /\ Drain(buffer, "timer")
    /\ UNCHANGED <<process, consuming, bad, queue, held, stores, incidents>>

-----------------------------------------------------------------------------
(* AuditBatchInsertProcessor *)

\* Mutant: the buffer is reset when the batch is in, not when it is drained.
InsertAndReset(b) ==
    /\ Running /\ b \in batches /\ b.at = "insert"
    /\ batches' = batches \ {b}
    /\ rows' = BumpAll(rows, b.items)
    /\ buffer' = {}
    /\ UNCHANGED <<process, consuming, bad, queue, held, fallback, dumped, parked, dropped,
                   vanished, again, incidents>>

\* createMany succeeds.
Insert(b) ==
    /\ Running /\ b \in batches /\ b.at = "insert"
    /\ batches' = batches \ {b}
    /\ rows' = BumpAll(rows, b.items)
    /\ UNCHANGED <<process, consuming, bad, queue, buffer, held, fallback, dumped, parked, dropped,
                   vanished, again, incidents>>

\* Mutant: a batch whose insert failed is inserted again.
InsertTriedAgain(b) ==
    /\ Running /\ b \in batches /\ b.at = "insert"
    /\ UNCHANGED batches
    /\ \/ UNCHANGED rows
       \/ rows' = BumpAll(rows, b.items)
    /\ UNCHANGED <<process, consuming, bad, queue, buffer, held, fallback, dumped, parked, dropped,
                   vanished, again, incidents>>

\* createMany throws: nothing was written, or all of it was and the answer is lost.
InsertFails(b) ==
    /\ Running /\ b \in batches /\ b.at = "insert"
    /\ batches' = (batches \ {b}) \union {[b EXCEPT !.at = "file"]}
    /\ \/ UNCHANGED rows
       \/ rows' = BumpAll(rows, b.items)
    /\ UNCHANGED <<process, consuming, bad, queue, buffer, held, fallback, dumped, parked, dropped,
                   vanished, again, incidents>>

\* handleFallback appends the batch to a file, or writes it to the log.
Fallback(b) ==
    /\ Running /\ b \in batches /\ b.at = "file"
    /\ batches' = batches \ {b}
    /\ \/ fallback' = fallback \union b.items /\ UNCHANGED dumped
       \/ dumped' = dumped \union b.items /\ UNCHANGED fallback
    /\ UNCHANGED <<process, consuming, bad, queue, buffer, held, rows, parked, dropped, vanished,
                   again, incidents>>

\* The handler's batch is settled, whatever became of it: the entry is acknowledged.
Ack ==
    /\ Running /\ consuming /\ held # NoEntry /\ ~Waiting
    /\ held' = NoEntry
    /\ UNCHANGED <<process, consuming, bad, queue, buffer, batches, stores, incidents>>

-----------------------------------------------------------------------------
(* The process and the broker *)

\* The process is gone: an insert under way may still commit; what was buffered or
\* on its way otherwise is lost, except for an entry the broker delivers again.
Die ==
    /\ process' = "down" /\ consuming' = FALSE
    /\ buffer' = {} /\ batches' = {} /\ held' = NoEntry
    /\ LET requeued == IF consuming /\ held # NoEntry THEN {held} ELSE {}
           inFlight == {b \in batches : b.at = "insert"}
       IN \E committed \in SUBSET inFlight :
            LET safe == UNION {b.items : b \in committed}
                dying == buffer \union UNION {b.items : b \in batches \ committed}
            IN /\ rows' = BumpAll(rows, safe)
               /\ queue' = queue \union requeued
               /\ again' = BumpAll(again, requeued)
               /\ vanished' = vanished \union (dying \ (queue \union requeued))
    /\ UNCHANGED <<bad, fallback, dumped, parked, dropped>>

Crash ==
    /\ Running /\ incidents < MaxIncidents
    /\ incidents' = incidents + 1
    /\ Die

\* Acknowledging on the closed channel throws, in the catch block too, and the
\* rejection nobody handles ends the process.
AckThrows ==
    /\ Running /\ ~consuming /\ held # NoEntry /\ ~Waiting
    /\ Die
    /\ UNCHANGED incidents

\* The broker closes the channel and takes the unacknowledged entry back.
ConsumerCloses ==
    /\ Running /\ consuming /\ incidents < MaxIncidents
    /\ consuming' = FALSE
    /\ incidents' = incidents + 1
    /\ queue' = IF held # NoEntry THEN queue \union {held} ELSE queue
    /\ again' = BumpAll(again, {held})
    /\ UNCHANGED <<process, bad, buffer, batches, held, rows, fallback, dumped, parked, dropped,
                   vanished>>

\* onModuleDestroy: the timer stops and the buffer is flushed one last time.
Stop ==
    /\ process = "up" /\ incidents < MaxIncidents
    /\ incidents' = incidents + 1
    /\ process' = "stopping"
    /\ IF buffer # {} THEN Drain(buffer, "destroy") ELSE UNCHANGED <<buffer, batches>>
    /\ UNCHANGED <<consuming, bad, queue, held, stores>>

\* It waits for its own batch only, and the consumer goes on until the process ends.
Exit ==
    /\ process = "stopping" /\ ~\E b \in batches : b.by = "destroy"
    /\ Die
    /\ UNCHANGED incidents

Start ==
    /\ process = "down"
    /\ process' = "up" /\ consuming' = TRUE
    /\ UNCHANGED <<bad, queue, buffer, batches, held, stores, incidents>>

BatchStep(b) == Insert(b) \/ InsertFails(b) \/ Fallback(b)

Next ==
    \/ Deliver \/ Reject \/ TimerFlush \/ Ack
    \/ \E b \in batches : BatchStep(b)
    \/ Crash \/ AckThrows \/ ConsumerCloses \/ Stop \/ Exit \/ Start

\* The broker delivers, the timer fires, every write ends one way or the other, and
\* a process that went down is started again.
Fairness ==
    /\ WF_vars(Deliver) /\ WF_vars(Reject) /\ WF_vars(TimerFlush) /\ WF_vars(Ack)
    /\ \A b \in Batches : WF_vars(BatchStep(b))
    /\ WF_vars(AckThrows) /\ WF_vars(Exit) /\ WF_vars(Start)

Spec == Init /\ [][Next]_vars /\ Fairness

-----------------------------------------------------------------------------
(* Properties *)

Buffered(e) == e \in buffer
InBatch(e) == \E b \in batches : e \in b.items

\* Types.
TypeOK ==
    /\ process \in {"up", "stopping", "down"} /\ consuming \in BOOLEAN
    /\ bad \subseteq Entries /\ queue \subseteq Entries /\ buffer \subseteq Entries
    /\ batches \subseteq Batches
    /\ held \in Entries \union {NoEntry}
    /\ rows \in [Entries -> Nat] /\ again \in [Entries -> Nat]
    /\ fallback \subseteq Entries /\ dumped \subseteq Entries /\ parked \subseteq Entries
    /\ dropped \subseteq Entries /\ vanished \subseteq Entries
    /\ incidents \in 0..MaxIncidents

\* An audit entry is always somewhere: waiting, buffered, on its way, stored, in the
\* fallback file or the log, dead-lettered; or a process died with it.
EntriesAccounted ==
    \A e \in Entries :
        \/ e \in queue \/ Buffered(e) \/ InBatch(e) \/ rows[e] > 0 \/ e \in fallback \/ e \in dumped
        \/ e \in parked \/ e \in dropped \/ e \in vanished

\* An entry has a second row only if the broker delivered it again: overlapping
\* flushes never write it twice, and a failed insert is not repeated.
NoDoubleRows == \A e \in Entries : rows[e] <= 1 + again[e]

\* The buffer never holds a whole batch while nobody writes it, and batches that
\* are on their way at the same time share no entry.
BatchesDisjoint ==
    /\ Cardinality(buffer) < batchSize
    /\ \A b, c \in batches : b # c => b.items \intersect c.items = {}
    /\ \A b \in batches : b.items \intersect buffer = {}

\* As long as some process keeps consuming, every entry leaves queue, buffer and
\* batches for good.
EntriesSettle ==
    <>[](Running /\ consuming)
        => \A e \in Entries : <>[](e \notin queue /\ ~Buffered(e) /\ ~InBatch(e))
=============================================================================

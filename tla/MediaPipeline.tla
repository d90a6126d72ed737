---------------------------- MODULE MediaPipeline ----------------------------
(***************************************************************************)
(* One uploaded object and the Media rows that name it (the row of the     *)
(* upload and copies of that row), under the media workers' pipelines and  *)
(* the calls of the media service, its owner's and the admins'.            *)
(*                                                                         *)
(* A pipeline holds a Redis lock on its row.  The lock has a TTL of ten    *)
(* minutes, every holder stores the same value in it, and whoever ends a   *)
(* pipeline deletes it, its own or not.                                    *)
(***************************************************************************)
EXTENDS Integers, FiniteSets

CONSTANTS
    Media,       \* ids of Media rows
    Original,    \* the row of the upload; the others are copies
    Queued,      \* the rows that producers of jobs know of
    Workers,     \* media worker processes, one message each (prefetch 1)
    Calls,       \* HTTP calls that can be in progress at once
    MaxJobs,     \* bound on jobs published
    MaxIncidents, \* bound on workers that crash and locks that expire under a pipeline
    MaxCalls     \* bound on calls

ASSUME ConstantsAssumption ==
    /\ Original \in Media /\ Queued \subseteq Media /\ IsFiniteSet(Workers)
    /\ MaxJobs \in Nat /\ MaxIncidents \in Nat /\ MaxCalls \in Nat

\* WAITING stands for PENDING and UPLOADING, REJECTED for FAILED and QUARANTINED: no
\* code tells the two apart.
Statuses == {"WAITING", "PROCESSING", "READY", "REJECTED"}

\* A row, as far as it matters: its status, and whether its metadata names the object.
Rows == [status : Statuses, key : BOOLEAN]

Gone == [status |-> "gone", key |-> FALSE]

VARIABLES
    rows,      \* each Media row on the primary, or Gone
    replica,   \* the same on the read replica, at most one commit behind
    unused,    \* ids no row has had yet
    object,    \* is the object in storage?
    uploading, \* has the client, or directUpload, still to put the object?
    lock,      \* rows whose lock key is in Redis
    queue,     \* queue[m]: messages for the row m, first deliveries and others
    work,      \* each worker's place in the pipeline, its row, its delivery
    pending,   \* where each call is, its row and the snapshot it read
    jobs, incidents, callsMade,  \* bounded counters
    lapses,    \* locks of m that expired under a running pipeline (bounded, history)
    byCall,    \* rows whose status a call wrote last (history)
    abandoned, \* rows whose interrupted job was given up since the last start (history)
    forgot     \* was the object's key dropped from a row, or the object put too late? (history)

brokerVars == <<queue, jobs, incidents, lapses>>
workerVars == <<lock, work, abandoned, brokerVars>>
callVars == <<unused, pending, callsMade>>
serviceVars == <<callVars, object, uploading>>
rowVars == <<rows, replica, byCall, forgot>>
vars == <<rowVars, workerVars, serviceVars>>

IdleWorker == [at |-> "idle", media |-> Original, again |-> FALSE]
IdleCall == [at |-> "idle", media |-> Original, snap |-> Gone]

Exists(m) == rows[m] # Gone

\* The three ways to upload: requestUpload (the client puts the object itself),
\* directUpload (the row first, READY, then the object), and a chunked upload (whose
\* metadata names no object).
Init ==
    /\ \E first \in {[status |-> "WAITING", key |-> TRUE], [status |-> "READY", key |-> TRUE],
                     [status |-> "WAITING", key |-> FALSE]} :
        /\ rows = [m \in Media |-> IF m = Original THEN first ELSE Gone]
        /\ uploading = first.key
        /\ byCall = {Original}
    /\ replica = [m \in Media |-> Gone]
    /\ unused = Media \ {Original}
    /\ object = FALSE
    /\ lock = {}
    /\ queue = [m \in Media |-> [first |-> 0, again |-> 0]]
    /\ work = [w \in Workers |-> IdleWorker]
    /\ pending = [c \in Calls |-> IdleCall]
    /\ jobs = 0 /\ incidents = 0 /\ callsMade = 0
    /\ lapses = [m \in Media |-> 0]
    /\ abandoned = {} /\ forgot = FALSE

-----------------------------------------------------------------------------
(* Rows *)

\* Updating a row that is gone throws (P2025), so every write is of a row that exists.
Write(m, row) ==
    /\ Exists(m)
    /\ rows' = [rows EXCEPT ![m] = row]
    /\ replica' = rows

SetStatus(m, s) == Write(m, [rows[m] EXCEPT !.status = s])

Replicate ==
    /\ replica # rows
    /\ replica' = rows
    /\ UNCHANGED <<rows, byCall, forgot, workerVars, serviceVars>>

\* No row names the object any more, or the one that does is about to go.
TooLate == (\A m \in Media : ~rows[m].key) \/ \E c \in Calls : pending[c].at = "deleteRow"

\* The object arrives, by the presigned URL or from directUpload; or it never does.
PutObject ==
    /\ uploading
    /\ uploading' = FALSE
    /\ object' \in {TRUE, object}
    /\ forgot' = (forgot \/ (object' /\ TooLate))
    /\ UNCHANGED <<rows, replica, workerVars, callVars, byCall>>

-----------------------------------------------------------------------------
(* The worker: MediaConsumer.handleMessage and MediaWorkerService.processJob *)

Running == {"start", "scan", "quarantine", "finish", "fail", "unlock"}

RunningOn(m) == {w \in Workers : work[w].at \in Running /\ work[w].media = m}

At(w, place) == work[w].at = place

Goto(w, place) == work' = [work EXCEPT ![w].at = place]

Settle(w) == work' = [work EXCEPT ![w] = IdleWorker]

\* A producer outside this repository publishes a job.
Publish(m) ==
    /\ m \in Queued /\ Exists(m) /\ jobs < MaxJobs
    /\ jobs' = jobs + 1
    /\ queue' = [queue EXCEPT ![m].first = @ + 1]
    /\ UNCHANGED <<lock, work, abandoned, incidents, lapses, rowVars, serviceVars>>

Take(w) ==
    /\ At(w, "idle")
    /\ \E m \in Media :
        \/ /\ queue[m].first > 0
           /\ queue' = [queue EXCEPT ![m].first = @ - 1]
           /\ work' = [work EXCEPT ![w] = [at |-> "lock", media |-> m, again |-> FALSE]]
        \/ /\ queue[m].again > 0
           /\ queue' = [queue EXCEPT ![m].again = @ - 1]
           /\ work' = [work EXCEPT ![w] = [at |-> "lock", media |-> m, again |-> TRUE]]
    /\ UNCHANGED <<lock, abandoned, jobs, incidents, lapses, rowVars, serviceVars>>

\* Given up: the message is acknowledged, or parked, and no other delivery will come.
GiveUp(w) == abandoned' = IF work[w].again THEN abandoned \union {work[w].media} ELSE abandoned

\* Mutant: a key that is there does not stop the pipeline (SET without NX).
MayLockAlways(m) == TRUE

MayLock(m) == m \notin lock

Lock(w) ==
    /\ At(w, "lock")
    /\ MayLock(work[w].media)
    /\ lock' = lock \union {work[w].media}
    /\ Goto(w, "start")
    /\ UNCHANGED <<abandoned, brokerVars, rowVars, serviceVars>>

\* The row is being processed, or seems to be: the message is acknowledged.
Skip(w) ==
    /\ At(w, "lock")
    /\ work[w].media \in lock
    /\ GiveUp(w)
    /\ Settle(w)
    /\ UNCHANGED <<lock, brokerVars, rowVars, serviceVars>>

\* Redis does not answer SET: the message is parked.
LockThrows(w) ==
    /\ At(w, "lock")
    /\ GiveUp(w)
    /\ Settle(w)
    /\ UNCHANGED <<lock, brokerVars, rowVars, serviceVars>>

Start(w) ==
    /\ At(w, "start")
    /\ SetStatus(work[w].media, "PROCESSING")
    /\ byCall' = byCall \ {work[w].media}
    /\ abandoned' = abandoned \ {work[w].media}
    /\ Goto(w, "scan")
    /\ UNCHANGED <<lock, brokerVars, serviceVars, forgot>>

\* The scanner's verdict: an error of the scanner counts as clean.  If clean, metadata,
\* thumbnail and variants follow.
Scan(w) ==
    /\ At(w, "scan")
    /\ Goto(w, "quarantine") \/ Goto(w, "finish")
    /\ UNCHANGED <<lock, abandoned, brokerVars, rowVars, serviceVars>>

\* Both ends of a pipeline overwrite the metadata, the object's key included.
EndWith(w, s) ==
    /\ Write(work[w].media, [status |-> s, key |-> FALSE])
    /\ byCall' = byCall \ {work[w].media}
    /\ forgot' = (forgot \/ rows[work[w].media].key)

Quarantine(w) ==
    /\ At(w, "quarantine")
    /\ EndWith(w, "REJECTED")
    /\ Goto(w, "unlock")
    /\ UNCHANGED <<lock, abandoned, brokerVars, serviceVars>>

Finish(w) ==
    /\ At(w, "finish")
    /\ EndWith(w, "READY")
    /\ Goto(w, "unlock")
    /\ UNCHANGED <<lock, abandoned, brokerVars, serviceVars>>

\* A write (of a row that is gone, or to a database that does not answer) or a
\* processor throws.
Throws(w) ==
    /\ work[w].at \in {"start", "scan", "quarantine", "finish"}
    /\ Goto(w, "fail")
    /\ UNCHANGED <<lock, abandoned, brokerVars, rowVars, serviceVars>>

\* Mutant: the catch block writes no status.
FailSilently(w) ==
    /\ At(w, "fail")
    /\ Goto(w, "unlock")
    /\ UNCHANGED <<lock, abandoned, brokerVars, rowVars, serviceVars>>

Fail(w) ==
    /\ At(w, "fail")
    /\ SetStatus(work[w].media, "REJECTED")
    /\ byCall' = byCall \ {work[w].media}
    /\ Goto(w, "unlock")
    /\ UNCHANGED <<lock, abandoned, brokerVars, serviceVars, forgot>>

\* The catch block's own write throws.
FailThrows(w) ==
    /\ At(w, "fail")
    /\ abandoned' = abandoned \union {work[w].media}
    /\ Goto(w, "unlock")
    /\ UNCHANGED <<lock, brokerVars, rowVars, serviceVars>>

\* finally: the key is deleted, whoever set it; Redis may not answer.
Unlock(w) ==
    /\ At(w, "unlock")
    /\ lock' \in {lock, lock \ {work[w].media}}
    /\ Goto(w, "answer")
    /\ UNCHANGED <<abandoned, brokerVars, rowVars, serviceVars>>

\* Acknowledged; or sent to the dead-letter queue, or not, and rejected for good.
Answer(w) ==
    /\ At(w, "answer")
    /\ Settle(w)
    /\ UNCHANGED <<lock, abandoned, brokerVars, rowVars, serviceVars>>

\* A worker dies and comes back; the broker delivers its message again, and nobody
\* deletes its lock.
Crash(w) ==
    /\ ~At(w, "idle") /\ incidents < MaxIncidents
    /\ incidents' = incidents + 1
    /\ queue' = [queue EXCEPT ![work[w].media].again = @ + 1]
    /\ Settle(w)
    /\ UNCHANGED <<lock, abandoned, jobs, lapses, rowVars, serviceVars>>

\* Ten minutes after a SET.
LockExpires(m) ==
    /\ m \in lock
    /\ lock' = lock \ {m}
    /\ IF RunningOn(m) = {} THEN UNCHANGED <<incidents, lapses>>
       ELSE /\ incidents < MaxIncidents /\ incidents' = incidents + 1
            /\ lapses' = [lapses EXCEPT ![m] = @ + 1]
    /\ UNCHANGED <<queue, work, jobs, abandoned, rowVars, serviceVars>>

-----------------------------------------------------------------------------
(* The media service *)

CallAt(c, place) == pending[c].at = place

BeginCall(c, place, m, snap) ==
    /\ CallAt(c, "idle") /\ callsMade < MaxCalls
    /\ callsMade' = callsMade + 1
    /\ pending' = [pending EXCEPT ![c] = [at |-> place, media |-> m, snap |-> snap]]
    /\ UNCHANGED <<rows, replica, unused, workerVars, object, uploading, byCall>>

EndCall(c) == pending' = [pending EXCEPT ![c] = IdleCall] /\ UNCHANGED callsMade

\* The call throws, or its process dies.
AbortCall(c) ==
    /\ ~CallAt(c, "idle")
    /\ EndCall(c)
    /\ UNCHANGED <<unused, workerVars, object, uploading, rowVars>>

\* releaseQuarantined, updateStatus, reprocess (no job is published) and the end of a
\* chunked upload write a status whatever it was.
SetsStatus(m, s) ==
    /\ callsMade < MaxCalls /\ callsMade' = callsMade + 1
    /\ SetStatus(m, s)
    /\ byCall' = byCall \union {m}
    /\ UNCHANGED <<unused, pending, workerVars, object, uploading, forgot>>

BeginConfirm(c, m) == Exists(m) /\ BeginCall(c, "confirm", m, rows[m]) /\ UNCHANGED forgot

ConfirmUpload(c) ==
    /\ CallAt(c, "confirm")
    /\ Write(pending[c].media, [status |-> "READY", key |-> pending[c].snap.key])
    /\ byCall' = byCall \union {pending[c].media}
    /\ forgot' = (forgot \/ (rows[pending[c].media].key /\ ~pending[c].snap.key))
    /\ EndCall(c)
    /\ UNCHANGED <<unused, workerVars, object, uploading>>

\* updateMetadata and uploadChunk write the replica's metadata back.
BeginEdit(c, m) == replica[m] # Gone /\ BeginCall(c, "edit", m, replica[m]) /\ UNCHANGED forgot

Edit(c) ==
    /\ CallAt(c, "edit")
    /\ Write(pending[c].media, [rows[pending[c].media] EXCEPT !.key = pending[c].snap.key])
    /\ forgot' = (forgot \/ (rows[pending[c].media].key /\ ~pending[c].snap.key))
    /\ EndCall(c)
    /\ UNCHANGED <<unused, workerVars, object, uploading, byCall>>

\* copyMedia: the copy has the status and the metadata of the snapshot.
BeginCopy(c, m) == replica[m] # Gone /\ BeginCall(c, "copy", m, replica[m]) /\ UNCHANGED forgot

CopyMedia(c) ==
    /\ CallAt(c, "copy")
    /\ \E m \in unused :
        /\ unused' = unused \ {m}
        /\ rows' = [rows EXCEPT ![m] = pending[c].snap] /\ replica' = rows
        /\ byCall' = byCall \union {m}
    /\ EndCall(c)
    /\ UNCHANGED <<workerVars, object, uploading, forgot>>

\* delete and deleteAny: the snapshot says whether there is an object to delete.  An
\* admin's deletion goes on without a snapshot.
BeginDelete(c, m) ==
    /\ m \notin unused
    /\ BeginCall(c, IF replica[m].key THEN "deleteObject" ELSE "deleteRow", m, replica[m])
    /\ forgot' = (forgot \/ (rows[m].key /\ ~replica[m].key))

\* Mutant: the row goes first, and the object after it.
RowFirst(c) ==
    /\ CallAt(c, "deleteObject")
    /\ Write(pending[c].media, Gone)
    /\ pending' = [pending EXCEPT ![c].at = "idle"]
    /\ UNCHANGED <<object, uploading, unused, callsMade, workerVars, byCall, forgot>>

DeleteObject(c) ==
    /\ CallAt(c, "deleteObject")
    /\ object' = FALSE
    /\ pending' = [pending EXCEPT ![c].at = "deleteRow"]
    /\ UNCHANGED <<uploading, unused, callsMade, workerVars, rowVars>>

DeleteRow(c) ==
    /\ CallAt(c, "deleteRow")
    /\ Write(pending[c].media, Gone)
    /\ EndCall(c)
    /\ UNCHANGED <<unused, workerVars, object, uploading, byCall, forgot>>

\* runCleanup deletes rows and leaves their objects.
Cleanup(m) ==
    /\ replica[m] # Gone /\ callsMade < MaxCalls /\ callsMade' = callsMade + 1
    /\ Write(m, Gone)
    /\ forgot' = TRUE
    /\ UNCHANGED <<unused, pending, workerVars, object, uploading, byCall>>

-----------------------------------------------------------------------------

Pipeline(w) ==
    \/ Take(w) \/ Lock(w) \/ Skip(w) \/ LockThrows(w)
    \/ Start(w) \/ Scan(w) \/ Quarantine(w) \/ Finish(w)
    \/ Throws(w) \/ Fail(w) \/ FailThrows(w) \/ Unlock(w) \/ Answer(w)

Begin(c, m) == BeginConfirm(c, m) \/ BeginEdit(c, m) \/ BeginCopy(c, m) \/ BeginDelete(c, m)

Continue(c) ==
    \/ ConfirmUpload(c) \/ Edit(c) \/ CopyMedia(c) \/ DeleteObject(c) \/ DeleteRow(c)
    \/ AbortCall(c)

Next ==
    \/ \E w \in Workers : Pipeline(w) \/ Crash(w)
    \/ \E m \in Media : Publish(m) \/ LockExpires(m) \/ Cleanup(m)
    \/ \E m \in Media, s \in Statuses : SetsStatus(m, s)
    \/ \E c \in Calls : Continue(c) \/ \E m \in Media : Begin(c, m)
    \/ PutObject \/ Replicate

Spec == Init /\ [][Next]_vars

-----------------------------------------------------------------------------
(* Properties *)

WorkerPlaces == Running \union {"idle", "lock", "answer"}

CallPlaces == {"idle", "confirm", "edit", "copy", "deleteObject", "deleteRow"}

TypeOK ==
    /\ rows \in [Media -> Rows \union {Gone}] /\ replica \in [Media -> Rows \union {Gone}]
    /\ unused \subseteq Media
    /\ object \in BOOLEAN /\ uploading \in BOOLEAN /\ forgot \in BOOLEAN
    /\ lock \subseteq Media /\ byCall \subseteq Media /\ abandoned \subseteq Media
    /\ queue \in [Media -> [first : Nat, again : Nat]]
    /\ work \in [Workers -> [at : WorkerPlaces, media : Media, again : BOOLEAN]]
    /\ pending \in [Calls -> [at : CallPlaces, media : Media, snap : Rows \union {Gone}]]
    /\ jobs \in Nat /\ incidents \in Nat /\ callsMade \in Nat
    /\ lapses \in [Media -> Nat]

\* Pipelines of one row overlap only after its lock expired under one of them, and
\* no more of them overlap than locks have so expired: a pipeline that deletes a
\* lock it does not own any more cannot make it worse.
OverlapsNeedLapses ==
    \A m \in Media : Cardinality(RunningOn(m)) <= 1 + lapses[m]

\* A redelivered message of m that some worker has not given up.
ComesAgain(m) ==
    \/ queue[m].again > 0
    \/ \E w \in Workers : work[w].at = "lock" /\ work[w].media = m /\ work[w].again

\* Some pipeline of m has still to write the row's status.
Underway(m) == \E w \in Workers : work[w].media = m /\ work[w].at \in Running \ {"unlock"}

\* A row that reads PROCESSING is being processed, or will be again, unless a call
\* wrote that status or the redelivery of an interrupted job was given up (because
\* the dead worker's lock was still there, mostly).
ProcessingIsExplained ==
    \A m \in Media : rows[m].status = "PROCESSING" =>
        \/ Underway(m) \/ ComesAgain(m)
        \/ m \in byCall \/ m \in abandoned

\* When no row names the object any more it is gone, unless a write dropped its key
\* or it came too late: deletion takes the object before the row.
NoLeak ==
    object /\ (\A m \in Media : ~rows[m].key) => forgot

=============================================================================

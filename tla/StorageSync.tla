----------------------------- MODULE StorageSync -----------------------------
(***************************************************************************)
(* One key of the object storage of libs/storage with a fallback: an       *)
(* upload that the cloud refuses is put in a local directory and marked,   *)
(* and every few minutes a job of each media worker moves marked files to  *)
(* the cloud.  Downloads and deletions look at the cloud only.             *)
(*                                                                         *)
(* A local file is a body and a metadata file beside it, which carries the *)
(* mark; both are written and deleted one after the other.                 *)
(***************************************************************************)
EXTENDS Naturals

CONSTANTS
    Bodies,      \* what is uploaded under the key, each body once
    None,        \* no object, no file
    Torn,        \* part of a body
    Unknown,     \* no outcome to expect
    Calls,       \* calls of StorageService that can be in progress at once
    Syncs,       \* processes that run StorageSyncCron over the directory
    MaxDeletes,  \* bound on deletions
    MaxFaults    \* bound on failures of the cloud and on workers that die

ASSUME StorageAssumption ==
    /\ None # Torn /\ None # Unknown /\ Torn # Unknown
    /\ None \notin Bodies /\ Torn \notin Bodies /\ Unknown \notin Bodies
    /\ MaxDeletes \in Nat /\ MaxFaults \in Nat

Contents == Bodies \union {None, Torn}

VARIABLES
    remote,   \* the object in the cloud
    file,     \* the body in the local directory
    meta,     \* is there a metadata file (marked needsSync) beside it?
    calls,    \* each call: where it is, its body, whether the file it has open still
              \* has the key's name, and whether it had the key to itself (history)
    syncs,    \* each sync job: where it is and what it has downloaded
    fresh,    \* bodies not uploaded yet
    deletes, faults,  \* bounded counters
    expected, \* the outcome of the last call, if it had the key to itself (history)
    rewrote   \* was a local file written over, or beside another writer or a sync? (history)

local == <<file, meta>>
history == <<expected, rewrote>>
storageVars == <<remote, local, calls, syncs, fresh, deletes, faults, history>>

IdleCall == [at |-> "idle", body |-> None, linked |-> FALSE, sole |-> FALSE]
IdleSync == [at |-> "idle", body |-> None]

StorageInit ==
    /\ remote = None /\ file = None /\ meta = FALSE
    /\ calls = [c \in Calls |-> IdleCall]
    /\ syncs = [s \in Syncs |-> IdleSync]
    /\ fresh = Bodies /\ deletes = 0 /\ faults = 0
    /\ expected = None /\ rewrote = FALSE

Syncing == \E s \in Syncs : syncs[s].at # "idle"

Fault == faults < MaxFaults /\ faults' = faults + 1

-----------------------------------------------------------------------------
(* StorageService.upload and delete *)

CallAt(c, place) == calls[c].at = place

Goto(c, place) == calls' = [calls EXCEPT ![c].at = place]

\* Nobody else works on the key: no call, no sync, no file that waits for one.
Sole(c) == ~meta /\ ~Syncing /\ \A d \in Calls \ {c} : CallAt(d, "idle")

Begin(c, place, b) ==
    /\ CallAt(c, "idle")
    /\ calls' = [d \in Calls |->
                    IF d = c THEN [at |-> place, body |-> b, linked |-> FALSE, sole |-> Sole(c)]
                    ELSE [calls[d] EXCEPT !.sole = FALSE]]
    /\ expected' = Unknown
    /\ UNCHANGED <<remote, local, syncs, faults, rewrote>>

\* The caller is told that the call succeeded.
Answer(c) ==
    /\ calls' = [calls EXCEPT ![c] = IdleCall]
    /\ expected' = IF calls[c].sole THEN calls[c].body ELSE expected

BeginUpload(c) ==
    /\ \E b \in fresh : Begin(c, "put", b) /\ fresh' = fresh \ {b}
    /\ UNCHANGED deletes

BeginDelete(c) ==
    /\ deletes < MaxDeletes /\ deletes' = deletes + 1
    /\ Begin(c, "delete", None)
    /\ UNCHANGED fresh

\* The cloud takes the body; or the upload fails, and may have had its effect.
Put(c) ==
    /\ CallAt(c, "put")
    /\ \/ remote' = calls[c].body /\ Answer(c) /\ UNCHANGED faults
       \/ /\ Fault
          /\ remote' \in {remote, calls[c].body}
          /\ Goto(c, "open") /\ UNCHANGED expected
    /\ UNCHANGED <<local, syncs, fresh, deletes, rewrote>>

\* Mutant: the mark is set before the body is complete.
OpenMarked(c) ==
    /\ CallAt(c, "open")
    /\ file' = Torn /\ meta' = TRUE
    /\ calls' = [calls EXCEPT ![c].at = "write", ![c].linked = TRUE]
    /\ rewrote' = (rewrote \/ meta \/ Syncing
                   \/ \E d \in Calls \ {c} : calls[d].at \in {"write", "mark"})
    /\ UNCHANGED <<remote, syncs, fresh, deletes, faults, expected>>

\* LocalProvider.upload: writeFile truncates the file, or creates it, ...
OpenFile(c) ==
    /\ CallAt(c, "open")
    /\ file' = Torn
    /\ calls' = [calls EXCEPT ![c].at = "write", ![c].linked = TRUE]
    /\ rewrote' = (rewrote \/ meta \/ Syncing
                   \/ \E d \in Calls \ {c} : calls[d].at \in {"write", "mark"})
    /\ UNCHANGED <<remote, meta, syncs, fresh, deletes, faults, expected>>

\* ... and fills it.  Bytes of another writer may remain behind the body; a file that
\* was unlinked since is filled for nobody.
WriteFile(c) ==
    /\ CallAt(c, "write")
    /\ file' \in IF ~calls[c].linked THEN {file}
                 ELSE IF file = Torn THEN {calls[c].body} ELSE {calls[c].body, Torn}
    /\ Goto(c, "mark")
    /\ UNCHANGED <<remote, meta, syncs, fresh, deletes, faults, history>>

WriteMeta(c) ==
    /\ CallAt(c, "mark")
    /\ meta' = TRUE
    /\ Answer(c)
    /\ UNCHANGED <<remote, file, syncs, fresh, deletes, faults, rewrote>>

\* Mutant: a deletion that fails is only logged.
DeleteSwallows(c) ==
    /\ CallAt(c, "delete")
    /\ \/ remote' = None /\ UNCHANGED faults
       \/ Fault /\ UNCHANGED remote
    /\ Answer(c)
    /\ UNCHANGED <<local, syncs, fresh, deletes, rewrote>>

Delete(c) ==
    /\ CallAt(c, "delete")
    /\ remote' = None
    /\ Answer(c)
    /\ UNCHANGED <<local, syncs, fresh, deletes, faults, rewrote>>

\* The call throws (a deletion possibly after its effect) or its process dies.
Abort(c) ==
    /\ ~CallAt(c, "idle")
    /\ calls' = [calls EXCEPT ![c] = IdleCall]
    /\ remote' \in IF CallAt(c, "delete") THEN {remote, None} ELSE {remote}
    /\ UNCHANGED <<local, syncs, fresh, deletes, faults, history>>

-----------------------------------------------------------------------------
(* StorageSyncCron.handleSync *)

SyncAt(s, place) == syncs[s].at = place

SyncGoto(s, place) == syncs' = [syncs EXCEPT ![s].at = place]

\* The cloud answers and the key is among the marked files.
ListPending(s) ==
    /\ SyncAt(s, "idle") /\ meta
    /\ SyncGoto(s, "download")
    /\ UNCHANGED <<remote, local, calls, fresh, deletes, faults, history>>

\* A file that is gone throws; one that is being written is read as far as it goes.
Download(s) ==
    /\ SyncAt(s, "download")
    /\ syncs' = [syncs EXCEPT ![s] = IF file = None THEN IdleSync ELSE [at |-> "put", body |-> file]]
    /\ UNCHANGED <<remote, local, calls, fresh, deletes, faults, history>>

SyncPut(s) ==
    /\ SyncAt(s, "put")
    /\ remote' = syncs[s].body
    /\ SyncGoto(s, "verify")
    /\ UNCHANGED <<local, calls, fresh, deletes, faults, history>>

\* Mutant: the running flag is not reset when something throws.
SyncFailsForGood(s) ==
    /\ syncs[s].at \in {"put", "verify"}
    /\ Fault
    /\ remote' \in IF SyncAt(s, "put") THEN {remote, syncs[s].body} ELSE {remote}
    /\ SyncGoto(s, "stuck")
    /\ UNCHANGED <<local, calls, fresh, deletes, history>>

\* The upload throws, with or without effect, or the object is not found afterwards.
SyncFails(s) ==
    /\ syncs[s].at \in {"put", "verify"}
    /\ Fault
    /\ remote' \in IF SyncAt(s, "put") THEN {remote, syncs[s].body} ELSE {remote}
    /\ syncs' = [syncs EXCEPT ![s] = IdleSync]
    /\ UNCHANGED <<local, calls, fresh, deletes, history>>

\* Mutant: whether or not the object is there, the local copy goes.
VerifyNothing(s) ==
    /\ syncs[s].at \in {"put", "verify"}
    /\ SyncGoto(s, "unlinkFile")
    /\ UNCHANGED <<remote, local, calls, fresh, deletes, faults, history>>

\* HEAD finds an object under the key, whichever it is.
Verify(s) ==
    /\ SyncAt(s, "verify")
    /\ IF remote # None THEN SyncGoto(s, "unlinkFile") ELSE syncs' = [syncs EXCEPT ![s] = IdleSync]
    /\ UNCHANGED <<remote, local, calls, fresh, deletes, faults, history>>

\* LocalProvider.delete: the body, then the metadata.
UnlinkFile(s) ==
    /\ SyncAt(s, "unlinkFile")
    /\ file' = None
    /\ calls' = [c \in Calls |-> [calls[c] EXCEPT !.linked = FALSE]]
    /\ SyncGoto(s, "unlinkMeta")
    /\ UNCHANGED <<remote, meta, fresh, deletes, faults, history>>

UnlinkMeta(s) ==
    /\ SyncAt(s, "unlinkMeta")
    /\ meta' = FALSE
    /\ syncs' = [syncs EXCEPT ![s] = IdleSync]
    /\ UNCHANGED <<remote, file, calls, fresh, deletes, faults, history>>

\* The worker dies, and is started again.
SyncCrash(s) ==
    /\ ~SyncAt(s, "idle")
    /\ Fault
    /\ syncs' = [syncs EXCEPT ![s] = IdleSync]
    /\ UNCHANGED <<remote, local, calls, fresh, deletes, history>>

-----------------------------------------------------------------------------

Call(c) ==
    \/ BeginUpload(c) \/ BeginDelete(c)
    \/ Put(c) \/ OpenFile(c) \/ WriteFile(c) \/ WriteMeta(c) \/ Delete(c) \/ Abort(c)

Sync(s) ==
    \/ ListPending(s) \/ Download(s) \/ SyncPut(s) \/ Verify(s) \/ UnlinkFile(s)
    \/ UnlinkMeta(s)

StorageNext ==
    \/ \E c \in Calls : Call(c)
    \/ \E s \in Syncs : Sync(s) \/ SyncFails(s) \/ SyncCrash(s)

\* The job is scheduled again and again, and goes on after each await.
StorageFairness == \A s \in Syncs : WF_storageVars(Sync(s))

StorageSpec == StorageInit /\ [][StorageNext]_storageVars /\ StorageFairness

-----------------------------------------------------------------------------
(* Properties *)

StorageTypeOK ==
    /\ remote \in Contents /\ file \in Contents /\ meta \in BOOLEAN
    /\ calls \in [Calls -> [at : {"idle", "put", "open", "write", "mark", "delete"},
                            body : Bodies \union {None}, linked : BOOLEAN, sole : BOOLEAN]]
    /\ syncs \in [Syncs -> [at : {"idle", "download", "put", "verify", "unlinkFile", "unlinkMeta"},
                            body : Contents]]
    /\ fresh \subseteq Bodies
    /\ deletes \in Nat /\ faults \in Nat
    /\ expected \in Bodies \union {None, Unknown} /\ rewrote \in BOOLEAN

\* What was uploaded last stays, in the cloud or in a local file that waits for it,
\* through any number of syncs that fail or die, if the upload had the key to itself.
NewestIsKept ==
    expected \in Bodies => remote = expected \/ (file = expected /\ meta)

\* What was deleted stays deleted, if the deletion had the key to itself: with a local
\* copy waiting, or a sync under way, the object comes back.
DeletedStaysDeleted == expected = None => remote = None

\* A part of a body reaches the cloud only if a local file was written over while it
\* waited or was synced, or by two uploads at once: the mark comes after the body.
WholeObjects == remote = Torn => rewrote

\* A local copy that waits for the cloud gets there, or makes way.
PendingCopyIsMoved ==
    \A b \in Bodies : (file = b /\ meta) ~> (remote = b \/ ~(file = b /\ meta))
=============================================================================

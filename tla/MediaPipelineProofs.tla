------------------------- MODULE MediaPipelineProofs -------------------------
(***************************************************************************)
(* For any number of rows, workers, jobs, calls and incidents: pipelines   *)
(* of one row overlap no more than locks expired under them, a row that    *)
(* reads PROCESSING is explained, and an object outlives its rows only if  *)
(* its key was dropped.                                                    *)
(***************************************************************************)
EXTENDS MediaPipeline, FiniteSetTheorems, TLAPS

-----------------------------------------------------------------------------
(* Type correctness *)

WorkerRecords == [at : WorkerPlaces, media : Media, again : BOOLEAN]

CallRecords == [at : CallPlaces, media : Media, snap : Rows \union {Gone}]

\* The types, by part.
RowTypes ==
    /\ rows \in [Media -> Rows \union {Gone}] /\ replica \in [Media -> Rows \union {Gone}]
    /\ byCall \subseteq Media /\ forgot \in BOOLEAN
    /\ unused \subseteq Media /\ object \in BOOLEAN /\ uploading \in BOOLEAN /\ callsMade \in Nat

WorkTypes ==
    /\ lock \subseteq Media /\ abandoned \subseteq Media
    /\ queue \in [Media -> [first : Nat, again : Nat]]
    /\ work \in [Workers -> WorkerRecords]
    /\ jobs \in Nat /\ incidents \in Nat /\ lapses \in [Media -> Nat]

CallTypes == pending \in [Calls -> CallRecords]

LEMMA TypeParts == TypeOK <=> RowTypes /\ WorkTypes /\ CallTypes
BY DEF TypeOK, RowTypes, WorkTypes, CallTypes, WorkerRecords, CallRecords

LEMMA TypesTogether ==
    ASSUME RowTypes', WorkTypes', CallTypes'
    PROVE  TypeOK'
BY DEF TypeOK, RowTypes, WorkTypes, CallTypes, WorkerRecords, CallRecords

LEMMA WriteTypes ==
    ASSUME RowTypes, NEW m \in Media, NEW row \in Rows \union {Gone}, Write(m, row)
    PROVE  /\ rows' \in [Media -> Rows \union {Gone}] /\ replica' \in [Media -> Rows \union {Gone}]
BY DEF RowTypes, Write

LEMMA SetStatusTypes ==
    ASSUME RowTypes, NEW m \in Media, NEW s \in Statuses, SetStatus(m, s)
    PROVE  /\ rows' \in [Media -> Rows \union {Gone}] /\ replica' \in [Media -> Rows \union {Gone}]
<1>1. rows[m] \in Rows BY DEF SetStatus, Write, Exists, RowTypes
<1>2. [rows[m] EXCEPT !.status = s] \in Rows BY <1>1 DEF Rows
<1>. QED BY <1>2, WriteTypes DEF SetStatus

LEMMA WorkMoves ==
    ASSUME WorkTypes, NEW w \in Workers
    PROVE  /\ \A q \in WorkerPlaces : Goto(w, q) => work' \in [Workers -> WorkerRecords]
           /\ Settle(w) => work' \in [Workers -> WorkerRecords]
<1>1. IdleWorker \in WorkerRecords
  BY ConstantsAssumption DEF IdleWorker, WorkerRecords, WorkerPlaces
<1>. QED BY <1>1 DEF WorkTypes, WorkerRecords, Goto, Settle

LEMMA PipelineTypes ==
    ASSUME TypeOK, NEW w \in Workers, Pipeline(w) \/ Crash(w)
    PROVE  TypeOK'
<1>. USE DEF rowVars, serviceVars, callVars, brokerVars
<1>0. RowTypes /\ WorkTypes /\ CallTypes BY TypeParts
<1>a. work[w].media \in Media /\ WorkerPlaces = {"start", "scan", "quarantine", "finish", "fail",
        "unlock", "idle", "lock", "answer"}
  BY <1>0 DEF WorkTypes, WorkerRecords, WorkerPlaces, Running
<1>b. Statuses = {"WAITING", "PROCESSING", "READY", "REJECTED"} BY DEF Statuses
<1>1. CASE Take(w)
  <2>1. PICK m \in Media, b \in BOOLEAN :
          /\ \/ /\ queue[m].first > 0 /\ queue' = [queue EXCEPT ![m].first = @ - 1]
             \/ /\ queue[m].again > 0 /\ queue' = [queue EXCEPT ![m].again = @ - 1]
          /\ work' = [work EXCEPT ![w] = [at |-> "lock", media |-> m, again |-> b]]
    BY <1>1 DEF Take
  <2>2. [at |-> "lock", media |-> m, again |-> b] \in WorkerRecords BY <1>a DEF WorkerRecords
  <2>3. work' \in [Workers -> WorkerRecords] BY <1>0, <2>1, <2>2 DEF WorkTypes
  <2>4. queue' \in [Media -> [first : Nat, again : Nat]] BY <1>0, <2>1 DEF WorkTypes
  <2>5. WorkTypes' BY <1>0, <1>1, <2>3, <2>4 DEF Take, WorkTypes
  <2>6. RowTypes' /\ CallTypes' BY <1>0, <1>1 DEF Take, RowTypes, CallTypes
  <2>. QED BY <2>5, <2>6, TypesTogether
<1>2. CASE Lock(w)
  <2>1. WorkTypes' BY <1>0, <1>a, <1>2, WorkMoves DEF Lock, WorkTypes
  <2>2. RowTypes' /\ CallTypes' BY <1>0, <1>2 DEF Lock, RowTypes, CallTypes
  <2>. QED BY <2>1, <2>2, TypesTogether
<1>3. CASE Skip(w) \/ LockThrows(w)
  <2>1. WorkTypes' BY <1>0, <1>a, <1>3, WorkMoves DEF Skip, LockThrows, GiveUp, WorkTypes
  <2>2. RowTypes' /\ CallTypes' BY <1>0, <1>3 DEF Skip, LockThrows, RowTypes, CallTypes
  <2>. QED BY <2>1, <2>2, TypesTogether
<1>4. CASE Start(w)
  <2>1. WorkTypes' BY <1>0, <1>a, <1>4, WorkMoves DEF Start, WorkTypes
  <2>2. RowTypes' BY <1>0, <1>a, <1>b, <1>4, SetStatusTypes DEF Start, RowTypes
  <2>3. CallTypes' BY <1>0, <1>4 DEF Start, CallTypes
  <2>. QED BY <2>1, <2>2, <2>3, TypesTogether
<1>5. CASE Scan(w) \/ Throws(w) \/ Unlock(w)
  <2>1. WorkTypes' BY <1>0, <1>a, <1>5, WorkMoves DEF Scan, Throws, Unlock, WorkTypes
  <2>2. RowTypes' /\ CallTypes' BY <1>0, <1>5 DEF Scan, Throws, Unlock, RowTypes, CallTypes
  <2>. QED BY <2>1, <2>2, TypesTogether
<1>6. CASE Quarantine(w) \/ Finish(w)
  <2>1. WorkTypes' BY <1>0, <1>a, <1>6, WorkMoves DEF Quarantine, Finish, WorkTypes
  <2>2. PICK s \in Statuses : EndWith(w, s) BY <1>6, <1>b DEF Quarantine, Finish
  <2>3. [status |-> s, key |-> FALSE] \in Rows BY DEF Rows
  <2>4. forgot' \in BOOLEAN BY <1>0, <1>a, <2>2 DEF EndWith, RowTypes, Rows, Gone
  <2>5. RowTypes' BY <1>0, <1>a, <1>6, <2>2, <2>3, <2>4, WriteTypes DEF Quarantine, Finish, EndWith, RowTypes
  <2>6. CallTypes' BY <1>0, <1>6 DEF Quarantine, Finish, CallTypes
  <2>. QED BY <2>1, <2>5, <2>6, TypesTogether
<1>7. CASE Fail(w)
  <2>1. WorkTypes' BY <1>0, <1>a, <1>7, WorkMoves DEF Fail, WorkTypes
  <2>2. RowTypes' BY <1>0, <1>a, <1>b, <1>7, SetStatusTypes DEF Fail, RowTypes
  <2>3. CallTypes' BY <1>0, <1>7 DEF Fail, CallTypes
  <2>. QED BY <2>1, <2>2, <2>3, TypesTogether
<1>8. CASE FailThrows(w)
  <2>1. WorkTypes' BY <1>0, <1>a, <1>8, WorkMoves DEF FailThrows, WorkTypes
  <2>2. RowTypes' /\ CallTypes' BY <1>0, <1>8 DEF FailThrows, RowTypes, CallTypes
  <2>. QED BY <2>1, <2>2, TypesTogether
<1>9. CASE Answer(w)
  <2>1. WorkTypes' BY <1>0, <1>a, <1>9, WorkMoves DEF Answer, WorkTypes
  <2>2. RowTypes' /\ CallTypes' BY <1>0, <1>9 DEF Answer, RowTypes, CallTypes
  <2>. QED BY <2>1, <2>2, TypesTogether
<1>10. CASE Crash(w)
  <2>1. queue' \in [Media -> [first : Nat, again : Nat]] BY <1>0, <1>a, <1>10 DEF Crash, WorkTypes
  <2>2. WorkTypes' BY <1>0, <1>10, <2>1, WorkMoves DEF Crash, WorkTypes
  <2>3. RowTypes' /\ CallTypes' BY <1>0, <1>10 DEF Crash, RowTypes, CallTypes
  <2>. QED BY <2>2, <2>3, TypesTogether
<1>. QED BY <1>1, <1>2, <1>3, <1>4, <1>5, <1>6, <1>7, <1>8, <1>9, <1>10 DEF Pipeline

LEMMA CallMoves ==
    ASSUME RowTypes, CallTypes, NEW c \in Calls
    PROVE  /\ EndCall(c) => CallTypes' /\ callsMade' \in Nat
           /\ \A m \in Media : \A q \in CallPlaces :
                /\ BeginCall(c, q, m, rows[m]) => CallTypes' /\ callsMade' \in Nat
                /\ BeginCall(c, q, m, replica[m]) => CallTypes' /\ callsMade' \in Nat
<1>1. IdleCall \in CallRecords
  BY ConstantsAssumption DEF IdleCall, CallRecords, CallPlaces
<1>2. \A m \in Media : \A q \in CallPlaces :
        /\ [at |-> q, media |-> m, snap |-> rows[m]] \in CallRecords
        /\ [at |-> q, media |-> m, snap |-> replica[m]] \in CallRecords
  BY DEF RowTypes, CallRecords
<1>3. callsMade + 1 \in Nat BY DEF RowTypes
<1>. QED BY <1>1, <1>2, <1>3 DEF CallTypes, RowTypes, EndCall, BeginCall

LEMMA ServiceTypes ==
    ASSUME TypeOK, NEW c \in Calls, Continue(c) \/ \E m \in Media : Begin(c, m)
    PROVE  TypeOK'
<1>. USE DEF rowVars, workerVars, brokerVars
<1>0. RowTypes /\ WorkTypes /\ CallTypes BY TypeParts
<1>a. /\ pending[c].media \in Media /\ pending[c].snap \in Rows \union {Gone}
      /\ pending[c].snap.key \in BOOLEAN /\ \A m \in Media : rows[m].key \in BOOLEAN /\ replica[m].key \in BOOLEAN
      /\ CallPlaces = {"idle", "confirm", "edit", "copy", "deleteObject", "deleteRow"}
  <2>1. \A row \in Rows \union {Gone} : row.key \in BOOLEAN
    <3>1. \A row \in Rows : row.key \in BOOLEAN BY DEF Rows
    <3>2. Gone.key \in BOOLEAN BY Zenon DEF Gone
    <3>. QED BY <3>1, <3>2
  <2>2. pending[c] \in CallRecords BY <1>0 DEF CallTypes
  <2>3. pending[c].media \in Media /\ pending[c].snap \in Rows \union {Gone}
    BY <2>2 DEF CallRecords
  <2>4. \A m \in Media : rows[m] \in Rows \union {Gone} /\ replica[m] \in Rows \union {Gone}
    BY <1>0 DEF RowTypes
  <2>. QED BY <2>1, <2>3, <2>4 DEF CallPlaces
<1>1. UNCHANGED workerVars
  BY DEF Continue, Begin, ConfirmUpload, Edit, CopyMedia, DeleteObject, DeleteRow, AbortCall,
     BeginConfirm, BeginEdit, BeginCopy, BeginDelete, BeginCall
<1>2. WorkTypes' BY <1>0, <1>1 DEF WorkTypes
<1>3. CASE ConfirmUpload(c)
  <2>1. [status |-> "READY", key |-> pending[c].snap.key] \in Rows BY <1>a DEF Rows, Statuses
  <2>2. RowTypes' BY <1>0, <1>a, <1>3, <2>1, WriteTypes, CallMoves DEF ConfirmUpload, RowTypes
  <2>. QED BY <1>0, <1>2, <1>3, <2>2, CallMoves, TypesTogether DEF ConfirmUpload
<1>4. CASE Edit(c)
  <2>1. rows[pending[c].media] \in Rows BY <1>0, <1>a, <1>4 DEF Edit, Write, Exists, RowTypes
  <2>2. [rows[pending[c].media] EXCEPT !.key = pending[c].snap.key] \in Rows BY <1>a, <2>1 DEF Rows
  <2>3. RowTypes' BY <1>0, <1>a, <1>4, <2>2, WriteTypes, CallMoves DEF Edit, RowTypes
  <2>. QED BY <1>0, <1>2, <1>4, <2>3, CallMoves, TypesTogether DEF Edit
<1>5. CASE CopyMedia(c)
  <2>1. RowTypes' BY <1>0, <1>a, <1>5, CallMoves DEF CopyMedia, RowTypes
  <2>. QED BY <1>0, <1>2, <1>5, <2>1, CallMoves, TypesTogether DEF CopyMedia
<1>6. CASE DeleteObject(c)
  <2>1. RowTypes' BY <1>0, <1>6 DEF DeleteObject, RowTypes
  <2>2. CallTypes' BY <1>0, <1>a, <1>6 DEF DeleteObject, CallTypes, CallRecords
  <2>. QED BY <1>2, <2>1, <2>2, TypesTogether
<1>7. CASE DeleteRow(c)
  <2>1. RowTypes' BY <1>0, <1>a, <1>7, WriteTypes, CallMoves DEF DeleteRow, RowTypes
  <2>. QED BY <1>0, <1>2, <1>7, <2>1, CallMoves, TypesTogether DEF DeleteRow
<1>8. CASE AbortCall(c)
  <2>1. RowTypes' BY <1>0, <1>8, CallMoves DEF AbortCall, RowTypes
  <2>. QED BY <1>0, <1>2, <1>8, <2>1, CallMoves, TypesTogether DEF AbortCall
<1>9. ASSUME NEW m \in Media, BeginConfirm(c, m) \/ BeginEdit(c, m) \/ BeginCopy(c, m) PROVE TypeOK'
  <2>1. CallTypes' /\ callsMade' \in Nat
    BY <1>0, <1>a, <1>9, CallMoves DEF BeginConfirm, BeginEdit, BeginCopy
  <2>2. RowTypes' BY <1>0, <1>9, <2>1 DEF BeginConfirm, BeginEdit, BeginCopy, BeginCall, RowTypes
  <2>. QED BY <1>2, <2>1, <2>2, TypesTogether
<1>10. ASSUME NEW m \in Media, BeginDelete(c, m) PROVE TypeOK'
  <2>1. CallTypes' /\ callsMade' \in Nat
    BY <1>0, <1>a, <1>10, CallMoves DEF BeginDelete
  <2>2. forgot' \in BOOLEAN BY <1>0, <1>a, <1>10 DEF BeginDelete, RowTypes
  <2>3. RowTypes' BY <1>0, <1>10, <2>1, <2>2 DEF BeginDelete, BeginCall, RowTypes
  <2>. QED BY <1>2, <2>1, <2>3, TypesTogether
<1>. QED BY <1>3, <1>4, <1>5, <1>6, <1>7, <1>8, <1>9, <1>10 DEF Continue, Begin

\* Rows, messages, pipelines and calls stay well typed (TypeOK).
THEOREM TypeCorrect == Spec => []TypeOK
<1>1. Init => TypeOK
  <2> SUFFICES ASSUME Init PROVE TypeOK
    OBVIOUS
  <2>1. IdleWorker \in WorkerRecords /\ IdleCall \in CallRecords
    BY ConstantsAssumption DEF IdleWorker, IdleCall, WorkerRecords, CallRecords, WorkerPlaces, CallPlaces
  <2>2. PICK first \in Rows :
          /\ rows = [m \in Media |-> IF m = Original THEN first ELSE Gone]
          /\ uploading = first.key /\ byCall = {Original}
    BY DEF Init, Rows, Statuses
  <2>3. RowTypes BY <2>2, ConstantsAssumption DEF Init, RowTypes, Rows
  <2>4. WorkTypes BY <2>1 DEF Init, WorkTypes
  <2>5. CallTypes BY <2>1 DEF Init, CallTypes
  <2>. QED BY <2>3, <2>4, <2>5, TypeParts
<1>2. TypeOK /\ [Next]_vars => TypeOK'
  <2> SUFFICES ASSUME TypeOK, [Next]_vars PROVE TypeOK'
    OBVIOUS
  <2>. USE DEF rowVars, workerVars, brokerVars, serviceVars, callVars
  <2>0. RowTypes /\ WorkTypes /\ CallTypes BY TypeParts
  <2>1. ASSUME NEW m \in Media, Publish(m) PROVE TypeOK'
    <3>1. queue' \in [Media -> [first : Nat, again : Nat]] /\ jobs' \in Nat
      BY <2>0, <2>1 DEF Publish, WorkTypes
    <3>2. WorkTypes' BY <2>0, <2>1, <3>1 DEF Publish, WorkTypes
    <3>3. RowTypes' /\ CallTypes' BY <2>0, <2>1 DEF Publish, RowTypes, CallTypes
    <3>. QED BY <3>2, <3>3, TypesTogether
  <2>2. ASSUME NEW m \in Media, LockExpires(m) PROVE TypeOK'
    <3>1. WorkTypes' BY <2>0, <2>2 DEF LockExpires, WorkTypes
    <3>2. RowTypes' /\ CallTypes' BY <2>0, <2>2 DEF LockExpires, RowTypes, CallTypes
    <3>. QED BY <3>1, <3>2, TypesTogether
  <2>3. ASSUME NEW m \in Media, Cleanup(m) PROVE TypeOK'
    <3>1. RowTypes' BY <2>0, <2>3, WriteTypes DEF Cleanup, RowTypes
    <3>2. WorkTypes' /\ CallTypes' BY <2>0, <2>3 DEF Cleanup, WorkTypes, CallTypes
    <3>. QED BY <3>1, <3>2, TypesTogether
  <2>4. ASSUME NEW m \in Media, NEW s \in Statuses, SetsStatus(m, s) PROVE TypeOK'
    <3>1. RowTypes' BY <2>0, <2>4, SetStatusTypes DEF SetsStatus, RowTypes
    <3>2. WorkTypes' /\ CallTypes' BY <2>0, <2>4 DEF SetsStatus, WorkTypes, CallTypes
    <3>. QED BY <3>1, <3>2, TypesTogether
  <2>5. CASE PutObject
    <3>1. RowTypes' BY <2>0, <2>5 DEF PutObject, RowTypes, TooLate, Rows, Gone
    <3>2. WorkTypes' /\ CallTypes' BY <2>0, <2>5 DEF PutObject, WorkTypes, CallTypes
    <3>. QED BY <3>1, <3>2, TypesTogether
  <2>6. CASE Replicate \/ UNCHANGED vars
    <3>1. RowTypes' /\ WorkTypes' /\ CallTypes'
      BY <2>0, <2>6 DEF Replicate, vars, RowTypes, WorkTypes, CallTypes
    <3>. QED BY <3>1, TypesTogether
  <2>. QED BY <2>1, <2>2, <2>3, <2>4, <2>5, <2>6, PipelineTypes, ServiceTypes DEF Next
<1>. QED BY <1>1, <1>2, PTL DEF Spec

-----------------------------------------------------------------------------
(* Overlapping pipelines *)

LEMMA PlaceNames ==
    /\ WorkerPlaces = {"start", "scan", "quarantine", "finish", "fail", "unlock", "idle", "lock", "answer"}
    /\ Running = {"start", "scan", "quarantine", "finish", "fail", "unlock"}
BY DEF WorkerPlaces, Running

\* The steps of a worker, by what they do to its place.
Enters(w) == work[w].at \notin Running /\ work'[w].at \in Running /\ work'[w].media = work[w].media

Stays(w) == work[w].at \in Running /\ work'[w].at \in Running /\ work'[w].media = work[w].media

Leaves(w) == work[w].at \in Running /\ work'[w].at \notin Running

Rests(w) == work[w].at \notin Running /\ work'[w].at \notin Running

OnlyMoves(w) == \A v \in Workers \ {w} : work'[v] = work[v]

LEMMA PlaceSteps ==
    ASSUME TypeOK, NEW w \in Workers, Pipeline(w) \/ Crash(w)
    PROVE  /\ OnlyMoves(w)
           /\ Take(w) \/ Skip(w) \/ LockThrows(w) \/ Answer(w) => Rests(w)
           /\ Lock(w) => Enters(w)
           /\ Start(w) \/ Scan(w) \/ Quarantine(w) \/ Finish(w) \/ Throws(w) \/ Fail(w)
                \/ FailThrows(w) => Stays(w)
           /\ Unlock(w) => Leaves(w)
           /\ Crash(w) => Leaves(w) \/ Rests(w)
<1>0. work \in [Workers -> WorkerRecords] BY DEF TypeOK, WorkerRecords
<1>. USE <1>0 DEF WorkerRecords
<1>1. OnlyMoves(w)
  BY DEF OnlyMoves, Pipeline, Take, Lock, Skip, LockThrows, Start, Scan, Quarantine, Finish, Throws,
     Fail, FailThrows, Unlock, Answer, Crash, Goto, Settle
<1>2. Take(w) \/ Skip(w) \/ LockThrows(w) \/ Answer(w) => Rests(w)
  BY PlaceNames DEF Rests, Take, Skip, LockThrows, Answer, At, Settle, IdleWorker
<1>3. Lock(w) => Enters(w)
  BY PlaceNames DEF Enters, Lock, At, Goto
<1>4. Start(w) \/ Scan(w) \/ Quarantine(w) \/ Finish(w) \/ Throws(w) \/ Fail(w) \/ FailThrows(w)
        => Stays(w)
  BY PlaceNames DEF Stays, Start, Scan, Quarantine, Finish, Throws, Fail, FailThrows, At, Goto
<1>5. Unlock(w) => Leaves(w)
  BY PlaceNames DEF Leaves, Unlock, At, Goto
<1>6. Crash(w) => Leaves(w) \/ Rests(w)
  BY PlaceNames DEF Leaves, Rests, Crash, Settle, IdleWorker
<1>. QED BY <1>1, <1>2, <1>3, <1>4, <1>5, <1>6

LEMMA RunningFinite ==
    ASSUME NEW m \in Media
    PROVE  IsFiniteSet(RunningOn(m)) /\ Cardinality(RunningOn(m)) \in Nat
BY ConstantsAssumption, FS_Subset, FS_CardinalityType DEF RunningOn

\* What a worker's step does to the pipelines of a row.
LEMMA RunningChanges ==
    ASSUME TypeOK, NEW w \in Workers, OnlyMoves(w), NEW m \in Media
    PROVE  /\ Rests(w) \/ Stays(w) => RunningOn(m)' = RunningOn(m)
           /\ Enters(w) => IF work[w].media = m
                           THEN RunningOn(m)' = RunningOn(m) \union {w} /\ w \notin RunningOn(m)
                           ELSE RunningOn(m)' = RunningOn(m)
           /\ Leaves(w) => IF work[w].media = m
                           THEN RunningOn(m)' = RunningOn(m) \ {w} /\ w \in RunningOn(m)
                           ELSE RunningOn(m)' = RunningOn(m)
BY DEF OnlyMoves, Rests, Stays, Enters, Leaves, RunningOn

\* Inductive: the pipelines of a row are at most its lock and its lapses.
Budget(m) == (IF m \in lock THEN 1 ELSE 0) + lapses[m]

OverlapInv == \A m \in Media : Cardinality(RunningOn(m)) <= Budget(m)

LEMMA OverlapStep ==
    ASSUME TypeOK, OverlapInv, [Next]_vars
    PROVE  OverlapInv'
<1>. USE DEF brokerVars, workerVars
<1>0. /\ lapses \in [Media -> Nat] /\ \A w \in Workers : work[w].media \in Media
      /\ work \in [Workers -> WorkerRecords]
  BY DEF TypeOK, WorkerRecords
<1>1. ASSUME NEW w \in Workers, Pipeline(w) \/ Crash(w), ~Lock(w), ~Unlock(w) PROVE OverlapInv'
  <2>1. UNCHANGED <<lock, lapses>>
    BY <1>1 DEF Pipeline, Take, Skip, LockThrows, Start, Scan, Quarantine, Finish, Throws, Fail,
       FailThrows, Answer, Crash
  <2>2. Rests(w) \/ Stays(w) \/ Leaves(w) BY <1>1, PlaceSteps DEF Pipeline
  <2>3. ASSUME NEW m \in Media PROVE Cardinality(RunningOn(m)') <= Cardinality(RunningOn(m))
    <3>1. \/ RunningOn(m)' = RunningOn(m)
          \/ RunningOn(m)' = RunningOn(m) \ {w} /\ w \in RunningOn(m)
      BY <1>1, <2>2, PlaceSteps, RunningChanges
    <3>2. Cardinality(RunningOn(m) \ {w}) <= Cardinality(RunningOn(m))
      BY RunningFinite, FS_Subset, FS_RemoveElement
    <3>. QED BY <3>1, <3>2, RunningFinite
  <2>4. \A m \in Media : Cardinality(RunningOn(m)') \in Nat
    BY ConstantsAssumption, FS_Subset, FS_CardinalityType DEF RunningOn
  <2>. QED BY <1>0, <2>1, <2>3, <2>4, RunningFinite DEF OverlapInv, Budget
<1>2. ASSUME NEW w \in Workers, Lock(w) PROVE OverlapInv'
  <2>0. work[w].media \notin lock /\ lock' = lock \union {work[w].media} /\ UNCHANGED lapses
    BY <1>2 DEF Lock, MayLock
  <2>1. Enters(w) /\ OnlyMoves(w) BY <1>2, PlaceSteps DEF Pipeline
  <2>2. ASSUME NEW m \in Media PROVE Cardinality(RunningOn(m)') <= Budget(m)'
    <3>1. CASE work[w].media = m
      <4>1. RunningOn(m)' = RunningOn(m) \union {w} /\ w \notin RunningOn(m)
        BY <2>1, <3>1, RunningChanges
      <4>2. Cardinality(RunningOn(m)') = Cardinality(RunningOn(m)) + 1
        BY <4>1, RunningFinite, FS_AddElement
      <4>3. Cardinality(RunningOn(m)) <= lapses[m]
        BY <1>0, <2>0, <3>1 DEF OverlapInv, Budget
      <4>. QED BY <1>0, <2>0, <3>1, <4>2, <4>3, RunningFinite DEF Budget
    <3>2. CASE work[w].media # m
      BY <2>0, <2>1, <3>2, RunningChanges DEF OverlapInv, Budget
    <3>. QED BY <3>1, <3>2
  <2>. QED BY <2>2 DEF OverlapInv
<1>3. ASSUME NEW w \in Workers, Unlock(w) PROVE OverlapInv'
  <2>0. lock' \in {lock, lock \ {work[w].media}} /\ UNCHANGED lapses BY <1>3 DEF Unlock
  <2>1. Leaves(w) /\ OnlyMoves(w) BY <1>3, PlaceSteps DEF Pipeline
  <2>2. ASSUME NEW m \in Media PROVE Cardinality(RunningOn(m)') <= Budget(m)'
    <3>1. CASE work[w].media = m
      <4>1. RunningOn(m)' = RunningOn(m) \ {w} /\ w \in RunningOn(m)
        BY <2>1, <3>1, RunningChanges
      <4>2. Cardinality(RunningOn(m)') = Cardinality(RunningOn(m)) - 1
        BY <4>1, RunningFinite, FS_RemoveElement
      <4>3. Cardinality(RunningOn(m)) <= 1 + lapses[m]
        BY <1>0, RunningFinite DEF OverlapInv, Budget
      <4>. QED BY <1>0, <2>0, <3>1, <4>2, <4>3, RunningFinite DEF Budget
    <3>2. CASE work[w].media # m
      BY <2>0, <2>1, <3>2, RunningChanges DEF OverlapInv, Budget
    <3>. QED BY <3>1, <3>2
  <2>. QED BY <2>2 DEF OverlapInv
<1>4. ASSUME NEW k \in Media, LockExpires(k) PROVE OverlapInv'
  <2>1. \A m \in Media : RunningOn(m)' = RunningOn(m) BY <1>4 DEF LockExpires, RunningOn
  <2>2. ASSUME NEW m \in Media PROVE Cardinality(RunningOn(m)) <= Budget(m)'
    <3>1. CASE m # k
      BY <1>0, <1>4, <3>1 DEF LockExpires, OverlapInv, Budget
    <3>2. CASE m = k /\ RunningOn(k) = {}
      BY <1>0, <1>4, <3>2, FS_EmptySet DEF LockExpires, Budget
    <3>3. CASE m = k /\ RunningOn(k) # {}
      <4>1. lapses'[m] = lapses[m] + 1 /\ m \notin lock' BY <1>0, <1>4, <3>3 DEF LockExpires
      <4>2. Cardinality(RunningOn(m)) <= 1 + lapses[m]
        BY <1>0, RunningFinite DEF OverlapInv, Budget
      <4>. QED BY <1>0, <4>1, <4>2, RunningFinite DEF Budget
    <3>. QED BY <3>1, <3>2, <3>3
  <2>. QED BY <2>1, <2>2 DEF OverlapInv
<1>5. CASE UNCHANGED <<work, lock, lapses>>
  BY <1>5 DEF OverlapInv, Budget, RunningOn
<1>6. ASSUME \/ \E m \in Media : Publish(m) \/ Cleanup(m)
             \/ \E m \in Media, s \in Statuses : SetsStatus(m, s)
             \/ \E c \in Calls : Continue(c) \/ \E m \in Media : Begin(c, m)
             \/ PutObject \/ Replicate \/ UNCHANGED vars
      PROVE  UNCHANGED <<work, lock, lapses>>
  BY <1>6 DEF Publish, Cleanup, SetsStatus, Continue, Begin, ConfirmUpload, Edit, CopyMedia,
     DeleteObject, DeleteRow, AbortCall, BeginConfirm, BeginEdit, BeginCopy, BeginDelete, BeginCall,
     PutObject, Replicate, vars
<1>. QED BY <1>1, <1>2, <1>3, <1>4, <1>5, <1>6 DEF Next, Pipeline

\* Pipelines of one row overlap no more than its locks expired under a pipeline
\* (OverlapsNeedLapses).
THEOREM OverlapsAreLapses == Spec => []OverlapsNeedLapses
<1>1. Init => OverlapInv
  <2> SUFFICES ASSUME Init, NEW m \in Media PROVE Cardinality(RunningOn(m)) <= Budget(m)
    BY DEF OverlapInv
  <2>1. RunningOn(m) = {} BY PlaceNames DEF Init, RunningOn, IdleWorker
  <2>. QED BY <2>1, FS_EmptySet DEF Init, Budget
<1>2. TypeOK /\ OverlapInv => OverlapsNeedLapses
  BY RunningFinite DEF TypeOK, OverlapInv, Budget, OverlapsNeedLapses
<1>. QED BY <1>1, <1>2, OverlapStep, TypeCorrect, PTL DEF Spec

-----------------------------------------------------------------------------
(* Rows that read PROCESSING *)

Explained(m) == Underway(m) \/ ComesAgain(m) \/ m \in byCall \/ m \in abandoned

\* A pipeline that w has still to bring to a status.
Due(w, m) == work[w].media = m /\ work[w].at \in Running \ {"unlock"}

\* A redelivery that w has just taken.
Retries(w, m) == work[w].at = "lock" /\ work[w].media = m /\ work[w].again

\* After a step of w a row is explained if what w and the histories contributed is replaced.
LEMMA ExplainedByOthers ==
    ASSUME TypeOK, NEW w \in Workers, OnlyMoves(w), NEW m \in Media, Explained(m),
           queue[m].again > 0 => Explained(m)',
           Due(w, m) => Explained(m)',
           Retries(w, m) => Explained(m)',
           m \in byCall => Explained(m)',
           m \in abandoned => Explained(m)'
    PROVE  Explained(m)'
<1>1. ASSUME NEW v \in Workers \ {w}, Due(v, m) PROVE Explained(m)'
  BY <1>1 DEF Due, OnlyMoves, Explained, Underway
<1>2. ASSUME NEW v \in Workers \ {w}, Retries(v, m) PROVE Explained(m)'
  BY <1>2 DEF Retries, OnlyMoves, Explained, ComesAgain
<1>. QED BY <1>1, <1>2 DEF Explained, Underway, ComesAgain, Due, Retries

\* The steps that write no status.
LEMMA ExplainedQuietly ==
    ASSUME TypeOK, NEW w \in Workers, Pipeline(w) \/ Crash(w),
           ~Start(w), ~Quarantine(w), ~Finish(w), ~Fail(w),
           NEW m \in Media, Explained(m)
    PROVE  Explained(m)'
<1>. USE DEF brokerVars, rowVars
<1>0. /\ work \in [Workers -> WorkerRecords] /\ queue \in [Media -> [first : Nat, again : Nat]]
      /\ work[w].media \in Media
  BY DEF TypeOK, WorkerRecords
<1>a. OnlyMoves(w) BY PlaceSteps
<1>b. m \in byCall => Explained(m)'
  BY DEF Explained, Pipeline, Take, Lock, Scan, Throws, Skip, LockThrows, FailThrows, Unlock, Answer, Crash
<1>1. CASE Take(w)
  <2>1. ~Due(w, m) /\ ~Retries(w, m) BY <1>1, PlaceNames DEF Take, At, Due, Retries
  <2>2. m \in abandoned => Explained(m)' BY <1>1 DEF Take, Explained
  <2>3. ASSUME queue[m].again > 0 PROVE Explained(m)'
    <3>1. PICK k \in Media :
            \/ queue' = [queue EXCEPT ![k].first = @ - 1]
            \/ /\ queue' = [queue EXCEPT ![k].again = @ - 1]
               /\ work' = [work EXCEPT ![w] = [at |-> "lock", media |-> k, again |-> TRUE]]
      BY <1>1 DEF Take
    <3>2. queue'[m].again = queue[m].again \/ work'[w] = [at |-> "lock", media |-> m, again |-> TRUE]
      BY <1>0, <3>1
    <3>. QED BY <2>3, <3>2 DEF Explained, ComesAgain
  <2>. QED BY <1>a, <1>b, <2>1, <2>2, <2>3, ExplainedByOthers
<1>2. CASE Lock(w) \/ Scan(w) \/ Throws(w)
  <2>1. UNCHANGED <<queue, abandoned>> BY <1>2 DEF Lock, Scan, Throws
  <2>2. Due(w, m) \/ Retries(w, m) => Due(w, m)'
    <3>1. PICK place \in Running \ {"unlock"} : Goto(w, place)
      BY <1>2, PlaceNames DEF Lock, Scan, Throws
    <3>. QED BY <1>0, <3>1 DEF Due, Retries, Goto
  <2>3. Due(w, m)' => Explained(m)' BY DEF Due, Explained, Underway
  <2>4. queue[m].again > 0 \/ m \in abandoned => Explained(m)' BY <2>1 DEF Explained, ComesAgain
  <2>. QED BY <1>a, <1>b, <2>2, <2>3, <2>4, ExplainedByOthers
<1>3. CASE Skip(w) \/ LockThrows(w)
  <2>1. UNCHANGED queue /\ GiveUp(w) BY <1>3 DEF Skip, LockThrows
  <2>2. ~Due(w, m) BY <1>3, PlaceNames DEF Due, Skip, LockThrows, At
  <2>3. m \in abandoned \/ Retries(w, m) => m \in abandoned' BY <2>1 DEF GiveUp, Retries
  <2>4. queue[m].again > 0 \/ m \in abandoned' => Explained(m)' BY <2>1 DEF Explained, ComesAgain
  <2>. QED BY <1>a, <1>b, <2>2, <2>3, <2>4, ExplainedByOthers
<1>4. CASE FailThrows(w)
  <2>1. UNCHANGED queue /\ abandoned' = abandoned \union {work[w].media} BY <1>4 DEF FailThrows
  <2>2. ~Retries(w, m) BY <1>4 DEF Retries, FailThrows, At
  <2>3. m \in abandoned \/ Due(w, m) => m \in abandoned' BY <2>1 DEF Due
  <2>4. queue[m].again > 0 \/ m \in abandoned' => Explained(m)' BY <2>1 DEF Explained, ComesAgain
  <2>. QED BY <1>a, <1>b, <2>2, <2>3, <2>4, ExplainedByOthers
<1>5. CASE Unlock(w) \/ Answer(w)
  <2>1. UNCHANGED <<queue, abandoned>> BY <1>5 DEF Unlock, Answer
  <2>2. ~Due(w, m) /\ ~Retries(w, m) BY <1>5, PlaceNames DEF Due, Retries, Unlock, Answer, At
  <2>3. queue[m].again > 0 \/ m \in abandoned => Explained(m)' BY <2>1 DEF Explained, ComesAgain
  <2>. QED BY <1>a, <1>b, <2>2, <2>3, ExplainedByOthers
<1>6. CASE Crash(w)
  <2>1. UNCHANGED abandoned /\ queue' = [queue EXCEPT ![work[w].media].again = @ + 1]
    BY <1>6 DEF Crash
  <2>2. queue[m].again > 0 \/ work[w].media = m => queue'[m].again > 0 BY <1>0, <2>1
  <2>3. queue[m].again > 0 \/ Due(w, m) \/ Retries(w, m) => Explained(m)'
    BY <2>2 DEF Due, Retries, Explained, ComesAgain
  <2>4. m \in abandoned => Explained(m)' BY <2>1 DEF Explained
  <2>. QED BY <1>a, <1>b, <2>3, <2>4, ExplainedByOthers
<1>. QED BY <1>1, <1>2, <1>3, <1>4, <1>5, <1>6 DEF Pipeline

\* The steps that write a status.
LEMMA ExplainedByStatus ==
    ASSUME TypeOK, NEW w \in Workers, Start(w) \/ Quarantine(w) \/ Finish(w) \/ Fail(w),
           NEW m \in Media, rows[m].status = "PROCESSING" => Explained(m),
           rows'[m].status = "PROCESSING"
    PROVE  Explained(m)'
<1>. USE DEF brokerVars, rowVars
<1>. DEFINE k == work[w].media
<1>0. /\ work \in [Workers -> WorkerRecords] /\ rows \in [Media -> Rows \union {Gone}] /\ k \in Media
  BY DEF TypeOK, WorkerRecords
<1>a. OnlyMoves(w) BY PlaceSteps DEF Pipeline
<1>1. CASE m = k
  <2>1. CASE Start(w)
    <3>1. Due(w, m)' BY <1>0, <1>1, <2>1, PlaceNames DEF Start, Due, At, Goto
    <3>. QED BY <3>1 DEF Due, Explained, Underway
  <2>2. CASE Quarantine(w) \/ Finish(w) \/ Fail(w)
    <3>1. rows'[k].status # "PROCESSING"
      <4>1. CASE Quarantine(w) \/ Finish(w)
        <5>1. PICK s \in {"READY", "REJECTED"} : rows' = [rows EXCEPT ![k] = [status |-> s, key |-> FALSE]]
          BY <4>1 DEF Quarantine, Finish, EndWith, Write
        <5>. QED BY <1>0, <5>1
      <4>2. CASE Fail(w)
        <5>1. rows[k] \in Rows /\ rows' = [rows EXCEPT ![k] = [rows[k] EXCEPT !.status = "REJECTED"]]
          BY <1>0, <4>2 DEF Fail, SetStatus, Write, Exists
        <5>. QED BY <1>0, <5>1 DEF Rows
      <4>. QED BY <2>2, <4>1, <4>2
    <3>. QED BY <1>1, <3>1
  <2>. QED BY <2>1, <2>2
<1>2. CASE m # k
  <2>1. rows'[m] = rows[m]
    BY <1>0, <1>2 DEF Start, Quarantine, Finish, Fail, EndWith, SetStatus, Write
  <2>2. ~Due(w, m) /\ ~Retries(w, m) BY <1>2 DEF Due, Retries
  <2>3. queue' = queue /\ (m \in byCall => m \in byCall') /\ (m \in abandoned => m \in abandoned')
    BY <1>2 DEF Start, Quarantine, Finish, Fail, EndWith
  <2>4. queue[m].again > 0 \/ m \in byCall \/ m \in abandoned => Explained(m)'
    BY <2>3 DEF Explained, ComesAgain
  <2>. QED BY <1>a, <2>1, <2>2, <2>4, ExplainedByOthers
<1>. QED BY <1>1, <1>2

LEMMA ProcessingStep ==
    ASSUME TypeOK, ProcessingIsExplained, [Next]_vars
    PROVE  ProcessingIsExplained'
<1>. USE DEF brokerVars, workerVars, rowVars, serviceVars, callVars
<1>0. /\ rows \in [Media -> Rows \union {Gone}] /\ queue \in [Media -> [first : Nat, again : Nat]]
      /\ byCall \subseteq Media
  BY DEF TypeOK
<1>a. Gone.status # "PROCESSING" BY DEF Gone
<1>1. SUFFICES ASSUME NEW m \in Media, rows'[m].status = "PROCESSING" PROVE Explained(m)'
  BY DEF ProcessingIsExplained, Explained
<1>2. rows[m].status = "PROCESSING" => Explained(m) BY DEF ProcessingIsExplained, Explained
<1>3. ASSUME NEW w \in Workers, Pipeline(w) \/ Crash(w) PROVE Explained(m)'
  <2>1. CASE Start(w) \/ Quarantine(w) \/ Finish(w) \/ Fail(w)
    BY <1>1, <1>2, <2>1, ExplainedByStatus
  <2>2. CASE ~(Start(w) \/ Quarantine(w) \/ Finish(w) \/ Fail(w))
    <3>1. rows' = rows
      BY <1>3, <2>2 DEF Pipeline, Take, Lock, Scan, Throws, Skip, LockThrows, FailThrows, Unlock, Answer, Crash
    <3>. QED BY <1>1, <1>2, <1>3, <2>2, <3>1, ExplainedQuietly
  <2>. QED BY <2>1, <2>2
<1>4. ASSUME UNCHANGED <<work, abandoned>>, queue'[m].again = queue[m].again,
             m \in byCall => m \in byCall', rows[m].status = "PROCESSING" \/ m \in byCall'
      PROVE  Explained(m)'
  BY <1>2, <1>4 DEF Explained, Underway, ComesAgain
<1>5. ASSUME NEW k \in Media, Publish(k) PROVE Explained(m)'
  <2>1. queue'[m].again = queue[m].again BY <1>0, <1>5 DEF Publish
  <2>. QED BY <1>1, <1>4, <1>5, <2>1 DEF Publish
<1>6. ASSUME NEW k \in Media, LockExpires(k) PROVE Explained(m)'
  BY <1>1, <1>4, <1>6 DEF LockExpires
<1>7. ASSUME NEW k \in Media, Cleanup(k) PROVE Explained(m)'
  BY <1>0, <1>1, <1>a, <1>4, <1>7 DEF Cleanup, Write
<1>8. ASSUME NEW k \in Media, NEW s \in Statuses, SetsStatus(k, s) PROVE Explained(m)'
  BY <1>0, <1>1, <1>4, <1>8 DEF SetsStatus, SetStatus, Write
<1>9. ASSUME NEW c \in Calls, Continue(c) PROVE Explained(m)'
  <2>1. UNCHANGED <<work, abandoned, queue>> /\ byCall \subseteq byCall'
    BY <1>9 DEF Continue, ConfirmUpload, Edit, CopyMedia, DeleteObject, DeleteRow, AbortCall
  <2>2. rows[m].status = "PROCESSING" \/ m \in byCall'
    <3>1. CASE ConfirmUpload(c)
      BY <1>0, <1>1, <3>1 DEF ConfirmUpload, Write
    <3>2. CASE Edit(c)
      <4>1. /\ rows[pending[c].media] \in Rows
            /\ rows' = [rows EXCEPT ![pending[c].media] = [rows[pending[c].media] EXCEPT !.key = pending[c].snap.key]]
        <5>1. pending[c].media \in Media BY DEF TypeOK
        <5>. QED BY <1>0, <3>2, <5>1 DEF Edit, Write, Exists
      <4>2. m # pending[c].media => rows'[m] = rows[m] BY <1>0, <4>1
      <4>3. m = pending[c].media => rows'[m].status = rows[m].status BY <1>0, <4>1 DEF Rows
      <4>. QED BY <1>1, <4>2, <4>3
    <3>3. CASE CopyMedia(c)
      BY <1>0, <1>1, <3>3 DEF CopyMedia
    <3>4. CASE DeleteRow(c)
      BY <1>0, <1>1, <1>a, <3>4 DEF DeleteRow, Write
    <3>5. CASE DeleteObject(c) \/ AbortCall(c)
      BY <1>1, <3>5 DEF DeleteObject, AbortCall
    <3>. QED BY <1>9, <3>1, <3>2, <3>3, <3>4, <3>5 DEF Continue
  <2>. QED BY <1>4, <2>1, <2>2
<1>10. ASSUME NEW c \in Calls, NEW k \in Media, Begin(c, k) PROVE Explained(m)'
  BY <1>1, <1>4, <1>10 DEF Begin, BeginConfirm, BeginEdit, BeginCopy, BeginDelete, BeginCall
<1>11. CASE PutObject \/ Replicate \/ UNCHANGED vars
  BY <1>1, <1>4, <1>11 DEF PutObject, Replicate, vars
<1>. QED BY <1>3, <1>5, <1>6, <1>7, <1>8, <1>9, <1>10, <1>11 DEF Next

\* A row that reads PROCESSING has a pipeline under way or coming back, unless a call
\* wrote that status or the redelivery was given up (ProcessingIsExplained).
THEOREM ProcessingEnds == Spec => []ProcessingIsExplained
<1>1. Init => ProcessingIsExplained
  <2> SUFFICES ASSUME Init, NEW m \in Media PROVE rows[m].status # "PROCESSING"
    BY DEF ProcessingIsExplained
  <2>1. Gone.status # "PROCESSING" BY DEF Gone
  <2>2. PICK first \in {[status |-> "WAITING", key |-> TRUE], [status |-> "READY", key |-> TRUE],
                        [status |-> "WAITING", key |-> FALSE]} :
          rows = [k \in Media |-> IF k = Original THEN first ELSE Gone]
    BY DEF Init
  <2>. QED BY <2>1, <2>2
<1>. QED BY <1>1, ProcessingStep, TypeCorrect, PTL DEF Spec

-----------------------------------------------------------------------------
(* Objects without rows *)

HasSnap == {"confirm", "edit", "copy", "deleteObject"}

\* The deletions that have passed the object are of rows that are gone for good.
NoRowToDelete ==
    \A c \in Calls : CallAt(c, "deleteRow") =>
        rows[pending[c].media] = Gone /\ pending[c].media \notin unused

\* An upload that names its object: every row there is, and every snapshot, names it.
Keyed ==
    /\ \A m \in Media : (rows[m] = Gone \/ rows[m].key) /\ (replica[m] = Gone \/ replica[m].key)
    /\ \A c \in Calls : pending[c].at \in HasSnap => pending[c].snap.key
    /\ object => NoRowToDelete /\ \E m \in Media : Exists(m)

\* An upload that does not (in chunks).
Keyless ==
    /\ ~object /\ ~uploading
    /\ \A m \in Media : ~rows[m].key /\ ~replica[m].key
    /\ \A c \in Calls : ~pending[c].snap.key

LeakInv == forgot \/ Keyed \/ Keyless

LEMMA KeyFacts ==
    ASSUME TypeOK
    PROVE  /\ Gone.key = FALSE /\ Gone \notin Rows
           /\ rows \in [Media -> Rows \union {Gone}] /\ replica \in [Media -> Rows \union {Gone}]
           /\ pending \in [Calls -> CallRecords]
           /\ \A c \in Calls : pending[c].media \in Media
<1>1. Gone.key = FALSE BY Zenon DEF Gone
<1>2. Gone.status = "gone" BY Zenon DEF Gone
<1>3. \A row \in Rows : row.status # "gone" BY DEF Rows, Statuses
<1>4. pending \in [Calls -> CallRecords] BY DEF TypeOK, CallRecords
<1>. QED BY <1>1, <1>2, <1>3, <1>4 DEF TypeOK, CallRecords

\* A write that keeps a row's key.
LEMMA KeyKept ==
    ASSUME TypeOK, LeakInv, NEW m \in Media, NEW row \in Rows, Write(m, row),
           Keyed => row.key, Keyless => ~row.key,
           UNCHANGED <<object, uploading, unused, forgot>>,
           UNCHANGED pending \/ \E c \in Calls : EndCall(c)
    PROVE  LeakInv'
<1>0. /\ rows' = [rows EXCEPT ![m] = row] /\ replica' = rows /\ Exists(m)
      /\ row # Gone
  BY KeyFacts DEF Write
<1>1. \A c \in Calls : pending'[c] = pending[c] \/ pending'[c] = IdleCall
  BY KeyFacts DEF EndCall
<1>2. IdleCall.at = "idle" /\ IdleCall.snap = Gone BY DEF IdleCall
<1>3. CASE forgot
  BY <1>3 DEF LeakInv
<1>4. CASE Keyed
  <2>1. \A k \in Media : (rows'[k] = Gone \/ rows'[k].key) /\ (replica'[k] = Gone \/ replica'[k].key)
    BY <1>0, <1>4, KeyFacts DEF Keyed
  <2>2. \A c \in Calls : pending'[c].at \in HasSnap => pending'[c].snap.key
    BY <1>1, <1>2, <1>4 DEF Keyed, HasSnap
  <2>3. ASSUME object' PROVE NoRowToDelete' /\ \E k \in Media : Exists(k)'
    <3>1. Exists(m)' BY <1>0, KeyFacts DEF Exists
    <3>2. ASSUME NEW c \in Calls, CallAt(c, "deleteRow")'
          PROVE  rows'[pending'[c].media] = Gone /\ pending'[c].media \notin unused'
      <4>1. pending'[c] = pending[c] /\ CallAt(c, "deleteRow") BY <1>1, <1>2, <3>2 DEF CallAt
      <4>2. rows[pending[c].media] = Gone /\ pending[c].media \notin unused
        BY <1>4, <2>3, <4>1 DEF Keyed, NoRowToDelete
      <4>. QED BY <1>0, <4>1, <4>2, KeyFacts DEF Exists
    <3>. QED BY <3>1, <3>2 DEF NoRowToDelete
  <2>. QED BY <2>1, <2>2, <2>3 DEF LeakInv, Keyed
<1>5. CASE Keyless
  <2>1. \A k \in Media : ~rows'[k].key /\ ~replica'[k].key BY <1>0, <1>5, KeyFacts DEF Keyless
  <2>2. \A c \in Calls : ~pending'[c].snap.key BY <1>1, <1>2, <1>5, KeyFacts DEF Keyless
  <2>. QED BY <1>5, <2>1, <2>2 DEF LeakInv, Keyless
<1>. QED BY <1>3, <1>4, <1>5 DEF LeakInv

LEMMA StatusKeepsKeys ==
    ASSUME TypeOK, LeakInv, NEW m \in Media, NEW s \in Statuses, SetStatus(m, s),
           UNCHANGED <<object, uploading, unused, forgot, pending>>
    PROVE  LeakInv'
<1>1. rows[m] \in Rows BY KeyFacts DEF SetStatus, Write, Exists
<1>2. /\ [rows[m] EXCEPT !.status = s] \in Rows
      /\ [rows[m] EXCEPT !.status = s].key = rows[m].key
  BY <1>1 DEF Rows
<1>3. Keyed => rows[m].key BY <1>1, KeyFacts DEF Keyed
<1>4. Keyless => ~rows[m].key BY DEF Keyless
<1>. QED BY <1>2, <1>3, <1>4, KeyKept DEF SetStatus

\* A step that drops the last names of the object says so.
LEMMA WorkerLeaks ==
    ASSUME TypeOK, LeakInv, NEW w \in Workers, Pipeline(w) \/ Crash(w)
    PROVE  LeakInv'
<1>. USE DEF rowVars, serviceVars, callVars
<1>0. work[w].media \in Media BY DEF TypeOK
<1>1. CASE Start(w) \/ Fail(w)
  <2>1. PICK s \in Statuses : SetStatus(work[w].media, s) BY <1>1 DEF Start, Fail, Statuses
  <2>2. UNCHANGED <<object, uploading, unused, forgot, pending>> BY <1>1 DEF Start, Fail
  <2>. QED BY <1>0, <2>1, <2>2, StatusKeepsKeys
<1>2. CASE Quarantine(w) \/ Finish(w)
  <2>1. PICK s \in Statuses : EndWith(w, s) BY <1>2 DEF Quarantine, Finish, Statuses
  <2>2. UNCHANGED <<object, uploading, unused, pending>> BY <1>2 DEF Quarantine, Finish
  <2>3. CASE forgot'
    BY <2>3 DEF LeakInv
  <2>4. CASE ~forgot'
    <3>1. ~forgot /\ ~rows[work[w].media].key BY <2>1, <2>4 DEF EndWith
    <3>2. ~Keyed BY <1>0, <2>1, <3>1 DEF Keyed, EndWith, Write, Exists
    <3>3. /\ [status |-> s, key |-> FALSE] \in Rows /\ ~[status |-> s, key |-> FALSE].key
      BY DEF Rows
    <3>4. Write(work[w].media, [status |-> s, key |-> FALSE]) /\ forgot' = forgot
      BY <2>1, <2>4, <3>1, KeyFacts DEF EndWith, TypeOK
    <3>. QED BY <1>0, <2>2, <3>2, <3>3, <3>4, KeyKept
  <2>. QED BY <2>3, <2>4
<1>3. CASE UNCHANGED <<rows, replica, object, uploading, unused, forgot, pending>>
  BY <1>3 DEF LeakInv, Keyed, Keyless, NoRowToDelete, Exists, CallAt
<1>4. ~(Start(w) \/ Fail(w) \/ Quarantine(w) \/ Finish(w)) =>
        UNCHANGED <<rows, replica, object, uploading, unused, forgot, pending>>
  BY DEF Pipeline, Take, Lock, Scan, Throws, Skip, LockThrows, FailThrows, Unlock, Answer, Crash
<1>. QED BY <1>1, <1>2, <1>3, <1>4

\* A call that begins keeps a snapshot that names the object, or finds no row.
LEMMA BeginLeaks ==
    ASSUME TypeOK, LeakInv, NEW c \in Calls, NEW m \in Media, Begin(c, m)
    PROVE  LeakInv'
<1>. USE DEF workerVars, brokerVars
<1>0. UNCHANGED <<rows, replica, unused, object, uploading>>
  BY DEF Begin, BeginConfirm, BeginEdit, BeginCopy, BeginDelete, BeginCall
<1>1. PICK q \in HasSnap \union {"deleteRow"}, snap \in {rows[m], replica[m]} :
        /\ pending' = [pending EXCEPT ![c] = [at |-> q, media |-> m, snap |-> snap]]
        /\ q \in {"confirm", "edit", "copy"} => snap # Gone
        /\ q = "deleteObject" => snap.key
        /\ q = "deleteRow" => m \notin unused /\ ~replica[m].key
        /\ q = "deleteRow" => forgot' = (forgot \/ rows[m].key)
  <2>1. ASSUME BeginConfirm(c, m) \/ BeginEdit(c, m) \/ BeginCopy(c, m)
        PROVE  \E q \in {"confirm", "edit", "copy"}, snap \in {rows[m], replica[m]} :
                 snap # Gone /\ BeginCall(c, q, m, snap)
    BY <2>1 DEF BeginConfirm, BeginEdit, BeginCopy, Exists
  <2>. QED BY <2>1 DEF Begin, BeginDelete, BeginCall, HasSnap
<1>2. forgot => forgot'
  BY DEF Begin, BeginConfirm, BeginEdit, BeginCopy, BeginDelete
<1>3. /\ pending'[c] = [at |-> q, media |-> m, snap |-> snap]
      /\ \A d \in Calls \ {c} : pending'[d] = pending[d]
  BY <1>1, KeyFacts
<1>4. CASE forgot'
  BY <1>4 DEF LeakInv
<1>5. CASE Keyed /\ ~forgot'
  <2>1. \A k \in Media : (rows'[k] = Gone \/ rows'[k].key) /\ (replica'[k] = Gone \/ replica'[k].key)
    BY <1>0, <1>5 DEF Keyed
  <2>2. \A d \in Calls : pending'[d].at \in HasSnap => pending'[d].snap.key
    <3>1. pending'[c].at \in HasSnap => pending'[c].snap.key
      BY <1>1, <1>3, <1>5 DEF Keyed, HasSnap
    <3>. QED BY <1>3, <1>5, <3>1 DEF Keyed
  <2>3. ASSUME object' PROVE NoRowToDelete' /\ \E k \in Media : Exists(k)'
    <3>1. NoRowToDelete /\ \E k \in Media : Exists(k) BY <1>0, <1>5, <2>3 DEF Keyed
    <3>2. q = "deleteRow" => rows[m] = Gone /\ m \notin unused BY <1>1, <1>5 DEF Keyed
    <3>. QED BY <1>0, <1>3, <3>1, <3>2 DEF NoRowToDelete, CallAt, Exists
  <2>. QED BY <2>1, <2>2, <2>3 DEF LeakInv, Keyed
<1>6. CASE Keyless
  BY <1>0, <1>1, <1>3, <1>6 DEF LeakInv, Keyless
<1>. QED BY <1>2, <1>4, <1>5, <1>6 DEF LeakInv

LEMMA CallLeaks ==
    ASSUME TypeOK, LeakInv, NEW c \in Calls, Continue(c)
    PROVE  LeakInv'
<1>. USE DEF rowVars, workerVars, brokerVars
<1>. DEFINE m == pending[c].media
<1>0. /\ m \in Media /\ pending[c].snap \in Rows \union {Gone} /\ \A row \in Rows : row.key \in BOOLEAN
  BY KeyFacts DEF CallRecords, Rows
<1>a. IdleCall.at = "idle" /\ ~IdleCall.snap.key BY KeyFacts DEF IdleCall
<1>1. CASE ConfirmUpload(c)
  <2>1. CASE forgot'
    BY <2>1 DEF LeakInv
  <2>2. CASE ~forgot'
    <3>1. forgot' = forgot /\ UNCHANGED <<object, uploading, unused>> /\ EndCall(c)
      BY <1>1, <2>2, KeyFacts DEF ConfirmUpload, TypeOK
    <3>2. /\ [status |-> "READY", key |-> pending[c].snap.key] \in Rows
          /\ Write(m, [status |-> "READY", key |-> pending[c].snap.key])
      BY <1>0, <1>1, KeyFacts DEF ConfirmUpload, Rows, Statuses
    <3>3. Keyed => pending[c].snap.key BY <1>1 DEF Keyed, ConfirmUpload, CallAt, HasSnap
    <3>. QED BY <1>0, <3>1, <3>2, <3>3, KeyKept DEF Keyless
  <2>. QED BY <2>1, <2>2
<1>2. CASE Edit(c)
  <2>1. CASE forgot'
    BY <2>1 DEF LeakInv
  <2>2. CASE ~forgot'
    <3>1. forgot' = forgot /\ UNCHANGED <<object, uploading, unused>> /\ EndCall(c)
      BY <1>2, <2>2, KeyFacts DEF Edit, TypeOK
    <3>2. rows[m] \in Rows BY <1>0, <1>2, KeyFacts DEF Edit, Write, Exists
    <3>3. /\ [rows[m] EXCEPT !.key = pending[c].snap.key] \in Rows
          /\ [rows[m] EXCEPT !.key = pending[c].snap.key].key = pending[c].snap.key
      BY <1>0, <3>2, KeyFacts DEF Rows
    <3>4. Keyed => pending[c].snap.key BY <1>2 DEF Keyed, Edit, CallAt, HasSnap
    <3>5. Write(m, [rows[m] EXCEPT !.key = pending[c].snap.key]) BY <1>2 DEF Edit
    <3>. QED BY <1>0, <3>1, <3>3, <3>4, <3>5, KeyKept DEF Keyless
  <2>. QED BY <2>1, <2>2
<1>3. ASSUME UNCHANGED <<rows, forgot>>, replica' \in {replica, rows}, EndCall(c),
             UNCHANGED <<object, uploading, unused>>
      PROVE  LeakInv'
  <2>1. \A d \in Calls : pending'[d] = pending[d] \/ pending'[d] = IdleCall
    BY <1>3, KeyFacts DEF EndCall
  <2>2. Keyed => Keyed' BY <1>3, <1>a, <2>1 DEF Keyed, NoRowToDelete, CallAt, Exists, HasSnap
  <2>3. Keyless => Keyless' BY <1>3, <1>a, <2>1 DEF Keyless
  <2>. QED BY <1>3, <2>2, <2>3 DEF LeakInv
<1>4. CASE CopyMedia(c)
  <2>1. PICK k \in unused : /\ unused' = unused \ {k}
                            /\ rows' = [rows EXCEPT ![k] = pending[c].snap] /\ replica' = rows
    BY <1>4 DEF CopyMedia
  <2>2. EndCall(c) /\ UNCHANGED <<object, uploading, forgot>> /\ k \in Media
    BY <1>4 DEF CopyMedia, TypeOK
  <2>3. \A d \in Calls : pending'[d] = pending[d] \/ pending'[d] = IdleCall
    BY <2>2, KeyFacts DEF EndCall
  <2>4. CASE Keyed
    <3>1. pending[c].snap.key BY <1>4, <2>4 DEF Keyed, CopyMedia, CallAt, HasSnap
    <3>2. \A j \in Media : (rows'[j] = Gone \/ rows'[j].key) /\ (replica'[j] = Gone \/ replica'[j].key)
      BY <2>1, <2>2, <2>4, <3>1, KeyFacts DEF Keyed
    <3>3. \A d \in Calls : pending'[d].at \in HasSnap => pending'[d].snap.key
      BY <1>a, <2>3, <2>4 DEF Keyed, HasSnap
    <3>4. ASSUME object' PROVE NoRowToDelete' /\ \E j \in Media : Exists(j)'
      <4>1. NoRowToDelete BY <2>2, <2>4, <3>4 DEF Keyed
      <4>2. \A j \in Media \ {k} : rows'[j] = rows[j] BY <2>1, KeyFacts
      <4>3. NoRowToDelete' BY <1>a, <2>1, <2>3, <4>1, <4>2, KeyFacts DEF NoRowToDelete, CallAt
      <4>4. Exists(k)' BY <2>1, <2>2, <3>1, KeyFacts DEF Exists
      <4>. QED BY <2>2, <4>3, <4>4
    <3>. QED BY <3>2, <3>3, <3>4 DEF LeakInv, Keyed
  <2>5. CASE Keyless
    <3>1. \A j \in Media : ~rows'[j].key /\ ~replica'[j].key
      BY <2>1, <2>2, <2>5, KeyFacts DEF Keyless
    <3>2. \A d \in Calls : ~pending'[d].snap.key BY <1>a, <2>3, <2>5 DEF Keyless
    <3>. QED BY <2>2, <2>5, <3>1, <3>2 DEF LeakInv, Keyless
  <2>. QED BY <2>2, <2>4, <2>5 DEF LeakInv
<1>5. CASE DeleteObject(c)
  <2>1. /\ ~object' /\ UNCHANGED <<rows, replica, uploading, unused, forgot>>
        /\ pending' = [pending EXCEPT ![c].at = "deleteRow"]
    BY <1>5 DEF DeleteObject
  <2>2. \A d \in Calls : /\ pending'[d].at = pending[d].at \/ pending'[d].at = "deleteRow"
                         /\ pending'[d].snap = pending[d].snap
    BY <2>1, KeyFacts DEF CallRecords
  <2>. QED BY <2>1, <2>2 DEF LeakInv, Keyed, Keyless, HasSnap
<1>6. CASE DeleteRow(c)
  <2>1. /\ CallAt(c, "deleteRow") /\ rows[m] # Gone /\ rows' = [rows EXCEPT ![m] = Gone]
        /\ replica' = rows /\ EndCall(c) /\ UNCHANGED <<object, uploading, unused, forgot>>
    BY <1>6 DEF DeleteRow, Write, Exists
  <2>2. \A d \in Calls : pending'[d] = pending[d] \/ pending'[d] = IdleCall
    BY <2>1, KeyFacts DEF EndCall
  <2>3. CASE Keyed
    <3>1. ~object BY <2>1, <2>3 DEF Keyed, NoRowToDelete
    <3>2. \A j \in Media : (rows'[j] = Gone \/ rows'[j].key) /\ (replica'[j] = Gone \/ replica'[j].key)
      BY <1>0, <2>1, <2>3, KeyFacts DEF Keyed
    <3>3. \A d \in Calls : pending'[d].at \in HasSnap => pending'[d].snap.key
      BY <1>a, <2>2, <2>3 DEF Keyed, HasSnap
    <3>. QED BY <2>1, <3>1, <3>2, <3>3 DEF LeakInv, Keyed
  <2>4. CASE Keyless
    <3>1. \A j \in Media : ~rows'[j].key /\ ~replica'[j].key
      BY <1>0, <2>1, <2>4, KeyFacts DEF Keyless
    <3>2. \A d \in Calls : ~pending'[d].snap.key BY <1>a, <2>2, <2>4 DEF Keyless
    <3>. QED BY <2>1, <2>4, <3>1, <3>2 DEF LeakInv, Keyless
  <2>. QED BY <2>1, <2>3, <2>4 DEF LeakInv
<1>7. CASE AbortCall(c)
  BY <1>3, <1>7 DEF AbortCall
<1>. QED BY <1>1, <1>2, <1>4, <1>5, <1>6, <1>7 DEF Continue

LEMMA LeakStep ==
    ASSUME TypeOK, LeakInv, [Next]_vars
    PROVE  LeakInv'
<1>. USE DEF workerVars, brokerVars, rowVars, serviceVars, callVars
<1>1. ASSUME NEW m \in Media, Publish(m) \/ LockExpires(m) PROVE LeakInv'
  <2>1. UNCHANGED <<rows, replica, object, uploading, unused, forgot, pending>>
    BY <1>1 DEF Publish, LockExpires
  <2>. QED BY <2>1 DEF LeakInv, Keyed, Keyless, NoRowToDelete, Exists, CallAt
<1>2. ASSUME NEW m \in Media, Cleanup(m) PROVE LeakInv'
  BY <1>2 DEF Cleanup, LeakInv
<1>3. ASSUME NEW m \in Media, NEW s \in Statuses, SetsStatus(m, s) PROVE LeakInv'
  BY <1>3, StatusKeepsKeys DEF SetsStatus
<1>4. CASE PutObject
  <2>1. /\ ~uploading' /\ UNCHANGED <<rows, replica, unused, pending>>
        /\ uploading /\ (object' => object \/ uploading)
        /\ forgot' = (forgot \/ (object' /\ TooLate))
    BY <1>4 DEF PutObject
  <2>2. CASE forgot'
    BY <2>2 DEF LeakInv
  <2>3. CASE ~forgot'
    <3>1. Keyed BY <2>1, <2>3 DEF LeakInv, Keyless
    <3>2. ASSUME object' PROVE NoRowToDelete' /\ \E m \in Media : Exists(m)'
      <4>1. ~TooLate BY <2>1, <2>3, <3>2
      <4>2. PICK m \in Media : rows[m].key BY <4>1 DEF TooLate
      <4>3. Exists(m)' BY <2>1, <4>2, KeyFacts DEF Exists
      <4>4. NoRowToDelete' BY <2>1, <4>1 DEF NoRowToDelete, TooLate, CallAt
      <4>. QED BY <4>3, <4>4
    <3>. QED BY <2>1, <3>1, <3>2 DEF LeakInv, Keyed
  <2>. QED BY <2>2, <2>3
<1>5. CASE Replicate
  <2>1. /\ UNCHANGED <<rows, object, uploading, unused, forgot, pending>> /\ replica' = rows
    BY <1>5 DEF Replicate
  <2>. QED BY <2>1 DEF LeakInv, Keyed, Keyless, NoRowToDelete, Exists, CallAt
<1>6. CASE UNCHANGED vars
  BY <1>6 DEF vars, LeakInv, Keyed, Keyless, NoRowToDelete, Exists, CallAt
<1>. QED BY <1>1, <1>2, <1>3, <1>4, <1>5, <1>6, WorkerLeaks, BeginLeaks, CallLeaks DEF Next

\* Once no row names the object it is gone, unless a write dropped its key or it was put
\* too late (NoLeak).
THEOREM ObjectsAreFreed == Spec => []NoLeak
<1>1. Init => LeakInv
  <2> SUFFICES ASSUME Init PROVE LeakInv
    OBVIOUS
  <2>0. Gone.key = FALSE BY Zenon DEF Gone
  <2>1. PICK first \in {[status |-> "WAITING", key |-> TRUE], [status |-> "READY", key |-> TRUE],
                        [status |-> "WAITING", key |-> FALSE]} :
          /\ rows = [m \in Media |-> IF m = Original THEN first ELSE Gone]
          /\ uploading = first.key
    BY DEF Init
  <2>2. /\ replica = [m \in Media |-> Gone] /\ ~object
        /\ \A c \in Calls : pending[c].at = "idle" /\ pending[c].snap = Gone
    BY DEF Init, IdleCall
  <2>3. CASE first.key
    BY <2>1, <2>2, <2>3 DEF LeakInv, Keyed, HasSnap
  <2>4. CASE first = [status |-> "WAITING", key |-> FALSE]
    BY <2>0, <2>1, <2>2, <2>4 DEF LeakInv, Keyless
  <2>. QED BY <2>1, <2>3, <2>4
<1>2. TypeOK /\ LeakInv => NoLeak
  <2> SUFFICES ASSUME TypeOK, Keyed, object, NEW m \in Media, Exists(m) PROVE rows[m].key
    BY DEF LeakInv, NoLeak, Keyed, Keyless
  <2>. QED BY DEF Keyed, Exists
<1>. QED BY <1>1, <1>2, LeakStep, TypeCorrect, PTL DEF Spec
=============================================================================

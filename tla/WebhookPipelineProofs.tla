------------------------ MODULE WebhookPipelineProofs ------------------------
(***************************************************************************)
(* For any number of requests, workers, retries and incidents: messages    *)
(* are accounted for, nothing is parked before its retries are used up,    *)
(* and a completed payment is announced once, but for captures written by  *)
(* a worker that another has overtaken.                                    *)
(***************************************************************************)
EXTENDS WebhookPipeline, FiniteSetTheorems, TLAPS

-----------------------------------------------------------------------------
(* Type correctness *)

RequestPlaces == {"unused", "dispatch", "mark", "fail", "done"}
WorkerPlaces == {"idle", "check", "handle", "commit", "publish", "mark", "exhausted", "dlq", "ack"}
Fates == {"lost", "dropped", "skipped", "handled", "parked"}
LogStatuses == {"absent", "PENDING", "PROCESSED", "FAILED"}

\* The types, by part.
ApiTypes ==
    /\ log \in [Requests -> LogStatuses]
    /\ kind \in [Requests -> Kinds \union {"none"}]
    /\ reqPc \in [Requests -> RequestPlaces]
    /\ reqRow \in [Requests -> Requests \union {None}]
    /\ apiUp \in BOOLEAN

MessageTypes ==
    /\ queue \in [Requests -> Nat] /\ dlq \in [Requests -> Nat]
    /\ sent \in [Requests -> Nat] /\ gone \in [Requests -> Nat] /\ runs \in [Requests -> Nat]
    /\ fate \in [Requests -> SUBSET Fates]
    /\ incidents \in 0 .. MaxIncidents

WorkerTypes ==
    /\ wpc \in [Workers -> WorkerPlaces]
    /\ wrow \in [Workers -> Requests \union {None}]
    /\ attempt \in [Workers -> 0 .. MaxRetries]
    /\ workerUp \in [Workers -> BOOLEAN] /\ consumerUp \in [Workers -> BOOLEAN]

PaymentTypes ==
    /\ payment \in {"COMPLETED", "FAILED", "DISPUTED"}
    /\ disputed \in BOOLEAN
    /\ notified \in Nat /\ undone \in Nat
    /\ overtaken \subseteq Workers /\ doubled \in Nat

LEMMA TypeParts == TypeOK <=> ApiTypes /\ MessageTypes /\ WorkerTypes /\ PaymentTypes
BY DEF TypeOK, ApiTypes, MessageTypes, WorkerTypes, PaymentTypes, RequestPlaces, WorkerPlaces, Fates,
   LogStatuses

LEMMA TypesTogether ==
    ASSUME ApiTypes', MessageTypes', WorkerTypes', PaymentTypes'
    PROVE  TypeOK'
BY DEF TypeOK, ApiTypes, MessageTypes, WorkerTypes, PaymentTypes, RequestPlaces, WorkerPlaces, Fates,
   LogStatuses

\* A request that is under way has a row, a worker that is not idle has a message, and
\* the attempts are counted from zero for each message.
Places ==
    /\ \A r \in Requests : reqPc[r] \in {"dispatch", "mark", "fail"} => reqRow[r] \in Requests
    /\ \A w \in Workers : /\ (wpc[w] = "idle") = (wrow[w] = None)
                          /\ wpc[w] \in {"idle", "check"} => attempt[w] = 0

TypeInv == TypeOK /\ Places

LEMMA NoneIsNoRequest == None \notin Requests
BY DEF None, Requests

LEMMA InitType == Init => TypeInv
<1> SUFFICES ASSUME Init PROVE TypeInv
  OBVIOUS
<1>1. ApiTypes BY DEF Init, ApiTypes, LogStatuses, RequestPlaces
<1>2. MessageTypes BY ConstantsAssumption DEF Init, MessageTypes
<1>3. WorkerTypes BY ConstantsAssumption DEF Init, WorkerTypes, WorkerPlaces
<1>4. PaymentTypes BY DEF Init, PaymentTypes
<1>5. Places BY DEF Init, Places
<1>6. QED BY <1>1, <1>2, <1>3, <1>4, <1>5, TypeParts DEF TypeInv

LEMMA IncidentType ==
    ASSUME MessageTypes, Incident \/ UNCHANGED incidents
    PROVE  incidents' \in 0 .. MaxIncidents
BY ConstantsAssumption DEF MessageTypes, Incident

\* The steps of the webhooks service.
LEMMA ApiType ==
    ASSUME TypeInv, NEW r \in Requests,
           Receive(r) \/ ApiStep(r) \/ \E l \in Requests : Replay(r, l)
    PROVE  TypeInv'
<1> USE DEF apiVars, logVars, brokerVars, channelVars, workerVars, paymentVars, historyVars
<1>0. ApiTypes /\ MessageTypes /\ WorkerTypes /\ PaymentTypes /\ Places
  BY TypeParts DEF TypeInv
<1>1. PaymentTypes' /\ WorkerTypes' /\ UNCHANGED workerVars
  BY <1>0 DEF Receive, ApiStep, Replay, Dispatch, DispatchThrows, ApiMarkProcessed, ApiMarkThrows,
     ApiMarkFailed, PaymentTypes, WorkerTypes
<1>2. CASE Receive(r)
  <2>1. ApiTypes' BY <1>0, <1>2 DEF Receive, ReqMove, ApiTypes, LogStatuses, RequestPlaces
  <2>2. MessageTypes' BY <1>0, <1>2 DEF Receive, MessageTypes
  <2>3. Places' BY <1>0, <1>2 DEF Receive, ReqMove, Places, ApiTypes
  <2>4. QED BY <1>1, <2>1, <2>2, <2>3, TypesTogether DEF TypeInv
<1>3. ASSUME NEW l \in Requests, Replay(r, l) PROVE TypeInv'
  <2>1. ApiTypes' BY <1>0, <1>3 DEF Replay, ReqMove, ApiTypes, LogStatuses, RequestPlaces
  <2>2. MessageTypes' BY <1>0, <1>3 DEF Replay, MessageTypes
  <2>3. Places' BY <1>0, <1>3 DEF Replay, ReqMove, Places, ApiTypes
  <2>4. QED BY <1>1, <2>1, <2>2, <2>3, TypesTogether DEF TypeInv
<1>4. CASE Dispatch(r)
  <2>1. ApiTypes' BY <1>0, <1>4 DEF Dispatch, ReqMove, ApiTypes, RequestPlaces
  <2>2. reqRow[r] \in Requests BY <1>0, <1>4 DEF Dispatch, ReqMove, Places
  <2>3. incidents' \in 0 .. MaxIncidents BY <1>0, <1>4, IncidentType DEF Dispatch
  <2>4. MessageTypes'
    <3>0. sent[reqRow[r]] + 1 \in Nat /\ queue[reqRow[r]] + 1 \in Nat /\ gone[reqRow[r]] + 1 \in Nat
      BY <1>0, <2>2 DEF MessageTypes
    <3>1. sent' \in [Requests -> Nat] /\ queue' \in [Requests -> Nat] /\ gone' \in [Requests -> Nat]
      <4>1. sent' = [sent EXCEPT ![reqRow[r]] = sent[reqRow[r]] + 1] BY <1>4 DEF Dispatch
      <4>2. queue' \in {queue, [queue EXCEPT ![reqRow[r]] = queue[reqRow[r]] + 1]} BY <1>4 DEF Dispatch
      <4>3. gone' \in {gone, [gone EXCEPT ![reqRow[r]] = gone[reqRow[r]] + 1]} BY <1>4 DEF Dispatch
      <4>4. QED BY <1>0, <3>0, <4>1, <4>2, <4>3 DEF MessageTypes
    <3>2. fate' \in [Requests -> SUBSET Fates]
      BY <1>0, <1>4, <2>2 DEF Dispatch, MessageTypes, Fates
    <3>3. QED BY <1>0, <1>4, <2>3, <3>1, <3>2 DEF Dispatch, MessageTypes
  <2>5. Places' BY <1>0, <1>4 DEF Dispatch, ReqMove, Places, ApiTypes
  <2>6. QED BY <1>1, <2>1, <2>4, <2>5, TypesTogether DEF TypeInv
<1>5. CASE DispatchThrows(r) \/ ApiMarkProcessed(r) \/ ApiMarkThrows(r) \/ ApiMarkFailed(r)
  <2>1. ApiTypes'
    BY <1>0, <1>5 DEF DispatchThrows, ApiMarkProcessed, ApiMarkThrows, ApiMarkFailed, ReqMove, ApiTypes,
       RequestPlaces, LogStatuses
  <2>2. incidents' \in 0 .. MaxIncidents
    BY <1>0, <1>5, IncidentType DEF DispatchThrows, ApiMarkProcessed, ApiMarkThrows, ApiMarkFailed
  <2>3. MessageTypes'
    BY <1>0, <1>5, <2>2 DEF DispatchThrows, ApiMarkProcessed, ApiMarkThrows, ApiMarkFailed, MessageTypes
  <2>4. Places'
    BY <1>0, <1>5 DEF DispatchThrows, ApiMarkProcessed, ApiMarkThrows, ApiMarkFailed, ReqMove, Places,
       ApiTypes
  <2>5. QED BY <1>1, <2>1, <2>3, <2>4, TypesTogether DEF TypeInv
<1>6. QED BY <1>2, <1>3, <1>4, <1>5 DEF ApiStep

LEMMA ApiCrashType ==
    ASSUME TypeInv, ApiCrash
    PROVE  TypeInv'
<1> USE DEF apiVars, logVars, brokerVars, channelVars, workerVars, paymentVars, historyVars
<1>0. ApiTypes /\ MessageTypes /\ WorkerTypes /\ PaymentTypes /\ Places
  BY TypeParts DEF TypeInv
<1>1. ApiTypes' BY <1>0 DEF ApiCrash, ApiTypes, RequestPlaces
<1>2. incidents' \in 0 .. MaxIncidents BY <1>0, IncidentType DEF ApiCrash
<1>3. MessageTypes' BY <1>0, <1>2 DEF ApiCrash, MessageTypes
<1>4. WorkerTypes' /\ PaymentTypes' BY <1>0 DEF ApiCrash, WorkerTypes, PaymentTypes
<1>5. Places' BY <1>0 DEF ApiCrash, Places, ApiTypes
<1>6. QED BY <1>1, <1>3, <1>4, <1>5, TypesTogether DEF TypeInv

\* A worker gets on, its handler runs again, or its message is released.
LEMMA WorkerMoves ==
    ASSUME WorkerTypes, Places, NEW w \in Workers
    PROVE  /\ \A p \in WorkerPlaces : Goto(w, p) => wpc' \in [Workers -> WorkerPlaces]
           /\ attempt[w] < MaxRetries /\ StartRun(w)
                => /\ wpc' \in [Workers -> WorkerPlaces]
                   /\ attempt' \in [Workers -> 0 .. MaxRetries]
           /\ \A what : Release(w, what)
                => /\ wpc' \in [Workers -> WorkerPlaces]
                   /\ wrow' \in [Workers -> Requests \union {None}]
                   /\ attempt' \in [Workers -> 0 .. MaxRetries]
<1>1. \A p \in WorkerPlaces : Goto(w, p) => wpc' \in [Workers -> WorkerPlaces]
  BY DEF Goto, WorkerTypes
<1>2. ASSUME attempt[w] < MaxRetries, StartRun(w)
      PROVE  attempt' \in [Workers -> 0 .. MaxRetries]
  <2>1. attempt[w] + 1 \in 0 .. MaxRetries
    BY <1>2, ConstantsAssumption DEF WorkerTypes
  <2>2. QED BY <1>2, <2>1 DEF StartRun, WorkerTypes
<1>3. ASSUME NEW what, Release(w, what)
      PROVE  /\ wrow' \in [Workers -> Requests \union {None}]
             /\ attempt' \in [Workers -> 0 .. MaxRetries]
  BY <1>3, ConstantsAssumption DEF Release, WorkerTypes
<1>4. {"idle", "handle"} \subseteq WorkerPlaces BY DEF WorkerPlaces
<1>5. QED BY <1>1, <1>2, <1>3, <1>4 DEF StartRun, Release

LEMMA RestartTypes ==
    ASSUME WorkerTypes, Places, UNCHANGED <<reqPc, reqRow>>, NEW w \in Workers, Restart(w)
    PROVE  WorkerTypes' /\ Places'
<1>1. "idle" \in WorkerPlaces /\ 0 \in 0 .. MaxRetries BY ConstantsAssumption DEF WorkerPlaces
<1>2. WorkerTypes' BY <1>1 DEF Restart, Goto, WorkerTypes
<1>3. Places' BY DEF Restart, Goto, Places, WorkerTypes
<1>4. QED BY <1>2, <1>3

LEMMA RequeueTypes ==
    ASSUME MessageTypes, NEW w \in Workers, Requeue(w)
    PROVE  /\ queue' \in [Requests -> Nat]
           /\ \A m \in Requests : queue'[m] = IF Holds(w, m) THEN queue[m] + 1 ELSE queue[m]
BY DEF Requeue, MessageTypes

LEMMA ReleaseMessages ==
    ASSUME MessageTypes, WorkerTypes, NEW w \in Workers, wrow[w] \in Requests,
           NEW what \in SUBSET Fates, Release(w, what)
    PROVE  gone' \in [Requests -> Nat] /\ fate' \in [Requests -> SUBSET Fates]
BY DEF Release, Row, MessageTypes

LEMMA RunMessages ==
    ASSUME MessageTypes, NEW w \in Workers, wrow[w] \in Requests,
           StartRun(w) \/ UNCHANGED runs
    PROVE  runs' \in [Requests -> Nat]
BY DEF StartRun, Row, MessageTypes

LEMMA FailsMoves ==
    ASSUME WorkerTypes, MessageTypes, Places, NEW w \in Workers, wrow[w] \in Requests, AttemptFails(w)
    PROVE  /\ wpc' \in [Workers -> WorkerPlaces] /\ attempt' \in [Workers -> 0 .. MaxRetries]
           /\ runs' \in [Requests -> Nat]
           /\ \A v \in Workers \ {w} : wpc'[v] = wpc[v] /\ attempt'[v] = attempt[v]
           /\ wpc'[w] \in {"handle", "exhausted"}
<1>1. CASE attempt[w] < MaxRetries
  <2>1. StartRun(w) BY <1>1 DEF AttemptFails
  <2>2. QED BY <1>1, <2>1, WorkerMoves, RunMessages DEF StartRun, Goto, WorkerTypes
<1>2. CASE ~(attempt[w] < MaxRetries)
  <2>1. Goto(w, "exhausted") /\ UNCHANGED <<attempt, runs>> BY <1>2 DEF AttemptFails
  <2>2. "exhausted" \in WorkerPlaces BY DEF WorkerPlaces
  <2>3. QED BY <2>1, <2>2, WorkerMoves DEF Goto, WorkerTypes, MessageTypes
<1>3. QED BY <1>1, <1>2

\* The steps of a worker.
LEMMA WorkerType ==
    ASSUME TypeInv, NEW w \in Workers, WorkerStep(w) \/ WorkerCrash(w) \/ ChannelCloses(w) \/ ConsumerCloses(w)
    PROVE  TypeInv'
<1> USE DEF apiVars, logVars, brokerVars, channelVars, workerVars, paymentVars, historyVars
<1>0. ApiTypes /\ MessageTypes /\ WorkerTypes /\ PaymentTypes /\ Places
  BY TypeParts DEF TypeInv
<1>a. {"idle", "check", "handle", "commit", "publish", "mark", "exhausted", "dlq", "ack"} = WorkerPlaces
  BY DEF WorkerPlaces
<1>b. {} \in SUBSET Fates /\ {"skipped"} \in SUBSET Fates /\ {"dropped"} \in SUBSET Fates
  BY DEF Fates
<1>1. ASSUME NEW l \in Requests, Take(w, l) PROVE TypeInv'
  <2>1. ApiTypes' /\ PaymentTypes' BY <1>0, <1>1 DEF Take, ApiTypes, PaymentTypes
  <2>2. MessageTypes' BY <1>0, <1>1 DEF Take, MessageTypes
  <2>3. wpc' \in [Workers -> WorkerPlaces] BY <1>0, <1>1, <1>a, WorkerMoves DEF Take
  <2>4. WorkerTypes' BY <1>0, <1>1, <2>3 DEF Take, WorkerTypes
  <2>5. Places' BY <1>0, <1>1, NoneIsNoRequest DEF Take, At, Goto, Places, WorkerTypes
  <2>6. QED BY <2>1, <2>2, <2>4, <2>5, TypesTogether DEF TypeInv
<1>2. CASE ChannelCloses(w)
  <2>1. ApiTypes' /\ PaymentTypes' BY <1>0, <1>2 DEF ChannelCloses, ApiTypes, PaymentTypes
  <2>2. incidents' \in 0 .. MaxIncidents BY <1>0, <1>2, IncidentType DEF ChannelCloses
  <2>3. MessageTypes' BY <1>0, <1>2, <2>2 DEF ChannelCloses, MessageTypes
  <2>4. WorkerTypes' BY <1>0, <1>2 DEF ChannelCloses, WorkerTypes
  <2>5. Places' BY <1>0, <1>2 DEF ChannelCloses, Places
  <2>6. QED BY <2>1, <2>3, <2>4, <2>5, TypesTogether DEF TypeInv
<1>d. CASE AckThrows(w) \/ WorkerCrash(w) \/ ConsumerCloses(w)
  <2>1. ApiTypes' /\ PaymentTypes'
    BY <1>0, <1>d DEF AckThrows, WorkerCrash, ConsumerCloses, ApiTypes, PaymentTypes
  <2>2. incidents' \in 0 .. MaxIncidents
    BY <1>0, <1>d, IncidentType DEF AckThrows, WorkerCrash, ConsumerCloses
  <2>3. queue' \in [Requests -> Nat]
    <3>1. Requeue(w) \/ UNCHANGED queue BY <1>d DEF AckThrows, WorkerCrash, ConsumerCloses
    <3>2. QED BY <1>0, <3>1, RequeueTypes DEF MessageTypes
  <2>4. MessageTypes'
    BY <1>0, <1>d, <2>2, <2>3 DEF AckThrows, WorkerCrash, ConsumerCloses, MessageTypes
  <2>5. WorkerTypes' /\ Places'
    <3>1. CASE ConsumerCloses(w) BY <1>0, <3>1 DEF ConsumerCloses, WorkerTypes, Places
    <3>2. CASE Restart(w)
      <4>1. UNCHANGED <<reqPc, reqRow>> BY <1>d DEF AckThrows, WorkerCrash, ConsumerCloses
      <4>2. QED BY <1>0, <3>2, <4>1, RestartTypes
    <3>3. QED BY <1>d, <3>1, <3>2 DEF AckThrows, WorkerCrash
  <2>6. QED BY <2>1, <2>4, <2>5, TypesTogether DEF TypeInv
<1>c. CASE wrow[w] \in Requests
  <2>0. wpc[w] # "idle" BY <1>0, <1>c, NoneIsNoRequest DEF Places
  <2>1. CASE Check(w)
    <3>1. ApiTypes' /\ PaymentTypes' BY <1>0, <2>1 DEF Check, ApiTypes, PaymentTypes
    <3>2. attempt[w] = 0 BY <1>0, <2>1 DEF Check, At, Places
    <3>3. WorkerTypes' BY <1>0, <2>1, <3>2, <1>a, WorkerMoves, ConstantsAssumption DEF Check, WorkerTypes
    <3>4. gone' \in [Requests -> Nat] /\ fate' \in [Requests -> SUBSET Fates]
      BY <1>0, <1>b, <1>c, <2>1, ReleaseMessages DEF Check, MessageTypes
    <3>5. runs' \in [Requests -> Nat] BY <1>0, <1>c, <2>1, RunMessages DEF Check
    <3>6. MessageTypes' BY <1>0, <2>1, <3>4, <3>5 DEF Check, MessageTypes
    <3>7. Places'
      BY <1>0, <2>1, <1>c, NoneIsNoRequest DEF Check, Release, StartRun, Goto, Places, WorkerTypes
    <3>8. QED BY <3>1, <3>3, <3>6, <3>7, TypesTogether DEF TypeInv
  <2>2. CASE CheckThrows(w) \/ Ack(w)
    <3>1. ApiTypes' /\ PaymentTypes' BY <1>0, <2>2 DEF CheckThrows, Ack, ApiTypes, PaymentTypes
    <3>2. PICK what \in SUBSET Fates : Release(w, what) BY <2>2, <1>b DEF CheckThrows, Ack
    <3>3. WorkerTypes' BY <1>0, <2>2, <3>2, WorkerMoves DEF CheckThrows, Ack, WorkerTypes
    <3>4. gone' \in [Requests -> Nat] /\ fate' \in [Requests -> SUBSET Fates]
      BY <1>0, <1>c, <3>2, ReleaseMessages
    <3>5. incidents' \in 0 .. MaxIncidents BY <1>0, <2>2, IncidentType DEF CheckThrows, Ack
    <3>6. MessageTypes' BY <1>0, <2>2, <3>4, <3>5 DEF CheckThrows, Ack, MessageTypes
    <3>7. Places' BY <1>0, <2>2, <3>2 DEF CheckThrows, Ack, Release, Goto, Places, WorkerTypes
    <3>8. QED BY <3>1, <3>3, <3>6, <3>7, TypesTogether DEF TypeInv
  <2>3. CASE Handle(w)
    <3>1. ApiTypes' /\ PaymentTypes' BY <1>0, <2>3 DEF Handle, ApiTypes, PaymentTypes
    <3>2. CASE AttemptFails(w)
      <4>1. WorkerTypes' BY <1>0, <1>c, <2>3, <3>2, FailsMoves DEF Handle, WorkerTypes
      <4>2. MessageTypes' BY <1>0, <1>c, <2>3, <3>2, FailsMoves DEF Handle, MessageTypes
      <4>3. Places' BY <1>0, <1>c, <2>0, <2>3, <3>2, FailsMoves DEF Handle, Places, WorkerTypes
      <4>4. QED BY <3>1, <4>1, <4>2, <4>3, TypesTogether DEF TypeInv
    <3>3. CASE ~AttemptFails(w)
      <4>1. PICK p \in {"mark", "commit"} : Goto(w, p) /\ UNCHANGED <<attempt, runs>>
        BY <2>3, <3>3 DEF Handle, HandlerVerdict
      <4>2. WorkerTypes' BY <1>0, <1>a, <2>3, <4>1, WorkerMoves DEF Handle, WorkerTypes
      <4>3. MessageTypes' BY <1>0, <2>3, <4>1 DEF Handle, MessageTypes
      <4>4. Places' BY <1>0, <2>0, <2>3, <4>1 DEF Handle, Goto, Places, WorkerTypes
      <4>5. QED BY <3>1, <4>2, <4>3, <4>4, TypesTogether DEF TypeInv
    <3>4. QED BY <3>2, <3>3
  <2>4. CASE Commit(w)
    <3>1. ApiTypes' BY <1>0, <2>4 DEF Commit, ApiTypes
    <3>2. PaymentTypes'
      <4>1. CASE CommitCaptured(w)
        BY <1>0, <2>4, <4>1 DEF Commit, CommitCaptured, SetPayment, PaymentTypes
      <4>2. CASE CommitFailed(w)
        BY <1>0, <2>4, <4>2 DEF Commit, CommitFailed, SetPayment, PaymentTypes
      <4>3. CASE CommitDispute(w)
        <5>1. UNCHANGED <<notified, overtaken, doubled>> BY <2>4, <4>3 DEF Commit, CommitDispute
        <5>2. CASE disputed
          BY <1>0, <4>3, <5>1, <5>2 DEF CommitDispute, PaymentTypes
        <5>3. CASE ~disputed
          <6>1. SetPayment("DISPUTED") /\ disputed' = TRUE BY <4>3, <5>3 DEF CommitDispute
          <6>2. QED BY <1>0, <5>1, <6>1 DEF SetPayment, PaymentTypes
        <5>4. QED BY <5>2, <5>3
      <4>4. QED BY <2>4, <4>1, <4>2, <4>3 DEF Commit
    <3>3. CASE AttemptFails(w)
      <4>1. WorkerTypes' BY <1>0, <1>c, <2>4, <3>3, FailsMoves DEF Commit, WorkerTypes
      <4>2. MessageTypes' BY <1>0, <1>c, <2>4, <3>3, FailsMoves DEF Commit, MessageTypes
      <4>3. Places' BY <1>0, <1>c, <2>0, <2>4, <3>3, FailsMoves DEF Commit, Places, WorkerTypes
      <4>4. QED BY <3>1, <3>2, <4>1, <4>2, <4>3, TypesTogether DEF TypeInv
    <3>4. CASE ~AttemptFails(w)
      <4>1. PICK p \in {"mark", "publish"} : Goto(w, p) /\ UNCHANGED <<attempt, runs>>
        BY <2>4, <3>4 DEF Commit, CommitCaptured, CommitFailed, CommitDispute
      <4>2. WorkerTypes' BY <1>0, <1>a, <2>4, <4>1, WorkerMoves DEF Commit, WorkerTypes
      <4>3. MessageTypes' BY <1>0, <2>4, <4>1 DEF Commit, MessageTypes
      <4>4. Places' BY <1>0, <2>0, <2>4, <4>1 DEF Commit, Goto, Places, WorkerTypes
      <4>5. QED BY <3>1, <3>2, <4>2, <4>3, <4>4, TypesTogether DEF TypeInv
    <3>5. QED BY <3>3, <3>4
  <2>5. CASE PublishNotification(w) \/ HandlerThrows(w)
    <3>1. ApiTypes' BY <1>0, <2>5 DEF PublishNotification, HandlerThrows, ApiTypes
    <3>2. PaymentTypes' BY <1>0, <2>5 DEF PublishNotification, HandlerThrows, PaymentTypes
    <3>3. incidents' \in 0 .. MaxIncidents
      BY <1>0, <2>5, IncidentType DEF PublishNotification, HandlerThrows
    <3>4. CASE AttemptFails(w)
      <4>1. WorkerTypes'
        BY <1>0, <1>c, <2>5, <3>4, FailsMoves DEF PublishNotification, HandlerThrows, WorkerTypes
      <4>2. MessageTypes'
        BY <1>0, <1>c, <2>5, <3>3, <3>4, FailsMoves DEF PublishNotification, HandlerThrows, MessageTypes
      <4>3. Places'
        BY <1>0, <1>c, <2>0, <2>5, <3>4, FailsMoves DEF PublishNotification, HandlerThrows, Places,
           WorkerTypes
      <4>4. QED BY <3>1, <3>2, <4>1, <4>2, <4>3, TypesTogether DEF TypeInv
    <3>5. CASE ~AttemptFails(w)
      <4>1. Goto(w, "mark") /\ UNCHANGED <<wrow, attempt, channelVars, queue, dlq, sent, gone, fate, runs,
                                          reqPc, reqRow>>
        BY <2>5, <3>5 DEF PublishNotification, HandlerThrows
      <4>2. WorkerTypes' BY <1>0, <1>a, <4>1, WorkerMoves DEF WorkerTypes
      <4>3. MessageTypes' BY <1>0, <3>3, <4>1 DEF MessageTypes
      <4>4. Places' BY <1>0, <2>0, <4>1 DEF Goto, Places, WorkerTypes
      <4>5. QED BY <3>1, <3>2, <4>2, <4>3, <4>4, TypesTogether DEF TypeInv
    <3>6. QED BY <3>4, <3>5
  <2>6. CASE WorkerMarkProcessed(w) \/ WorkerMarkFailed(w)
    <3>1. PaymentTypes' BY <1>0, <2>6 DEF WorkerMarkProcessed, WorkerMarkFailed, PaymentTypes
    <3>2. ApiTypes'
      BY <1>0, <1>c, <2>6 DEF WorkerMarkProcessed, WorkerMarkFailed, Row, ApiTypes, LogStatuses
    <3>3. incidents' \in 0 .. MaxIncidents
      BY <1>0, <2>6, IncidentType DEF WorkerMarkProcessed, WorkerMarkFailed
    <3>4. MessageTypes'
      BY <1>0, <1>c, <2>6, <3>3 DEF WorkerMarkProcessed, WorkerMarkFailed, Row, MessageTypes, Fates
    <3>5. PICK p \in {"ack", "dlq"} : Goto(w, p) BY <2>6 DEF WorkerMarkProcessed, WorkerMarkFailed
    <3>6. WorkerTypes'
      BY <1>0, <1>a, <2>6, <3>5, WorkerMoves DEF WorkerMarkProcessed, WorkerMarkFailed, WorkerTypes
    <3>7. Places'
      BY <1>0, <2>0, <2>6, <3>5 DEF WorkerMarkProcessed, WorkerMarkFailed, Goto, Places, WorkerTypes
    <3>8. QED BY <3>1, <3>2, <3>4, <3>6, <3>7, TypesTogether DEF TypeInv
  <2>7. CASE SendToDlq(w)
    <3>1. PaymentTypes' /\ ApiTypes' BY <1>0, <2>7 DEF SendToDlq, PaymentTypes, ApiTypes
    <3>2. CASE workerUp[w]
      <4>1. MessageTypes' BY <1>0, <1>c, <2>7, <3>2 DEF SendToDlq, Row, MessageTypes, Fates
      <4>2. WorkerTypes' BY <1>0, <1>a, <2>7, <3>2, WorkerMoves DEF SendToDlq, WorkerTypes
      <4>3. Places' BY <1>0, <2>0, <2>7, <3>2 DEF SendToDlq, Goto, Places, WorkerTypes
      <4>4. QED BY <3>1, <4>1, <4>2, <4>3, TypesTogether DEF TypeInv
    <3>3. CASE ~workerUp[w]
      <4>1. Release(w, {"dropped"}) /\ UNCHANGED dlq BY <2>7, <3>3 DEF SendToDlq
      <4>2. MessageTypes'
        BY <1>0, <1>b, <1>c, <2>7, <4>1, ReleaseMessages DEF SendToDlq, MessageTypes
      <4>3. WorkerTypes' BY <1>0, <2>7, <4>1, WorkerMoves DEF SendToDlq, WorkerTypes
      <4>4. Places' BY <1>0, <2>7, <4>1 DEF SendToDlq, Release, Goto, Places, WorkerTypes
      <4>5. QED BY <3>1, <4>2, <4>3, <4>4, TypesTogether DEF TypeInv
    <3>4. QED BY <3>2, <3>3
  <2>8. QED
    BY <1>1, <1>2, <1>d, <2>1, <2>2, <2>3, <2>4, <2>5, <2>6, <2>7 DEF WorkerStep
<1>3. CASE wrow[w] \notin Requests
  <2>1. wpc[w] = "idle" BY <1>0, <1>3 DEF Places, WorkerTypes
  <2>2. \/ ChannelCloses(w) \/ \E l \in Requests : Take(w, l)
        \/ AckThrows(w) \/ WorkerCrash(w) \/ ConsumerCloses(w)
    BY <2>1 DEF WorkerStep, At, Check, CheckThrows, Handle, Commit, CommitCaptured, CommitFailed,
       CommitDispute, PublishNotification, HandlerThrows, WorkerMarkProcessed, WorkerMarkFailed, SendToDlq,
       Ack
  <2>3. QED BY <1>1, <1>2, <1>d, <2>2
<1>4. QED BY <1>c, <1>3

LEMMA NextType == TypeInv /\ [Next]_vars => TypeInv'
<1> SUFFICES ASSUME TypeInv, [Next]_vars PROVE TypeInv'
  OBVIOUS
<1>1. CASE UNCHANGED vars
  <2>1. ApiTypes /\ MessageTypes /\ WorkerTypes /\ PaymentTypes /\ Places BY TypeParts DEF TypeInv
  <2> USE <1>1 DEF vars, apiVars, logVars, brokerVars, channelVars, workerVars, paymentVars, historyVars
  <2>2. ApiTypes' /\ MessageTypes' BY <2>1 DEF ApiTypes, MessageTypes
  <2>3. WorkerTypes' /\ PaymentTypes' /\ Places' BY <2>1 DEF WorkerTypes, PaymentTypes, Places
  <2>4. QED BY <2>2, <2>3, TypesTogether DEF TypeInv
<1>2. CASE \E r \in Requests : Receive(r) \/ ApiStep(r) \/ \E l \in Requests : Replay(r, l)
  BY <1>2, ApiType
<1>3. CASE ApiCrash
  BY <1>3, ApiCrashType
<1>4. CASE \E w \in Workers : WorkerStep(w) \/ WorkerCrash(w) \/ ChannelCloses(w) \/ ConsumerCloses(w)
  BY <1>4, WorkerType
<1>5. QED BY <1>1, <1>2, <1>3, <1>4 DEF Next

LEMMA TypeHolds == Spec => []TypeInv
BY InitType, NextType, PTL DEF Spec

\* Every state of a behaviour is well typed, and no message is tried more than
\* maxRetries times, for any number of requests, workers and incidents.
THEOREM TypeCorrect == Spec => []TypeOK
<1>1. TypeInv => TypeOK BY DEF TypeInv
<1>2. QED BY <1>1, TypeHolds, PTL

-----------------------------------------------------------------------------
(* Messages are accounted for *)

LEMMA HeldIsNat == ASSUME NEW l PROVE Held(l) \in Nat /\ Held(l)' \in Nat
<1>1. IsFiniteSet({w \in Workers : Holds(w, l)}) /\ IsFiniteSet({w \in Workers : Holds(w, l)'})
  BY FS_Subset, ConstantsAssumption
<1>2. QED BY <1>1, FS_CardinalityType DEF Held

\* A worker that has no message takes one.
LEMMA HeldTakes ==
    ASSUME WorkerTypes, NEW w \in Workers, NEW l \in Requests, wrow[w] = None, consumerUp[w],
           wrow' = [wrow EXCEPT ![w] = l], UNCHANGED consumerUp, NEW m \in Requests
    PROVE  Held(m)' = IF m = l THEN Held(m) + 1 ELSE Held(m)
<1> DEFINE S == {v \in Workers : Holds(v, m)}
           T == {v \in Workers : Holds(v, m)'}
<1>0. IsFiniteSet(S) BY FS_Subset, ConstantsAssumption
<1>1. CASE m = l
  <2>1. T = S \union {w} BY <1>1 DEF WorkerTypes, Holds, Row
  <2>2. w \notin S BY <1>1, NoneIsNoRequest DEF Holds, Row
  <2>3. QED BY <1>0, <1>1, <2>1, <2>2, FS_AddElement DEF Held
<1>2. CASE m # l
  <2>1. T = S BY <1>2, NoneIsNoRequest DEF WorkerTypes, Holds, Row
  <2>2. QED BY <1>2, <2>1 DEF Held
<1>3. QED BY <1>1, <1>2

\* Worker w alone moves: at most its own message is no longer held.
LEMMA HeldDrops ==
    ASSUME NEW w \in Workers,
           \A v \in Workers \ {w} : wrow'[v] = wrow[v] /\ consumerUp'[v] = consumerUp[v],
           NEW m \in Requests
    PROVE  /\ Held(m) <= Held(m)' + 1
           /\ ~Holds(w, m)' => Held(m) = IF Holds(w, m) THEN Held(m)' + 1 ELSE Held(m)'
<1> DEFINE S == {v \in Workers : Holds(v, m)}
           T == {v \in Workers : Holds(v, m)'}
<1>0. IsFiniteSet(S) /\ IsFiniteSet(T) BY FS_Subset, ConstantsAssumption
<1>1. \A v \in Workers \ {w} : v \in S <=> v \in T BY DEF Holds, Row
<1>2. IsFiniteSet(T \ {w}) /\ IsFiniteSet(S \ {w}) /\ S \ {w} = T \ {w}
  BY <1>0, <1>1, FS_Subset
<1>3. ASSUME NEW X \in {S, T}
      PROVE  Cardinality(X) = Cardinality(X \ {w}) + (IF w \in X THEN 1 ELSE 0)
  <2>1. CASE w \in X
    <3>1. X = (X \ {w}) \union {w} BY <2>1
    <3>2. IsFiniteSet(X \ {w}) /\ w \notin X \ {w} BY <1>2
    <3>3. Cardinality((X \ {w}) \union {w}) = Cardinality(X \ {w}) + 1 BY <3>2, FS_AddElement
    <3>4. QED BY <2>1, <3>1, <3>3
  <2>2. CASE w \notin X
    <3>1. X \ {w} = X /\ IsFiniteSet(X) BY <1>0, <2>2
    <3>2. Cardinality(X) \in Nat BY <3>1, FS_CardinalityType
    <3>3. QED BY <2>2, <3>1, <3>2
  <2>3. QED BY <2>1, <2>2
<1>4. PICK n \in Nat : Cardinality(S \ {w}) = n /\ Cardinality(T \ {w}) = n
  BY <1>2, FS_CardinalityType
<1>5. /\ Held(m) = n + (IF w \in S THEN 1 ELSE 0)
      /\ Held(m)' = n + (IF w \in T THEN 1 ELSE 0)
  <2>1. Held(m) = Cardinality(S) /\ Held(m)' = Cardinality(T) BY DEF Held
  <2>2. QED BY <1>3, <1>4, <2>1
<1>6. (w \in S <=> Holds(w, m)) /\ (w \in T <=> Holds(w, m)') OBVIOUS
<1> HIDE DEF S, T
<1>7. QED BY <1>4, <1>5, <1>6

\* What is about to be acknowledged has a reason, and a channel closes by an incident.
Reasons ==
    /\ \A w \in Workers : /\ wpc[w] = "ack" => fate[wrow[w]] # {}
                          /\ ~workerUp[w] => incidents > 0
    /\ apiUp \/ incidents > 0

MessageInv == TypeInv /\ MessagesAccountedFor /\ Reasons

LEMMA InitMessages == Init => MessageInv
<1> SUFFICES ASSUME Init PROVE MessageInv
  OBVIOUS
<1>1. ASSUME NEW l \in Requests PROVE Held(l) = 0
  <2>1. {w \in Workers : Holds(w, l)} = {} BY NoneIsNoRequest DEF Init, Holds, Row
  <2>2. QED BY <2>1, FS_EmptySet DEF Held
<1>2. MessagesAccountedFor BY <1>1 DEF Init, MessagesAccountedFor
<1>3. Reasons BY DEF Init, Reasons
<1>4. QED BY <1>2, <1>3, InitType DEF MessageInv

\* The number of incidents only grows.
LEMMA IncidentsGrow ==
    ASSUME MessageTypes, Incident \/ UNCHANGED incidents
    PROVE  /\ incidents \in Nat /\ incidents' \in Nat /\ incidents' >= incidents
           /\ Incident => incidents' > 0
BY ConstantsAssumption DEF MessageTypes, Incident

\* A step that moves no message, and adds no reason that needs an incident.
LEMMA NoMessageMoves ==
    ASSUME MessageInv, UNCHANGED <<wrow, consumerUp, queue, gone, sent>>, Incident \/ UNCHANGED incidents,
           \A l \in Requests : /\ fate[l] \subseteq fate'[l]
                               /\ fate'[l] \subseteq fate[l] \union {"handled", "parked"},
           \A w \in Workers : /\ wpc'[w] = "ack" => fate'[wrow[w]] # {}
                              /\ ~workerUp'[w] => ~workerUp[w] \/ Incident,
           apiUp' \/ ~apiUp \/ Incident
    PROVE  MessagesAccountedFor' /\ Reasons'
<1>0. MessageTypes BY TypeParts DEF MessageInv, TypeInv
<1>1. \A l \in Requests : Held(l)' = Held(l) BY DEF Held, Holds, Row
<1>2. /\ incidents \in Nat /\ incidents' \in Nat /\ incidents' >= incidents
      /\ Incident => incidents' > 0
  BY <1>0, IncidentsGrow
<1>3. MessagesAccountedFor' BY <1>1, <1>2 DEF MessageInv, MessagesAccountedFor
<1>4. Reasons' BY <1>2 DEF MessageInv, Reasons
<1>5. QED BY <1>3, <1>4

\* A message leaves its worker for good, for a reason.
LEMMA MessageLeaves ==
    ASSUME MessageInv, NEW w \in Workers, wrow[w] \in Requests, NEW what, Release(w, what),
           UNCHANGED <<queue, sent, channelVars, apiUp>>, Incident \/ UNCHANGED incidents,
           fate[wrow[w]] # {} \/ what # {},
           what \cap {"lost", "dropped"} # {} => incidents' > 0
    PROVE  MessagesAccountedFor' /\ Reasons'
<1> USE DEF channelVars
<1>0. MessageTypes /\ WorkerTypes BY TypeParts DEF MessageInv, TypeInv
<1>1. ASSUME NEW m \in Requests PROVE Held(m) = IF m = wrow[w] THEN Held(m)' + 1 ELSE Held(m)'
  <2>1. \A v \in Workers \ {w} : wrow'[v] = wrow[v] /\ consumerUp'[v] = consumerUp[v]
    BY <1>0 DEF Release, WorkerTypes
  <2>2. ~Holds(w, m)' /\ (Holds(w, m) <=> m = wrow[w])
    BY <1>0, NoneIsNoRequest DEF Release, Holds, Row, WorkerTypes
  <2>3. QED BY <2>1, <2>2, HeldDrops
<1>2. \A m \in Requests : Held(m) \in Nat /\ Held(m)' \in Nat BY HeldIsNat
<1>3. \A m \in Requests : gone'[m] = (IF m = wrow[w] THEN gone[m] + 1 ELSE gone[m])
  BY <1>0 DEF Release, Row, MessageTypes
<1>4. \A m \in Requests : fate'[m] = (IF m = wrow[w] THEN fate[m] \union what ELSE fate[m])
  BY <1>0 DEF Release, Row, MessageTypes
<1>5. /\ incidents \in Nat /\ incidents' \in Nat /\ incidents' >= incidents
  BY <1>0, IncidentsGrow
<1>6. ASSUME NEW m \in Requests
      PROVE  /\ sent'[m] = queue'[m] + Held(m)' + gone'[m]
             /\ gone'[m] > 0 => fate'[m] # {}
             /\ fate'[m] \cap {"lost", "dropped"} # {} => incidents' > 0
  <2>1. /\ sent[m] = queue[m] + Held(m) + gone[m]
        /\ gone[m] > 0 => fate[m] # {}
        /\ fate[m] \cap {"lost", "dropped"} # {} => incidents > 0
    BY DEF MessageInv, MessagesAccountedFor
  <2>2. queue[m] \in Nat /\ gone[m] \in Nat /\ sent[m] \in Nat BY <1>0 DEF MessageTypes
  <2>3. sent'[m] = queue'[m] + Held(m)' + gone'[m] BY <1>1, <1>2, <1>3, <2>1, <2>2
  <2>4. gone'[m] > 0 => fate'[m] # {} BY <1>3, <1>4, <2>1, <2>2
  <2>5. ASSUME fate'[m] \cap {"lost", "dropped"} # {} PROVE incidents' > 0
    <3>1. CASE fate[m] \cap {"lost", "dropped"} # {} BY <1>5, <2>1, <3>1
    <3>2. CASE fate[m] \cap {"lost", "dropped"} = {}
      <4>1. fate'[m] \subseteq fate[m] \union what BY <1>4
      <4>2. what \cap {"lost", "dropped"} # {} BY <2>5, <3>2, <4>1
      <4>3. QED BY <4>2
    <3>3. QED BY <3>1, <3>2
  <2>6. QED BY <2>3, <2>4, <2>5
<1>7. MessagesAccountedFor' BY <1>6 DEF MessagesAccountedFor
<1>8. \A v \in Workers : v # w => wpc'[v] = wpc[v] /\ wrow'[v] = wrow[v]
  BY <1>0 DEF Release, Goto, WorkerTypes
<1>9. wpc'[w] = "idle" BY <1>0 DEF Release, Goto, WorkerTypes
<1>10. Reasons'
  <2>1. ASSUME NEW v \in Workers, wpc'[v] = "ack" PROVE fate'[wrow'[v]] # {}
    <3>1. v # w BY <1>9, <2>1
    <3>2. wrow[v] \in Requests
      BY <1>0, <1>8, <2>1, <3>1 DEF MessageInv, TypeInv, Places, WorkerTypes
    <3>3. QED BY <1>4, <1>8, <2>1, <3>1, <3>2 DEF MessageInv, Reasons
  <2>2. QED BY <2>1, <1>5 DEF MessageInv, Reasons
<1>11. QED BY <1>7, <1>10

\* The broker has the message of worker w back, or had it before.
LEMMA MessageReturns ==
    ASSUME MessageInv, NEW w \in Workers,
           \A m \in Requests : queue'[m] = IF Holds(w, m) THEN queue[m] + 1 ELSE queue[m],
           \A v \in Workers \ {w} : wrow'[v] = wrow[v] /\ consumerUp'[v] = consumerUp[v],
           \A m \in Requests : ~Holds(w, m)',
           UNCHANGED <<sent, gone, fate, apiUp>>, Incident \/ UNCHANGED incidents,
           \A v \in Workers : /\ wpc'[v] = "ack" => wpc[v] = "ack" /\ wrow'[v] = wrow[v]
                              /\ ~workerUp'[v] => ~workerUp[v]
    PROVE  MessagesAccountedFor' /\ Reasons'
<1>0. MessageTypes BY TypeParts DEF MessageInv, TypeInv
<1>1. incidents \in Nat /\ incidents' \in Nat /\ incidents' >= incidents BY <1>0, IncidentsGrow
<1>2. ASSUME NEW m \in Requests PROVE sent[m] = queue'[m] + Held(m)' + gone[m]
  <2>1. sent[m] = queue[m] + Held(m) + gone[m] BY DEF MessageInv, MessagesAccountedFor
  <2>2. queue[m] \in Nat /\ gone[m] \in Nat /\ sent[m] \in Nat BY <1>0 DEF MessageTypes
  <2>3. Held(m) \in Nat /\ Held(m)' \in Nat BY HeldIsNat
  <2>4. Held(m) = IF Holds(w, m) THEN Held(m)' + 1 ELSE Held(m)' BY HeldDrops
  <2>5. queue'[m] = IF Holds(w, m) THEN queue[m] + 1 ELSE queue[m] OBVIOUS
  <2> HIDE DEF Held, Holds
  <2>6. QED BY <2>1, <2>2, <2>3, <2>4, <2>5
<1>3. MessagesAccountedFor' BY <1>1, <1>2 DEF MessageInv, MessagesAccountedFor
<1>4. Reasons' BY <1>1 DEF MessageInv, Reasons
<1>5. QED BY <1>3, <1>4

LEMMA ApiMessages ==
    ASSUME MessageInv, NEW r \in Requests,
           Receive(r) \/ ApiStep(r) \/ \E l \in Requests : Replay(r, l)
    PROVE  MessagesAccountedFor' /\ Reasons'
<1> USE DEF apiVars, logVars, brokerVars, channelVars, workerVars, paymentVars, historyVars
<1>0. MessageTypes /\ WorkerTypes /\ ApiTypes /\ Places BY TypeParts DEF MessageInv, TypeInv
<1>1. CASE Dispatch(r)
  <2>0. reqRow[r] \in Requests BY <1>0, <1>1 DEF Dispatch, ReqMove, Places
  <2>1. /\ incidents \in Nat /\ incidents' \in Nat /\ incidents' >= incidents
        /\ Incident => incidents' > 0
    BY <1>0, <1>1, IncidentsGrow DEF Dispatch
  <2>2. \A l \in Requests : Held(l)' = Held(l) /\ Held(l) \in Nat
    BY <1>1, HeldIsNat DEF Dispatch, Held, Holds, Row
  <2>3. ASSUME NEW m \in Requests
        PROVE  /\ sent'[m] = queue'[m] + Held(m)' + gone'[m]
               /\ gone'[m] > 0 => fate'[m] # {}
               /\ fate'[m] \cap {"lost", "dropped"} # {} => incidents' > 0
    <3>1. /\ sent[m] = queue[m] + Held(m) + gone[m]
          /\ gone[m] > 0 => fate[m] # {}
          /\ fate[m] \cap {"lost", "dropped"} # {} => incidents > 0
      BY DEF MessageInv, MessagesAccountedFor
    <3>2. queue[m] \in Nat /\ gone[m] \in Nat /\ sent[m] \in Nat BY <1>0 DEF MessageTypes
    <3>3. sent'[m] = (IF m = reqRow[r] THEN sent[m] + 1 ELSE sent[m])
      BY <1>0, <1>1 DEF Dispatch, MessageTypes
    <3>4. CASE UNCHANGED queue
      <4>1. /\ Incident /\ gone' = [gone EXCEPT ![reqRow[r]] = @ + 1]
            /\ fate' = [fate EXCEPT ![reqRow[r]] = @ \union {"lost"}]
        <5>1. queue # [queue EXCEPT ![reqRow[r]] = @ + 1]
          <6>1. queue[reqRow[r]] \in Nat BY <1>0, <2>0 DEF MessageTypes
          <6>2. QED BY <1>0, <2>0, <6>1 DEF MessageTypes
        <5>2. QED BY <1>1, <3>4, <5>1 DEF Dispatch
      <4>2. gone'[m] = (IF m = reqRow[r] THEN gone[m] + 1 ELSE gone[m]) BY <1>0, <4>1 DEF MessageTypes
      <4>3. fate'[m] = (IF m = reqRow[r] THEN fate[m] \union {"lost"} ELSE fate[m])
        BY <1>0, <4>1 DEF MessageTypes
      <4>4. sent'[m] = queue'[m] + Held(m)' + gone'[m] BY <2>2, <3>1, <3>2, <3>3, <3>4, <4>2
      <4>5. gone'[m] > 0 => fate'[m] # {} BY <3>1, <3>2, <4>2, <4>3
      <4>6. incidents' > 0 BY <2>1, <4>1
      <4>7. QED BY <4>4, <4>5, <4>6
    <3>5. CASE queue' # queue
      <4>1. queue' = [queue EXCEPT ![reqRow[r]] = @ + 1] /\ UNCHANGED <<gone, fate>>
        BY <1>1, <3>5 DEF Dispatch
      <4>2. queue'[m] = (IF m = reqRow[r] THEN queue[m] + 1 ELSE queue[m]) BY <1>0, <4>1 DEF MessageTypes
      <4>3. sent'[m] = queue'[m] + Held(m)' + gone'[m] BY <2>2, <3>1, <3>2, <3>3, <4>1, <4>2
      <4>4. QED BY <2>1, <3>1, <4>1, <4>3
    <3>6. QED BY <3>4, <3>5
  <2>4. MessagesAccountedFor' BY <2>3 DEF MessagesAccountedFor
  <2>5. \A l \in Requests : fate[l] \subseteq fate'[l] BY <1>0, <1>1 DEF Dispatch, MessageTypes
  <2>6. Reasons'
    <3>1. UNCHANGED <<wpc, wrow, workerUp>> /\ (apiUp' \/ Incident) BY <1>1 DEF Dispatch
    <3>2. ASSUME NEW v \in Workers, wpc[v] = "ack" PROVE wrow[v] \in Requests
      BY <1>0, <3>2 DEF Places, WorkerTypes
    <3>3. QED BY <2>1, <2>5, <3>1, <3>2 DEF MessageInv, Reasons
  <2>7. QED BY <2>4, <2>6
<1>2. CASE ~Dispatch(r)
  <2>1. UNCHANGED <<wrow, wpc, queue, gone, sent, fate, workerUp, consumerUp, apiUp>>
        /\ (Incident \/ UNCHANGED incidents)
    BY <1>2 DEF Receive, ApiStep, Replay, DispatchThrows, ApiMarkProcessed, ApiMarkThrows, ApiMarkFailed
  <2>2. QED BY <2>1, NoMessageMoves DEF MessageInv, Reasons
<1>3. QED BY <1>1, <1>2

\* The steps of a worker.
LEMMA WorkerMessages ==
    ASSUME MessageInv, NEW w \in Workers,
           WorkerStep(w) \/ WorkerCrash(w) \/ ChannelCloses(w) \/ ConsumerCloses(w)
    PROVE  MessagesAccountedFor' /\ Reasons'
<1> USE DEF apiVars, logVars, brokerVars, channelVars, workerVars, paymentVars, historyVars
<1>0. MessageTypes /\ WorkerTypes /\ ApiTypes /\ Places BY TypeParts DEF MessageInv, TypeInv
<1>1. ASSUME NEW l \in Requests, Take(w, l) PROVE MessagesAccountedFor' /\ Reasons'
  <2>1. wrow[w] = None BY <1>0, <1>1 DEF Take, At, Places
  <2>2. wrow' = [wrow EXCEPT ![w] = l] /\ consumerUp[w] /\ UNCHANGED consumerUp BY <1>1 DEF Take
  <2>3. \A m \in Requests : Held(m)' = (IF m = l THEN Held(m) + 1 ELSE Held(m)) /\ Held(m) \in Nat
    BY <1>0, <2>1, <2>2, HeldTakes, HeldIsNat
  <2>4. \A m \in Requests : queue'[m] = (IF m = l THEN queue[m] - 1 ELSE queue[m]) /\ queue[m] \in Nat
    BY <1>0, <1>1 DEF Take, MessageTypes
  <2>5. UNCHANGED <<sent, gone, fate, incidents, workerUp, apiUp>> BY <1>1 DEF Take
  <2>6. ASSUME NEW m \in Requests PROVE sent[m] = queue'[m] + Held(m)' + gone[m]
    <3>1. sent[m] = queue[m] + Held(m) + gone[m] BY DEF MessageInv, MessagesAccountedFor
    <3>2. gone[m] \in Nat BY <1>0 DEF MessageTypes
    <3>3. QED BY <2>3, <2>4, <3>1, <3>2
  <2>7. MessagesAccountedFor' BY <2>5, <2>6 DEF MessageInv, MessagesAccountedFor
  <2>8. \A v \in Workers : wpc'[v] = "ack" => wpc[v] = "ack" /\ wrow'[v] = wrow[v]
    BY <1>0, <1>1 DEF Take, Goto, WorkerTypes
  <2>9. Reasons' BY <2>5, <2>8 DEF MessageInv, Reasons
  <2>10. QED BY <2>7, <2>9
<1>2. CASE ChannelCloses(w)
  <2>1. \A v \in Workers : ~workerUp'[v] => ~workerUp[v] \/ Incident
    BY <1>0, <1>2 DEF ChannelCloses, WorkerTypes
  <2>2. QED BY <1>2, <2>1, NoMessageMoves DEF ChannelCloses, MessageInv, Reasons
<1>d. CASE AckThrows(w) \/ WorkerCrash(w) \/ ConsumerCloses(w)
  <2>1. UNCHANGED <<sent, gone, fate, apiUp>> /\ (Incident \/ UNCHANGED incidents)
    BY <1>d DEF AckThrows, WorkerCrash, ConsumerCloses
  <2>2. \A m \in Requests : queue'[m] = IF Holds(w, m) THEN queue[m] + 1 ELSE queue[m]
    <3>1. CASE Requeue(w) BY <1>0, <3>1, RequeueTypes
    <3>2. CASE AckThrows(w) BY <3>2 DEF AckThrows, Holds
    <3>3. QED BY <1>d, <3>1, <3>2 DEF WorkerCrash, ConsumerCloses
  <2>3. CASE Restart(w)
    <3>1. \A v \in Workers : /\ wpc'[v] = (IF v = w THEN "idle" ELSE wpc[v])
                             /\ wrow'[v] = (IF v = w THEN None ELSE wrow[v])
                             /\ workerUp'[v] = (IF v = w THEN TRUE ELSE workerUp[v])
                             /\ consumerUp'[v] = (IF v = w THEN TRUE ELSE consumerUp[v])
      BY <1>0, <2>3 DEF Restart, Goto, WorkerTypes
    <3>2. \A m \in Requests : ~Holds(w, m)' BY <3>1, NoneIsNoRequest DEF Holds, Row
    <3>3. QED BY <2>1, <2>2, <3>1, <3>2, MessageReturns
  <2>4. CASE ConsumerCloses(w)
    <3>1. UNCHANGED <<wpc, wrow, workerUp>> BY <2>4 DEF ConsumerCloses
    <3>2. \A v \in Workers : consumerUp'[v] = (IF v = w THEN FALSE ELSE consumerUp[v])
      BY <1>0, <2>4 DEF ConsumerCloses, WorkerTypes
    <3>3. \A m \in Requests : ~Holds(w, m)' BY <3>2 DEF Holds
    <3>4. QED BY <2>1, <2>2, <3>1, <3>2, <3>3, MessageReturns
  <2>5. QED BY <1>d, <2>3, <2>4 DEF AckThrows, WorkerCrash
<1>c. CASE wrow[w] \in Requests
  <2>0. \A v \in Workers : wpc[v] = "ack" => wrow[v] \in Requests /\ fate[wrow[v]] # {}
    BY <1>0 DEF MessageInv, Reasons, Places, WorkerTypes
  \* The handler's steps move no message and give no reason.
  <2>1. CASE Handle(w) \/ Commit(w) \/ PublishNotification(w) \/ HandlerThrows(w) \/ WorkerMarkFailed(w)
    <3>1. UNCHANGED <<wrow, queue, gone, sent, fate, channelVars, apiUp>> /\ (Incident \/ UNCHANGED incidents)
      BY <2>1 DEF Handle, Commit, PublishNotification, HandlerThrows, WorkerMarkFailed
    <3>2. \E p \in WorkerPlaces \ {"ack"} : Goto(w, p)
      BY <2>1 DEF Handle, HandlerVerdict, Commit, CommitCaptured, CommitFailed, CommitDispute,
         PublishNotification, HandlerThrows, WorkerMarkFailed, AttemptFails, StartRun, WorkerPlaces
    <3>3. \A v \in Workers : wpc'[v] = "ack" => wpc[v] = "ack" BY <1>0, <3>2 DEF Goto, WorkerTypes
    <3>4. QED BY <2>0, <3>1, <3>3, NoMessageMoves
  <2>2. CASE Check(w)
    <3>1. CASE log[Row(w)] = "PROCESSED"
      <4>1. Release(w, {"skipped"}) BY <2>2, <3>1 DEF Check
      <4>2. QED BY <1>c, <2>2, <4>1, MessageLeaves DEF Check
    <3>2. CASE log[Row(w)] # "PROCESSED"
      <4>1. StartRun(w) /\ UNCHANGED <<wrow, gone, fate>> BY <2>2, <3>2 DEF Check
      <4>2. \A v \in Workers : wpc'[v] = "ack" => wpc[v] = "ack"
        BY <1>0, <4>1 DEF StartRun, Goto, WorkerTypes
      <4>3. UNCHANGED <<queue, sent, channelVars, apiUp, incidents>> BY <2>2 DEF Check
      <4>4. QED BY <2>0, <4>1, <4>2, <4>3, NoMessageMoves
    <3>3. QED BY <3>1, <3>2
  <2>3. CASE CheckThrows(w)
    <3>1. incidents' > 0 BY <1>0, <2>3, IncidentsGrow DEF CheckThrows
    <3>2. QED BY <1>c, <2>3, <3>1, MessageLeaves DEF CheckThrows
  <2>4. CASE Ack(w)
    <3>1. fate[wrow[w]] # {} BY <2>0, <2>4 DEF Ack, At
    <3>2. QED BY <1>c, <2>4, <3>1, MessageLeaves DEF Ack
  <2>5. CASE WorkerMarkProcessed(w)
    <3>1. UNCHANGED <<wrow, queue, gone, sent, channelVars, apiUp, incidents>> BY <2>5 DEF WorkerMarkProcessed
    <3>2. \A m \in Requests : fate'[m] = (IF m = wrow[w] THEN fate[m] \union {"handled"} ELSE fate[m])
      BY <1>0, <2>5 DEF WorkerMarkProcessed, Row, MessageTypes
    <3>3. \A v \in Workers : wpc'[v] = "ack" => v = w \/ wpc[v] = "ack"
      BY <1>0, <2>5 DEF WorkerMarkProcessed, Goto, WorkerTypes
    <3>4. QED BY <1>c, <2>0, <3>1, <3>2, <3>3, NoMessageMoves
  <2>6. CASE SendToDlq(w)
    <3>1. CASE workerUp[w]
      <4>1. UNCHANGED <<wrow, queue, gone, sent, channelVars, apiUp, incidents>>
        BY <2>6, <3>1 DEF SendToDlq
      <4>2. \A m \in Requests : fate'[m] = (IF m = wrow[w] THEN fate[m] \union {"parked"} ELSE fate[m])
        BY <1>0, <2>6, <3>1 DEF SendToDlq, Row, MessageTypes
      <4>3. \A v \in Workers : wpc'[v] = "ack" => v = w \/ wpc[v] = "ack"
        BY <1>0, <2>6, <3>1 DEF SendToDlq, Goto, WorkerTypes
      <4>4. QED BY <1>c, <2>0, <4>1, <4>2, <4>3, NoMessageMoves
    <3>2. CASE ~workerUp[w]
      <4>1. Release(w, {"dropped"}) BY <2>6, <3>2 DEF SendToDlq
      <4>2. incidents' > 0 BY <2>6, <3>2 DEF SendToDlq, MessageInv, Reasons
      <4>3. QED BY <1>c, <2>6, <4>1, <4>2, MessageLeaves DEF SendToDlq
    <3>3. QED BY <3>1, <3>2
  <2>7. QED
    BY <1>1, <1>2, <1>d, <2>1, <2>2, <2>3, <2>4, <2>5, <2>6 DEF WorkerStep
<1>3. CASE wrow[w] \notin Requests
  <2>1. wpc[w] = "idle" BY <1>0, <1>3 DEF Places, WorkerTypes
  <2>2. \/ ChannelCloses(w) \/ \E l \in Requests : Take(w, l)
        \/ AckThrows(w) \/ WorkerCrash(w) \/ ConsumerCloses(w)
    BY <2>1 DEF WorkerStep, At, Check, CheckThrows, Handle, Commit, CommitCaptured, CommitFailed,
       CommitDispute, PublishNotification, HandlerThrows, WorkerMarkProcessed, WorkerMarkFailed, SendToDlq,
       Ack
  <2>3. QED BY <1>1, <1>2, <1>d, <2>2
<1>4. QED BY <1>c, <1>3

LEMMA NextMessages == MessageInv /\ [Next]_vars => MessageInv'
<1> SUFFICES ASSUME MessageInv, [Next]_vars PROVE MessageInv'
  OBVIOUS
<1>1. TypeInv' BY NextType DEF MessageInv
<1>2. CASE UNCHANGED vars
  BY <1>1, <1>2 DEF MessageInv, MessagesAccountedFor, Held, Holds, Row, Reasons, vars, apiVars, logVars,
     brokerVars, channelVars, workerVars, paymentVars, historyVars
<1>3. CASE \E r \in Requests : Receive(r) \/ ApiStep(r) \/ \E l \in Requests : Replay(r, l)
  BY <1>1, <1>3, ApiMessages DEF MessageInv
<1>4. CASE ApiCrash
  <2>1. UNCHANGED <<wrow, wpc, queue, gone, sent, fate, workerUp, consumerUp>> /\ apiUp' /\ Incident
    BY <1>4 DEF ApiCrash, brokerVars, channelVars, workerVars, historyVars
  <2>2. QED BY <1>1, <2>1, NoMessageMoves DEF MessageInv, Reasons
<1>5. CASE \E w \in Workers : WorkerStep(w) \/ WorkerCrash(w) \/ ChannelCloses(w) \/ ConsumerCloses(w)
  BY <1>1, <1>5, WorkerMessages DEF MessageInv
<1>6. QED BY <1>2, <1>3, <1>4, <1>5 DEF Next

\* Every message is queued, held or gone for a reason, and only incidents drop one.
THEOREM MessagesAccounted == Spec => []MessagesAccountedFor
<1>1. MessageInv => MessagesAccountedFor BY DEF MessageInv
<1>2. QED BY <1>1, InitMessages, NextMessages, PTL DEF Spec

-----------------------------------------------------------------------------
(* Nothing is parked early, and no row's handler runs without end *)

\* What a step of worker w does to the message it holds: a run of the handler starts, the
\* worker moves on, the message is parked, or it leaves the worker.
Moves(w, p) ==
    /\ Goto(w, p) /\ p # "idle"
    /\ p = "exhausted" => attempt[w] >= MaxRetries
    /\ p = "dlq" => wpc[w] = "exhausted"
    /\ UNCHANGED <<wrow, attempt, runs, gone, dlq, consumerUp>>

Parks(w) ==
    /\ wpc[w] = "dlq" /\ Goto(w, "ack")
    /\ dlq' = [dlq EXCEPT ![Row(w)] = @ + 1]
    /\ UNCHANGED <<wrow, attempt, runs, gone, incidents, consumerUp>>

Leaves(w) ==
    /\ Goto(w, "idle")
    /\ wrow' = [wrow EXCEPT ![w] = None]
    /\ attempt' = [attempt EXCEPT ![w] = 0]
    /\ \/ gone' = [gone EXCEPT ![Row(w)] = @ + 1]
       \/ UNCHANGED gone /\ (Incident \/ ~consumerUp[w])
    /\ UNCHANGED <<runs, dlq>>

LEMMA FailsKinds ==
    ASSUME NEW w \in Workers, WorkerTypes, AttemptFails(w), UNCHANGED <<wrow, gone, dlq, consumerUp>>
    PROVE  \/ StartRun(w) /\ attempt[w] < MaxRetries
           \/ Moves(w, "exhausted")
<1>1. attempt[w] \in Nat /\ MaxRetries \in Nat BY ConstantsAssumption DEF WorkerTypes
<1>2. CASE attempt[w] < MaxRetries BY <1>2 DEF AttemptFails
<1>3. CASE ~(attempt[w] < MaxRetries) BY <1>1, <1>3 DEF AttemptFails, Moves
<1>4. QED BY <1>2, <1>3

LEMMA WorkerKinds ==
    ASSUME TypeInv, NEW w \in Workers, WorkerStep(w) \/ WorkerCrash(w) \/ ChannelCloses(w) \/ ConsumerCloses(w)
    PROVE  /\ Incident \/ UNCHANGED incidents
           /\ \A v \in Workers \ {w} : consumerUp'[v] = consumerUp[v]
           /\ \/ \E l \in Requests : Take(w, l)
              \/ Incident /\ UNCHANGED <<wpc, wrow, attempt, runs, gone, dlq>>
              \/ wrow[w] \in Requests /\ wpc[w] # "idle"
                 /\ \/ StartRun(w) /\ attempt[w] < MaxRetries
                       /\ UNCHANGED <<wrow, gone, dlq, consumerUp>>
                    \/ \E p \in WorkerPlaces : Moves(w, p)
                    \/ Parks(w)
                    \/ Leaves(w)
<1> USE DEF apiVars, logVars, brokerVars, channelVars, workerVars, paymentVars, historyVars
<1>0. WorkerTypes /\ Places BY TypeParts DEF TypeInv
<1>a. Incident \/ UNCHANGED incidents
  BY DEF WorkerStep, WorkerCrash, Take, Check, CheckThrows, Handle, Commit, PublishNotification, HandlerThrows,
     WorkerMarkProcessed, WorkerMarkFailed, SendToDlq, Ack, AckThrows, ChannelCloses, ConsumerCloses
<1>b. \A v \in Workers \ {w} : consumerUp'[v] = consumerUp[v]
  <2>1. \/ UNCHANGED consumerUp
        \/ \E b : consumerUp' = [consumerUp EXCEPT ![w] = b]
    BY DEF WorkerStep, WorkerCrash, Take, Check, CheckThrows, Handle, Commit, PublishNotification, HandlerThrows,
       WorkerMarkProcessed, WorkerMarkFailed, SendToDlq, Ack, AckThrows, ChannelCloses, ConsumerCloses, Restart
  <2>2. QED BY <1>0, <2>1 DEF WorkerTypes
<1>1. CASE ChannelCloses(w) \/ ConsumerCloses(w) BY <1>1, <1>a, <1>b DEF ChannelCloses, ConsumerCloses
<1>2. CASE \E l \in Requests : Take(w, l) BY <1>2, <1>a, <1>b
<1>d. CASE AckThrows(w) \/ WorkerCrash(w)
  <2>1. Restart(w) /\ UNCHANGED <<runs, gone, dlq>> BY <1>d DEF AckThrows, WorkerCrash
  <2>2. CASE wpc[w] = "idle"
    <3>1. wrow[w] = None /\ attempt[w] = 0 BY <1>0, <2>2 DEF Places
    <3>2. UNCHANGED <<wpc, wrow, attempt>> BY <1>0, <2>1, <2>2, <3>1 DEF Restart, Goto, WorkerTypes
    <3>3. Incident BY <1>d, <2>2 DEF AckThrows, WorkerCrash, At
    <3>4. QED BY <1>b, <2>1, <3>2, <3>3
  <2>3. CASE wpc[w] # "idle"
    <3>1. wrow[w] \in Requests BY <1>0, <2>3 DEF Places, WorkerTypes
    <3>2. Incident \/ ~consumerUp[w] BY <1>d DEF AckThrows, WorkerCrash
    <3>3. Leaves(w) BY <2>1, <3>2 DEF Restart, Leaves
    <3>4. QED BY <1>a, <1>b, <2>3, <3>1, <3>3
  <2>4. QED BY <2>2, <2>3
<1>3. CASE /\ ~ChannelCloses(w) /\ ~ConsumerCloses(w) /\ ~\E l \in Requests : Take(w, l)
           /\ ~AckThrows(w) /\ ~WorkerCrash(w)
  <2>1. wpc[w] # "idle"
    BY <1>3 DEF WorkerStep, At, Check, CheckThrows, Handle, Commit, CommitCaptured,
       CommitFailed, CommitDispute, PublishNotification, HandlerThrows, WorkerMarkProcessed, WorkerMarkFailed,
       SendToDlq, Ack
  <2>2. wrow[w] \in Requests BY <1>0, <2>1 DEF Places, WorkerTypes
  <2>a. {"handle", "commit", "publish", "mark", "exhausted", "dlq", "ack"} \subseteq WorkerPlaces
    BY DEF WorkerPlaces
  <2>3. CASE Check(w)
    <3>1. attempt[w] < MaxRetries
      BY <1>0, <2>3, ConstantsAssumption DEF Check, At, Places
    <3>2. CASE log[Row(w)] = "PROCESSED"
      BY <1>a, <1>b, <2>1, <2>2, <2>3, <3>2 DEF Check, Release, Leaves
    <3>3. CASE log[Row(w)] # "PROCESSED"
      BY <1>a, <1>b, <2>1, <2>2, <2>3, <3>1, <3>3 DEF Check
    <3>4. QED BY <3>2, <3>3
  <2>4. CASE CheckThrows(w) \/ Ack(w)
    <3>1. Leaves(w) BY <2>4 DEF CheckThrows, Ack, Release, Leaves
    <3>2. QED BY <1>a, <1>b, <2>1, <2>2, <3>1
  <2>5. CASE Handle(w)
    <3>1. UNCHANGED <<wrow, gone, dlq, consumerUp>> BY <2>5 DEF Handle
    <3>2. CASE AttemptFails(w)
      BY <1>0, <1>a, <1>b, <2>1, <2>2, <2>a, <3>1, <3>2, FailsKinds
    <3>3. CASE ~AttemptFails(w)
      <4>1. PICK p \in {"mark", "commit"} : Goto(w, p) /\ UNCHANGED <<attempt, runs>>
        BY <2>5, <3>3 DEF Handle, HandlerVerdict
      <4>2. Moves(w, p) BY <3>1, <4>1 DEF Moves
      <4>3. QED BY <1>a, <1>b, <2>1, <2>2, <2>a, <4>2
    <3>4. QED BY <3>2, <3>3
  <2>6. CASE Commit(w)
    <3>1. UNCHANGED <<wrow, gone, dlq, consumerUp>> BY <2>6 DEF Commit
    <3>2. CASE AttemptFails(w)
      BY <1>0, <1>a, <1>b, <2>1, <2>2, <2>a, <3>1, <3>2, FailsKinds
    <3>3. CASE ~AttemptFails(w)
      <4>1. PICK p \in {"mark", "publish"} : Goto(w, p) /\ UNCHANGED <<attempt, runs>>
        BY <2>6, <3>3 DEF Commit, CommitCaptured, CommitFailed, CommitDispute
      <4>2. Moves(w, p) BY <3>1, <4>1 DEF Moves
      <4>3. QED BY <1>a, <1>b, <2>1, <2>2, <2>a, <4>2
    <3>4. QED BY <3>2, <3>3
  <2>7. CASE PublishNotification(w) \/ HandlerThrows(w)
    <3>1. UNCHANGED <<wrow, gone, dlq, consumerUp>> BY <2>7 DEF PublishNotification, HandlerThrows
    <3>2. CASE AttemptFails(w)
      BY <1>0, <1>a, <1>b, <2>1, <2>2, <2>a, <3>1, <3>2, FailsKinds
    <3>3. CASE ~AttemptFails(w)
      <4>1. Goto(w, "mark") /\ UNCHANGED <<attempt, runs>>
        BY <2>7, <3>3 DEF PublishNotification, HandlerThrows
      <4>2. Moves(w, "mark") BY <3>1, <4>1 DEF Moves
      <4>3. QED BY <1>a, <1>b, <2>1, <2>2, <2>a, <4>2
    <3>4. QED BY <3>2, <3>3
  <2>8. CASE WorkerMarkProcessed(w)
    <3>1. Moves(w, "ack") BY <2>8 DEF WorkerMarkProcessed, Moves
    <3>2. QED BY <1>a, <1>b, <2>1, <2>2, <2>a, <3>1
  <2>9. CASE WorkerMarkFailed(w)
    <3>1. Moves(w, "dlq") BY <2>9 DEF WorkerMarkFailed, At, Moves
    <3>2. QED BY <1>a, <1>b, <2>1, <2>2, <2>a, <3>1
  <2>10. CASE SendToDlq(w)
    <3>1. CASE workerUp[w]
      BY <1>a, <1>b, <2>1, <2>2, <2>10, <3>1 DEF SendToDlq, At, Parks
    <3>2. CASE ~workerUp[w]
      BY <1>a, <1>b, <2>1, <2>2, <2>10, <3>2 DEF SendToDlq, Release, Leaves
    <3>3. QED BY <3>1, <3>2
  <2>11. QED
    BY <1>3, <2>3, <2>4, <2>5, <2>6, <2>7, <2>8, <2>9, <2>10 DEF WorkerStep
<1>4. QED BY <1>1, <1>2, <1>d, <1>3

\* The attempts the workers that hold a message of row l may still make.
Spare(l) == {x \in Workers \X (1 .. MaxRetries) : wrow[x[1]] = l /\ attempt[x[1]] < x[2]}

\* A parked row has used up its retries; the runs made and still to be made are paid for
\* by the messages gone, the incidents, and the messages held.
Late ==
    /\ \A l \in Requests : dlq[l] > 0 => runs[l] >= MaxRetries
    /\ \A w \in Workers :
        /\ wrow[w] \in Requests => runs[wrow[w]] >= attempt[w]
        /\ wpc[w] \in {"exhausted", "dlq"} => attempt[w] >= MaxRetries

Paid == \A l \in Requests :
    runs[l] + Cardinality(Spare(l)) <= MaxRetries * (gone[l] + incidents + Held(l))

ParkInv == MessageInv /\ Late /\ Paid

LEMMA SpareFinite ==
    ASSUME NEW l
    PROVE  /\ IsFiniteSet(Spare(l)) /\ Cardinality(Spare(l)) \in Nat
           /\ IsFiniteSet(Spare(l)') /\ Cardinality(Spare(l)') \in Nat
<1>1. IsFiniteSet(1 .. MaxRetries) BY FS_Interval, ConstantsAssumption
<1>2. IsFiniteSet(Workers \X (1 .. MaxRetries)) BY <1>1, FS_Product, ConstantsAssumption
<1>3. Spare(l) \in SUBSET (Workers \X (1 .. MaxRetries)) BY DEF Spare
<1>4. Spare(l)' \in SUBSET (Workers \X (1 .. MaxRetries)) BY DEF Spare
<1>5. QED BY <1>2, <1>3, <1>4, FS_Subset, FS_CardinalityType

\* A run that starts is one of the spare ones.
LEMMA SpareRuns ==
    ASSUME WorkerTypes, NEW w \in Workers, wrow[w] \in Requests, StartRun(w), attempt[w] < MaxRetries,
           UNCHANGED wrow, NEW m \in Requests
    PROVE  Cardinality(Spare(m)') = IF m = wrow[w] THEN Cardinality(Spare(m)) - 1
                                                   ELSE Cardinality(Spare(m))
<1>0. \A v \in Workers : attempt[v] \in Nat /\ attempt'[v] = (IF v = w THEN attempt[v] + 1 ELSE attempt[v])
  BY DEF StartRun, WorkerTypes
<1>1. CASE m = wrow[w]
  <2>1. Spare(m)' = Spare(m) \ {<<w, attempt[w] + 1>>}
    <3>1. ASSUME NEW v \in Workers, NEW k \in 1 .. MaxRetries
          PROVE  (wrow'[v] = m /\ attempt'[v] < k) = (wrow[v] = m /\ attempt[v] < k /\ <<v, k>> # <<w, attempt[w] + 1>>)
      <4>1. CASE v = w BY <1>0, <1>1, <4>1
      <4>2. CASE v # w BY <1>0, <4>2
      <4>3. QED BY <4>1, <4>2
    <3>2. ASSUME NEW x \in Workers \X (1 .. MaxRetries)
          PROVE  x \in Spare(m)' <=> x \in Spare(m) /\ x # <<w, attempt[w] + 1>>
      <4>1. x[1] \in Workers /\ x[2] \in 1 .. MaxRetries /\ x = <<x[1], x[2]>> OBVIOUS
      <4>2. (wrow'[x[1]] = m /\ attempt'[x[1]] < x[2])
            = (wrow[x[1]] = m /\ attempt[x[1]] < x[2] /\ <<x[1], x[2]>> # <<w, attempt[w] + 1>>)
        BY <3>1, <4>1
      <4>3. QED BY <4>1, <4>2 DEF Spare
    <3>3. Spare(m)' \subseteq Workers \X (1 .. MaxRetries) /\ Spare(m) \subseteq Workers \X (1 .. MaxRetries)
      BY DEF Spare
    <3>4. QED BY <3>2, <3>3
  <2>2. <<w, attempt[w] + 1>> \in Spare(m)
    <3>1. attempt[w] + 1 \in 1 .. MaxRetries /\ attempt[w] < attempt[w] + 1 BY <1>0, ConstantsAssumption
    <3>2. QED BY <1>1, <3>1 DEF Spare
  <2>3. IsFiniteSet(Spare(m)) BY SpareFinite
  <2>4. Cardinality(Spare(m) \ {<<w, attempt[w] + 1>>}) = Cardinality(Spare(m)) - 1
    <3> DEFINE e == <<w, attempt[w] + 1>>
               S == Spare(m)
    <3>1. e \in S /\ IsFiniteSet(S) BY <2>2, <2>3
    <3> HIDE DEF e, S
    <3>2. Cardinality(S \ {e}) = Cardinality(S) - 1 BY <3>1, FS_RemoveElement
    <3>3. QED BY <3>2 DEF e, S
  <2>5. QED BY <1>1, <2>1, <2>4
<1>2. CASE m # wrow[w]
  <2>1. ASSUME NEW v \in Workers, NEW k \in 1 .. MaxRetries
        PROVE  (wrow'[v] = m /\ attempt'[v] < k) = (wrow[v] = m /\ attempt[v] < k)
    BY <1>0, <1>2
  <2>2. Spare(m)' = Spare(m) BY <2>1 DEF Spare
  <2>3. QED BY <1>2, <2>2
<1>3. QED BY <1>1, <1>2

\* A message taken brings maxRetries attempts.
LEMMA SpareTakes ==
    ASSUME WorkerTypes, NEW w \in Workers, NEW l \in Requests, wrow' = [wrow EXCEPT ![w] = l],
           wrow[w] = None, UNCHANGED attempt, NEW m \in Requests
    PROVE  Cardinality(Spare(m)') <= Cardinality(Spare(m)) + (IF m = l THEN MaxRetries ELSE 0)
<1> DEFINE New == {w} \X (1 .. MaxRetries)
<1>1. IsFiniteSet(New) /\ Cardinality(New) = MaxRetries
  <2>1. IsFiniteSet(1 .. MaxRetries) /\ Cardinality(1 .. MaxRetries) = MaxRetries
    BY FS_Interval, ConstantsAssumption
  <2>2. IsFiniteSet({w}) /\ Cardinality({w}) = 1 BY FS_Singleton
  <2>3. IsFiniteSet(New) /\ Cardinality(New) = 1 * MaxRetries BY <2>1, <2>2, FS_Product
  <2>4. QED BY <2>3, ConstantsAssumption
<1>2. \A v \in Workers : wrow'[v] = (IF v = w THEN l ELSE wrow[v]) BY DEF WorkerTypes
<1>3. CASE m = l
  <2>1. Spare(m)' \in SUBSET (Spare(m) \union New) BY <1>2 DEF Spare
  <2>2. /\ IsFiniteSet(Spare(m) \union New)
        /\ Cardinality(Spare(m) \union New) = Cardinality(Spare(m)) + Cardinality(New) - Cardinality(Spare(m) \cap New)
    BY <1>1, SpareFinite, FS_Union
  <2>3. Cardinality(Spare(m) \cap New) \in Nat BY <1>1, SpareFinite, FS_Intersection, FS_CardinalityType
  <2>4. Cardinality(Spare(m)') <= Cardinality(Spare(m) \union New) BY <2>1, <2>2, FS_Subset
  <2>5. Cardinality(Spare(m)') \in Nat /\ Cardinality(Spare(m)) \in Nat BY SpareFinite
  <2> HIDE DEF New
  <2>6. QED BY <1>1, <1>3, <2>2, <2>3, <2>4, <2>5, ConstantsAssumption
<1>4. CASE m # l
  <2>1. Spare(m)' = Spare(m) BY <1>2, <1>4, NoneIsNoRequest DEF Spare
  <2>2. QED BY <1>4, <2>1, SpareFinite
<1>5. QED BY <1>3, <1>4

\* A message that leaves takes its attempts along.
LEMMA SpareLeaves ==
    ASSUME WorkerTypes, NEW w \in Workers, wrow' = [wrow EXCEPT ![w] = None],
           attempt' = [attempt EXCEPT ![w] = 0], NEW m \in Requests
    PROVE  Cardinality(Spare(m)') <= Cardinality(Spare(m))
<1>1. \A v \in Workers : wrow'[v] = m => wrow[v] = m /\ attempt'[v] = attempt[v]
  BY NoneIsNoRequest DEF WorkerTypes
<1>2. Spare(m)' \in SUBSET Spare(m) BY <1>1 DEF Spare
<1>3. QED BY <1>2, SpareFinite, FS_Subset

LEMMA InitPark == Init => ParkInv
<1> SUFFICES ASSUME Init PROVE ParkInv
  OBVIOUS
<1>1. MessageInv BY InitMessages
<1>2. Late BY NoneIsNoRequest DEF Init, Late
<1>3. ASSUME NEW l \in Requests PROVE runs[l] + Cardinality(Spare(l)) = 0
  <2>1. Spare(l) = {} BY NoneIsNoRequest DEF Init, Spare
  <2>2. QED BY <2>1, FS_EmptySet DEF Init
<1>4. ASSUME NEW l \in Requests PROVE 0 <= MaxRetries * (gone[l] + incidents + Held(l))
  <2>1. Held(l) \in Nat BY HeldIsNat
  <2>2. gone[l] + incidents + Held(l) \in Nat BY <2>1 DEF Init
  <2>3. \A a, b \in Nat : 0 <= a * b OBVIOUS
  <2>4. QED BY <2>2, <2>3, ConstantsAssumption
<1>5. QED BY <1>1, <1>2, <1>3, <1>4 DEF ParkInv, Paid

\* The budget grows by maxRetries with each message, and never shrinks.
LEMMA Budget ==
    \A a, b \in Nat : /\ MaxRetries * a \in Nat
                      /\ MaxRetries * (a + 1) = MaxRetries * a + MaxRetries
                      /\ a <= b => MaxRetries * a <= MaxRetries * b
<1>1. \A n, a \in Nat : n * a \in Nat /\ n * (a + 1) = n * a + n OBVIOUS
<1>2. \A n, a, b \in Nat : a <= b => n * a <= n * b
  <2>1. ASSUME NEW n \in Nat, NEW a \in Nat, NEW b \in Nat, a <= b PROVE n * a <= n * b
    <3>1. PICK c \in Nat : b = a + c
      <4>1. b - a \in Nat /\ b = a + (b - a) BY <2>1
      <4>2. QED BY <4>1
    <3>2. n * (a + c) = n * a + n * c OBVIOUS
    <3>3. n * a \in Nat /\ n * c \in Nat OBVIOUS
    <3>4. QED BY <3>1, <3>2, <3>3
  <2>2. QED BY <2>1
<1>3. MaxRetries \in Nat BY ConstantsAssumption
<1>4. QED BY <1>1, <1>2, <1>3

\* A step that starts no run keeps what is paid for, if the spare runs grow no more than
\* the budget does.
LEMMA StillPaid ==
    ASSUME ParkInv, MessageTypes', NEW m \in Requests, runs'[m] = runs[m],
           Held(m)' \in Nat,
           \/ /\ Cardinality(Spare(m)') <= Cardinality(Spare(m))
              /\ gone[m] + incidents + Held(m) <= gone'[m] + incidents' + Held(m)'
           \/ /\ Cardinality(Spare(m)') <= Cardinality(Spare(m)) + MaxRetries
              /\ gone[m] + incidents + Held(m) + 1 = gone'[m] + incidents' + Held(m)'
    PROVE  runs'[m] + Cardinality(Spare(m)') <= MaxRetries * (gone'[m] + incidents' + Held(m)')
<1> DEFINE a == gone[m] + incidents + Held(m)
           b == gone'[m] + incidents' + Held(m)'
<1>0. MessageTypes BY TypeParts DEF ParkInv, MessageInv, TypeInv
<1>1. a \in Nat /\ b \in Nat
  <2>1. Held(m) \in Nat BY HeldIsNat
  <2>2. gone[m] \in Nat /\ incidents \in Nat /\ gone'[m] \in Nat /\ incidents' \in Nat
    BY <1>0, ConstantsAssumption DEF MessageTypes
  <2>3. QED BY <2>1, <2>2
<1>2. runs[m] + Cardinality(Spare(m)) <= MaxRetries * a BY DEF ParkInv, Paid
<1>3. /\ runs[m] \in Nat /\ Cardinality(Spare(m)) \in Nat /\ Cardinality(Spare(m)') \in Nat
      /\ MaxRetries \in Nat
  BY <1>0, SpareFinite, ConstantsAssumption DEF MessageTypes
<1>4. MaxRetries * a \in Nat /\ MaxRetries * b \in Nat /\ MaxRetries * (a + 1) = MaxRetries * a + MaxRetries
      /\ (a <= b => MaxRetries * a <= MaxRetries * b)
  <2> HIDE DEF a, b
  <2>1. QED BY <1>1, Budget
<1>5. \/ Cardinality(Spare(m)') <= Cardinality(Spare(m)) /\ a <= b
      \/ Cardinality(Spare(m)') <= Cardinality(Spare(m)) + MaxRetries /\ b = a + 1
  OBVIOUS
<1>6. runs'[m] + Cardinality(Spare(m)') <= MaxRetries * b
  <2> HIDE DEF a, b
  <2>1. CASE Cardinality(Spare(m)') <= Cardinality(Spare(m)) /\ a <= b BY <1>2, <1>3, <1>4, <2>1
  <2>2. CASE Cardinality(Spare(m)') <= Cardinality(Spare(m)) + MaxRetries /\ b = a + 1
    <3>1. MaxRetries * b = MaxRetries * a + MaxRetries BY <1>4, <2>2
    <3>2. QED BY <1>2, <1>3, <1>4, <2>2, <3>1
  <2>3. QED BY <1>5, <2>1, <2>2
<1>7. QED BY <1>6

\* A step that starts no run and moves no message between workers.
LEMMA NothingSpent ==
    ASSUME ParkInv, MessageTypes', UNCHANGED <<runs, wrow, attempt, consumerUp>>,
           \A m \in Requests : gone[m] <= gone'[m],
           incidents <= incidents'
    PROVE  Paid'
<1>0. MessageTypes BY TypeParts DEF ParkInv, MessageInv, TypeInv
<1>1. ASSUME NEW m \in Requests
      PROVE  runs'[m] + Cardinality(Spare(m)') <= MaxRetries * (gone'[m] + incidents' + Held(m)')
  <2>1. Spare(m)' = Spare(m) /\ Held(m)' = Held(m) BY DEF Spare, Held, Holds, Row
  <2>2. Held(m) \in Nat BY HeldIsNat
  <2>3. gone[m] \in Nat /\ incidents \in Nat /\ gone'[m] \in Nat /\ incidents' \in Nat
    BY <1>0, ConstantsAssumption DEF MessageTypes
  <2>4. gone[m] + incidents + Held(m) <= gone'[m] + incidents' + Held(m)' BY <2>1, <2>2, <2>3
  <2>5. Cardinality(Spare(m)') <= Cardinality(Spare(m)) BY <2>1, SpareFinite
  <2>6. QED BY <2>1, <2>2, <2>4, <2>5, StillPaid
<1>2. QED BY <1>1 DEF Paid

\* The steps of the service keep what is paid for: a message it loses costs an incident.
LEMMA ApiPark ==
    ASSUME ParkInv, TypeInv', NEW r \in Requests,
           Receive(r) \/ ApiStep(r) \/ ApiCrash \/ \E l \in Requests : Replay(r, l)
    PROVE  Late' /\ Paid'
<1> USE DEF apiVars, logVars, brokerVars, channelVars, workerVars, paymentVars, historyVars
<1>0. MessageTypes /\ WorkerTypes /\ Places BY TypeParts DEF ParkInv, MessageInv, TypeInv
<1>1. MessageTypes' BY DEF TypeInv, TypeOK, MessageTypes, Fates
<1>2. UNCHANGED <<wpc, wrow, attempt, runs, dlq, consumerUp>>
  BY DEF Receive, ApiStep, ApiCrash, Replay, Dispatch, DispatchThrows, ApiMarkProcessed, ApiMarkThrows,
     ApiMarkFailed
<1>3. Late' BY <1>2 DEF ParkInv, Late
<1>4. \A m \in Requests : gone[m] <= gone'[m]
  <2>1. CASE Dispatch(r)
    <3>1. reqRow[r] \in Requests BY <1>0, <2>1 DEF Dispatch, ReqMove, Places
    <3>2. gone' = gone \/ gone' = [gone EXCEPT ![reqRow[r]] = gone[reqRow[r]] + 1] BY <2>1 DEF Dispatch
    <3>3. QED BY <1>0, <3>1, <3>2 DEF MessageTypes
  <2>2. CASE ~Dispatch(r)
    <3>1. gone' = gone
      BY <2>2 DEF Receive, ApiStep, ApiCrash, Replay, DispatchThrows, ApiMarkProcessed, ApiMarkThrows,
         ApiMarkFailed
    <3>2. QED BY <1>0, <3>1 DEF MessageTypes
  <2>3. QED BY <2>1, <2>2
<1>5. incidents <= incidents'
  <2>1. Incident \/ UNCHANGED incidents
    BY DEF Receive, ApiStep, ApiCrash, Replay, Dispatch, DispatchThrows, ApiMarkProcessed, ApiMarkThrows,
       ApiMarkFailed
  <2>2. QED BY <1>0, <2>1, IncidentsGrow
<1>6. Paid' BY <1>1, <1>2, <1>4, <1>5, NothingSpent
<1>7. QED BY <1>3, <1>6

\* The steps of a worker.
LEMMA WorkerPark ==
    ASSUME ParkInv, TypeInv', NEW w \in Workers,
           WorkerStep(w) \/ WorkerCrash(w) \/ ChannelCloses(w) \/ ConsumerCloses(w)
    PROVE  Late' /\ Paid'
<1>0. TypeInv /\ MessageTypes /\ WorkerTypes /\ Places BY TypeParts DEF ParkInv, MessageInv, TypeInv
<1>1. MessageTypes' BY DEF TypeInv, TypeOK, MessageTypes, Fates
<1>2. /\ Incident \/ UNCHANGED incidents
      /\ \A v \in Workers \ {w} : consumerUp'[v] = consumerUp[v]
      /\ \/ \E l \in Requests : Take(w, l)
         \/ Incident /\ UNCHANGED <<wpc, wrow, attempt, runs, gone, dlq>>
         \/ wrow[w] \in Requests /\ wpc[w] # "idle"
            /\ \/ StartRun(w) /\ attempt[w] < MaxRetries
                  /\ UNCHANGED <<wrow, gone, dlq, consumerUp>>
               \/ \E p \in WorkerPlaces : Moves(w, p)
               \/ Parks(w)
               \/ Leaves(w)
  BY <1>0, WorkerKinds
<1>3. incidents \in Nat /\ incidents' \in Nat /\ incidents <= incidents'
  BY <1>0, <1>2, IncidentsGrow
<1>a. \A m \in Requests : Held(m)' \in Nat BY HeldIsNat
<1>b. \A m \in Requests : gone[m] \in Nat /\ runs[m] \in Nat /\ dlq[m] \in Nat BY <1>0 DEF MessageTypes
<1>c. \A v \in Workers : attempt[v] \in Nat BY <1>0 DEF WorkerTypes
<1>4. ASSUME NEW l \in Requests, Take(w, l) PROVE Late' /\ Paid'
  <2>1. wrow[w] = None /\ attempt[w] = 0 BY <1>0, <1>4 DEF Take, At, Places
  <2>2. /\ wrow' = [wrow EXCEPT ![w] = l] /\ wpc' = [wpc EXCEPT ![w] = "check"]
        /\ consumerUp[w] /\ UNCHANGED <<attempt, runs, gone, dlq, incidents, consumerUp>>
    BY <1>4 DEF Take, Goto, channelVars, historyVars
  <2>3. Late'
    <3>1. ASSUME NEW v \in Workers
          PROVE  /\ wrow'[v] \in Requests => runs[wrow'[v]] >= attempt[v]
                 /\ wpc'[v] \in {"exhausted", "dlq"} => attempt[v] >= MaxRetries
      <4>1. CASE v = w BY <1>0, <1>b, <2>1, <2>2, <4>1 DEF WorkerTypes
      <4>2. CASE v # w BY <1>0, <2>2, <4>2 DEF WorkerTypes, ParkInv, Late
      <4>3. QED BY <4>1, <4>2
    <3>2. QED BY <2>2, <3>1 DEF ParkInv, Late
  <2>4. ASSUME NEW m \in Requests
        PROVE  runs'[m] + Cardinality(Spare(m)') <= MaxRetries * (gone'[m] + incidents' + Held(m)')
    <3>1. Held(m)' = (IF m = l THEN Held(m) + 1 ELSE Held(m)) BY <1>0, <2>1, <2>2, HeldTakes
    <3>2. Cardinality(Spare(m)') <= Cardinality(Spare(m)) + (IF m = l THEN MaxRetries ELSE 0)
      BY <1>0, <2>1, <2>2, SpareTakes
    <3>3. Held(m) \in Nat /\ Held(m)' \in Nat /\ Cardinality(Spare(m)) \in Nat
      BY <1>a, HeldIsNat, SpareFinite
    <3>4. CASE m = l
      <4>1. gone[m] + incidents + Held(m) + 1 = gone'[m] + incidents' + Held(m)'
        BY <1>3, <1>b, <2>2, <3>1, <3>3, <3>4
      <4>2. Cardinality(Spare(m)') <= Cardinality(Spare(m)) + MaxRetries BY <3>2, <3>4
      <4>3. QED BY <1>1, <2>2, <3>3, <4>1, <4>2, StillPaid
    <3>5. CASE m # l
      <4>1. gone[m] + incidents + Held(m) <= gone'[m] + incidents' + Held(m)'
        BY <1>3, <1>b, <2>2, <3>1, <3>3, <3>5
      <4>2. Cardinality(Spare(m)') <= Cardinality(Spare(m)) BY <3>2, <3>3, <3>5
      <4>3. QED BY <1>1, <2>2, <3>3, <4>1, <4>2, StillPaid
    <3>6. QED BY <3>4, <3>5
  <2>5. QED BY <2>3, <2>4 DEF Paid
<1>5. CASE Incident /\ UNCHANGED <<wpc, wrow, attempt, runs, gone, dlq>>
  <2>1. Late' BY <1>5 DEF ParkInv, Late
  <2>2. ASSUME NEW m \in Requests
        PROVE  runs'[m] + Cardinality(Spare(m)') <= MaxRetries * (gone'[m] + incidents' + Held(m)')
    <3>1. Held(m) \in Nat /\ Held(m)' \in Nat BY HeldIsNat
    <3>2. Held(m) <= Held(m)' + 1 BY <1>2, <1>5, HeldDrops
    <3>3. incidents' = incidents + 1 BY <1>5 DEF Incident
    <3>4. gone[m] + incidents + Held(m) <= gone'[m] + incidents' + Held(m)'
      BY <1>3, <1>5, <1>b, <3>1, <3>2, <3>3
    <3>5. Cardinality(Spare(m)') <= Cardinality(Spare(m))
      <4>1. Spare(m)' = Spare(m) BY <1>5 DEF Spare
      <4>2. QED BY <4>1, SpareFinite
    <3>6. QED BY <1>1, <1>5, <3>1, <3>4, <3>5, StillPaid
  <2>3. QED BY <2>1, <2>2 DEF Paid
<1>6. CASE /\ wrow[w] \in Requests /\ StartRun(w) /\ attempt[w] < MaxRetries
           /\ UNCHANGED <<wrow, gone, dlq, consumerUp>>
  <2>1. \A v \in Workers : /\ attempt'[v] = (IF v = w THEN attempt[v] + 1 ELSE attempt[v])
                           /\ wpc'[v] = (IF v = w THEN "handle" ELSE wpc[v])
    BY <1>0, <1>6 DEF StartRun, Goto, WorkerTypes
  <2>2. \A m \in Requests : runs'[m] = (IF m = wrow[w] THEN runs[m] + 1 ELSE runs[m])
    BY <1>0, <1>6 DEF StartRun, Row, MessageTypes
  <2>3. Late'
    <3>1. ASSUME NEW v \in Workers
          PROVE  /\ wrow[v] \in Requests => runs'[wrow[v]] >= attempt'[v]
                 /\ wpc'[v] \in {"exhausted", "dlq"} => attempt'[v] >= MaxRetries
      <4>1. wrow[v] \in Requests => runs[wrow[v]] >= attempt[v] BY DEF ParkInv, Late
      <4>2. wpc[v] \in {"exhausted", "dlq"} => attempt[v] >= MaxRetries BY DEF ParkInv, Late
      <4>3. wrow[v] \in Requests => runs'[wrow[v]] >= attempt'[v] BY <1>b, <1>c, <2>1, <2>2, <4>1
      <4>4. wpc'[v] \in {"exhausted", "dlq"} => attempt'[v] >= MaxRetries
        <5>1. CASE v = w BY <2>1, <5>1
        <5>2. CASE v # w BY <2>1, <4>2, <5>2
        <5>3. QED BY <5>1, <5>2
      <4>5. QED BY <4>3, <4>4
    <3>2. ASSUME NEW m \in Requests, dlq[m] > 0 PROVE runs'[m] >= MaxRetries
      <4>1. runs[m] >= MaxRetries BY <3>2 DEF ParkInv, Late
      <4>2. QED BY <1>b, <2>2, <4>1, ConstantsAssumption
    <3>3. QED BY <1>6, <3>1, <3>2 DEF Late
  <2>4. ASSUME NEW m \in Requests
        PROVE  runs'[m] + Cardinality(Spare(m)') <= MaxRetries * (gone'[m] + incidents' + Held(m)')
    <3>1. Cardinality(Spare(m)') = IF m = wrow[w] THEN Cardinality(Spare(m)) - 1 ELSE Cardinality(Spare(m))
      BY <1>0, <1>6, SpareRuns
    <3>2. Held(m)' = Held(m) /\ Held(m) \in Nat BY <1>6, HeldIsNat DEF Held, Holds, Row
    <3>3. runs'[m] + Cardinality(Spare(m)') = runs[m] + Cardinality(Spare(m))
      BY <1>b, <2>2, <3>1, SpareFinite
    <3>4. runs[m] + Cardinality(Spare(m)) <= MaxRetries * (gone[m] + incidents + Held(m))
      BY DEF ParkInv, Paid
    <3>5. MaxRetries * (gone[m] + incidents + Held(m)) <= MaxRetries * (gone'[m] + incidents' + Held(m)')
      <4>1. gone[m] + incidents + Held(m) \in Nat /\ gone'[m] + incidents' + Held(m)' \in Nat
            /\ gone[m] + incidents + Held(m) <= gone'[m] + incidents' + Held(m)'
        BY <1>3, <1>6, <1>b, <3>2
      <4>2. QED BY <4>1, Budget
    <3>6. /\ MaxRetries * (gone[m] + incidents + Held(m)) \in Nat
          /\ MaxRetries * (gone'[m] + incidents' + Held(m)') \in Nat
      <4>1. gone[m] + incidents + Held(m) \in Nat /\ gone'[m] + incidents' + Held(m)' \in Nat
        BY <1>3, <1>6, <1>b, <3>2
      <4>2. QED BY <4>1, Budget
    <3>7. runs[m] + Cardinality(Spare(m)) \in Nat BY <1>b, SpareFinite
    <3> HIDE DEF Held
    <3>8. QED BY <3>3, <3>4, <3>5, <3>6, <3>7
  <2>5. QED BY <2>3, <2>4 DEF Paid
<1>7. ASSUME NEW p \in WorkerPlaces, Moves(w, p) PROVE Late' /\ Paid'
  <2>1. \A v \in Workers : wpc'[v] = (IF v = w THEN p ELSE wpc[v]) BY <1>0, <1>7 DEF Moves, Goto, WorkerTypes
  <2>2. UNCHANGED <<wrow, attempt, runs, gone, dlq, consumerUp>> BY <1>7 DEF Moves
  <2>3. ASSUME NEW v \in Workers, wpc'[v] \in {"exhausted", "dlq"} PROVE attempt[v] >= MaxRetries
    <3>1. CASE v = w
      <4>1. p = "exhausted" \/ wpc[w] = "exhausted" BY <1>7, <2>1, <2>3, <3>1 DEF Moves
      <4>2. QED BY <1>7, <3>1, <4>1 DEF Moves, ParkInv, Late
    <3>2. CASE v # w BY <2>1, <2>3, <3>2 DEF ParkInv, Late
    <3>3. QED BY <3>1, <3>2
  <2>4. Late' BY <2>2, <2>3 DEF ParkInv, Late
  <2>5. Paid' BY <1>1, <1>3, <1>b, <2>2, NothingSpent
  <2>6. QED BY <2>4, <2>5
<1>8. CASE Parks(w) /\ wrow[w] \in Requests
  <2>1. \A v \in Workers : wpc'[v] = (IF v = w THEN "ack" ELSE wpc[v]) BY <1>0, <1>8 DEF Parks, Goto, WorkerTypes
  <2>2. UNCHANGED <<wrow, attempt, runs, gone, consumerUp>> BY <1>8 DEF Parks
  <2>3. runs[wrow[w]] >= MaxRetries
    <3>1. attempt[w] >= MaxRetries /\ runs[wrow[w]] >= attempt[w] BY <1>8 DEF Parks, ParkInv, Late
    <3>2. QED BY <1>8, <1>b, <1>c, <3>1, ConstantsAssumption
  <2>4. \A m \in Requests : m # wrow[w] => dlq'[m] = dlq[m] BY <1>0, <1>8 DEF Parks, Row, MessageTypes
  <2>5. ASSUME NEW m \in Requests, dlq'[m] > 0 PROVE runs[m] >= MaxRetries
    <3>1. CASE m = wrow[w] BY <2>3, <3>1
    <3>2. CASE m # wrow[w] BY <2>4, <2>5, <3>2 DEF ParkInv, Late
    <3>3. QED BY <3>1, <3>2
  <2>6. Late' BY <2>1, <2>2, <2>5 DEF ParkInv, Late
  <2>7. Paid' BY <1>1, <1>3, <1>b, <2>2, NothingSpent
  <2>8. QED BY <2>6, <2>7
<1>9. CASE Leaves(w) /\ wrow[w] \in Requests
  <2>1. /\ wrow' = [wrow EXCEPT ![w] = None] /\ attempt' = [attempt EXCEPT ![w] = 0]
        /\ UNCHANGED <<runs, dlq>>
    BY <1>9 DEF Leaves
  <2>2. \A v \in Workers : /\ wpc'[v] = (IF v = w THEN "idle" ELSE wpc[v])
                           /\ wrow'[v] = (IF v = w THEN None ELSE wrow[v])
                           /\ attempt'[v] = (IF v = w THEN 0 ELSE attempt[v])
    BY <1>0, <1>9 DEF Leaves, Goto, WorkerTypes
  <2>3. Late' BY <2>1, <2>2, NoneIsNoRequest DEF ParkInv, Late
  <2>4. ASSUME NEW m \in Requests
        PROVE  runs'[m] + Cardinality(Spare(m)') <= MaxRetries * (gone'[m] + incidents' + Held(m)')
    <3>1. /\ Held(m) = IF Holds(w, m) THEN Held(m)' + 1 ELSE Held(m)'
          /\ Holds(w, m) => m = wrow[w] /\ consumerUp[w]
      <4>1. \A v \in Workers \ {w} : wrow'[v] = wrow[v] /\ consumerUp'[v] = consumerUp[v] BY <1>2, <2>2
      <4>2. ~Holds(w, m)' BY <2>2, NoneIsNoRequest DEF Holds, Row
      <4>3. QED BY <4>1, <4>2, HeldDrops DEF Holds, Row
    <3>2. Cardinality(Spare(m)') <= Cardinality(Spare(m)) BY <1>0, <2>1, SpareLeaves
    <3>3. gone'[m] \in Nat /\ Held(m) \in Nat /\ Held(m)' \in Nat BY <1>1, <1>a, HeldIsNat DEF MessageTypes
    <3>4. gone[m] + incidents + Held(m) <= gone'[m] + incidents' + Held(m)'
      <4>1. CASE gone' = [gone EXCEPT ![Row(w)] = @ + 1]
        <5>1. gone'[m] = IF m = wrow[w] THEN gone[m] + 1 ELSE gone[m]
          BY <1>0, <4>1 DEF Row, MessageTypes
        <5>2. QED BY <1>3, <1>b, <3>1, <3>3, <5>1
      <4>2. CASE Incident /\ UNCHANGED gone
        <5>1. incidents' = incidents + 1 /\ gone'[m] = gone[m] BY <4>2 DEF Incident
        <5>2. QED BY <1>3, <1>b, <3>1, <3>3, <5>1
      <4>3. CASE ~consumerUp[w] /\ UNCHANGED gone
        <5>1. Held(m) = Held(m)' /\ gone'[m] = gone[m] BY <3>1, <4>3
        <5>2. QED BY <1>3, <1>b, <3>3, <5>1
      <4>4. QED BY <1>9, <4>1, <4>2, <4>3 DEF Leaves
    <3>5. runs'[m] = runs[m] BY <2>1
    <3>6. QED BY <1>1, <3>2, <3>3, <3>4, <3>5, StillPaid
  <2>5. QED BY <2>3, <2>4 DEF Paid
<1>10. QED BY <1>2, <1>4, <1>5, <1>6, <1>7, <1>8, <1>9

LEMMA NextPark == ParkInv /\ [Next]_vars => ParkInv'
<1> SUFFICES ASSUME ParkInv, [Next]_vars PROVE ParkInv'
  OBVIOUS
<1>1. MessageInv' BY NextMessages DEF ParkInv
<1>2. TypeInv' BY <1>1 DEF MessageInv
<1>3. CASE UNCHANGED vars
  BY <1>1, <1>3 DEF ParkInv, Late, Paid, Spare, Held, Holds, Row, vars, apiVars, logVars, brokerVars,
     channelVars, workerVars, paymentVars, historyVars
<1>4. CASE \E r \in Requests : Receive(r) \/ ApiStep(r) \/ \E l \in Requests : Replay(r, l)
  BY <1>1, <1>2, <1>4, ApiPark DEF ParkInv
<1>5. CASE ApiCrash
  <2>1. CASE Requests = {}
    BY <1>1, <1>5, <2>1 DEF ParkInv, Late, Paid, ApiCrash, channelVars, workerVars
  <2>2. CASE Requests # {}
    BY <1>1, <1>2, <1>5, <2>2, ApiPark DEF ParkInv
  <2>3. QED BY <2>1, <2>2
<1>6. CASE \E w \in Workers : WorkerStep(w) \/ WorkerCrash(w) \/ ChannelCloses(w) \/ ConsumerCloses(w)
  BY <1>1, <1>2, <1>6, WorkerPark DEF ParkInv
<1>7. QED BY <1>3, <1>4, <1>5, <1>6 DEF Next

LEMMA ParkInvParks == ParkInv => ParkedAfterRetries
<1> SUFFICES ASSUME ParkInv, NEW l \in Requests
             PROVE  /\ dlq[l] > 0 => runs[l] >= MaxRetries
                    /\ runs[l] <= MaxRetries * (sent[l] + incidents)
  BY DEF ParkedAfterRetries
<1>0. MessageTypes BY TypeParts DEF ParkInv, MessageInv, TypeInv
<1>1. dlq[l] > 0 => runs[l] >= MaxRetries BY DEF ParkInv, Late
<1>2. sent[l] = queue[l] + Held(l) + gone[l] BY DEF ParkInv, MessageInv, MessagesAccountedFor
<1>3. /\ queue[l] \in Nat /\ gone[l] \in Nat /\ runs[l] \in Nat /\ sent[l] \in Nat /\ incidents \in Nat
      /\ Held(l) \in Nat /\ Cardinality(Spare(l)) \in Nat
  BY <1>0, HeldIsNat, SpareFinite, ConstantsAssumption DEF MessageTypes
<1>4. runs[l] + Cardinality(Spare(l)) <= MaxRetries * (gone[l] + incidents + Held(l))
  BY DEF ParkInv, Paid
<1>5. /\ gone[l] + incidents + Held(l) \in Nat /\ sent[l] + incidents \in Nat
      /\ gone[l] + incidents + Held(l) <= sent[l] + incidents
  BY <1>2, <1>3
<1>6. /\ MaxRetries * (gone[l] + incidents + Held(l)) \in Nat /\ MaxRetries * (sent[l] + incidents) \in Nat
      /\ MaxRetries * (gone[l] + incidents + Held(l)) <= MaxRetries * (sent[l] + incidents)
  BY <1>5, Budget
<1> HIDE DEF Held
<1>7. runs[l] <= MaxRetries * (sent[l] + incidents) BY <1>3, <1>4, <1>6
<1>8. QED BY <1>1, <1>7

\* A message is parked only when its row's handler has run maxRetries times, and the handler
\* runs at most maxRetries times for each message sent and each incident.
THEOREM ParkedNotEarly == Spec => []ParkedAfterRetries
BY InitPark, NextPark, ParkInvParks, PTL DEF Spec

-----------------------------------------------------------------------------
(* A completed payment is announced once *)

\* What is queued, held or asked for is a row that exists, and the request of a row's name
\* has been used: no row is written over.
Rows ==
    /\ \A l \in Requests : log[l] # "absent" => reqPc[l] # "unused"
    /\ \A r \in Requests : reqPc[r] \in {"dispatch", "mark", "fail"} => log[reqRow[r]] # "absent"
    /\ \A l \in Requests : queue[l] > 0 => log[l] # "absent"
    /\ \A w \in Workers : wrow[w] \in Requests => log[wrow[w]] # "absent"

RowInv == TypeInv /\ Rows

LEMMA ApiRows ==
    ASSUME RowInv, NEW r \in Requests, Receive(r) \/ ApiStep(r) \/ \E l \in Requests : Replay(r, l)
    PROVE  Rows'
<1> USE DEF apiVars, logVars, brokerVars, channelVars, workerVars, paymentVars, historyVars
<1>0. ApiTypes /\ MessageTypes /\ WorkerTypes /\ Places BY TypeParts DEF RowInv, TypeInv
<1>1. CASE Receive(r) BY <1>0, <1>1 DEF Receive, ReqMove, RowInv, Rows, ApiTypes
<1>2. CASE \E l \in Requests : Replay(r, l) BY <1>0, <1>2 DEF Replay, ReqMove, RowInv, Rows, ApiTypes
<1>3. CASE Dispatch(r)
  <2>1. reqRow[r] \in Requests /\ log[reqRow[r]] # "absent"
    BY <1>0, <1>3 DEF Dispatch, ReqMove, RowInv, Rows, Places
  <2>2. \A l \in Requests : queue'[l] = queue[l] \/ l = reqRow[r] BY <1>0, <1>3 DEF Dispatch, MessageTypes
  <2>3. UNCHANGED <<log, reqRow, wrow>> /\ reqPc' = [reqPc EXCEPT ![r] = "mark"] /\ reqPc[r] = "dispatch"
    BY <1>3 DEF Dispatch, ReqMove
  <2>4. QED BY <1>0, <2>1, <2>2, <2>3 DEF RowInv, Rows, ApiTypes
<1>4. CASE DispatchThrows(r) \/ ApiMarkThrows(r)
  BY <1>0, <1>4 DEF DispatchThrows, ApiMarkThrows, ReqMove, RowInv, Rows, ApiTypes
<1>5. CASE ApiMarkProcessed(r) \/ ApiMarkFailed(r)
  <2>1. reqRow[r] \in Requests /\ log[reqRow[r]] # "absent"
    BY <1>0, <1>5 DEF ApiMarkProcessed, ApiMarkFailed, ReqMove, RowInv, Rows, Places
  <2>2. UNCHANGED <<queue, reqRow, wrow>> /\ reqPc' = [reqPc EXCEPT ![r] = "done"] /\ reqPc[r] # "unused"
    BY <1>5 DEF ApiMarkProcessed, ApiMarkFailed, ReqMove
  <2>3. \A l \in Requests : log[l] # "absent" <=> log'[l] # "absent"
    BY <1>0, <1>5, <2>1 DEF ApiMarkProcessed, ApiMarkFailed, ApiTypes
  <2>4. ASSUME NEW q \in Requests, reqPc'[q] \in {"dispatch", "mark", "fail"} PROVE log'[reqRow[q]] # "absent"
    <3>1. reqPc[q] \in {"dispatch", "mark", "fail"} BY <1>0, <2>2, <2>4 DEF ApiTypes
    <3>2. reqRow[q] \in Requests /\ log[reqRow[q]] # "absent" BY <1>0, <3>1 DEF RowInv, Rows, Places
    <3>3. QED BY <2>3, <3>2
  <2>5. QED BY <1>0, <2>2, <2>3, <2>4 DEF RowInv, Rows, ApiTypes
<1>6. QED BY <1>1, <1>2, <1>3, <1>4, <1>5 DEF ApiStep

\* What every step of worker w leaves alone.
LEMMA WorkerLocal ==
    ASSUME TypeInv, NEW w \in Workers, WorkerStep(w) \/ WorkerCrash(w) \/ ChannelCloses(w) \/ ConsumerCloses(w)
    PROVE  /\ UNCHANGED <<kind, reqPc, reqRow>>
           /\ \A v \in Workers \ {w} : wpc'[v] = wpc[v] /\ wrow'[v] = wrow[v]
           /\ \/ \E l \in Requests : Take(w, l)
              \/ UNCHANGED log /\ (UNCHANGED wrow \/ wrow' = [wrow EXCEPT ![w] = None])
                 /\ \A m \in Requests : queue'[m] # queue[m] => wrow[w] = m
              \/ UNCHANGED <<wrow, queue>> /\ wrow[w] \in Requests
                 /\ \E s \in {"PROCESSED", "FAILED"} : log' = [log EXCEPT ![wrow[w]] = s]
<1> USE DEF apiVars, logVars, brokerVars, channelVars, workerVars, paymentVars, historyVars
<1>0. WorkerTypes /\ Places BY TypeParts DEF TypeInv
<1>1. UNCHANGED <<kind, reqPc, reqRow>>
  BY DEF WorkerStep, WorkerCrash, Take, Check, CheckThrows, Handle, Commit, PublishNotification, HandlerThrows,
     WorkerMarkProcessed, WorkerMarkFailed, SendToDlq, Ack, AckThrows, ChannelCloses,
     ConsumerCloses, Restart
<1>2. \E p : Goto(w, p) \/ UNCHANGED wpc
  BY DEF WorkerStep, WorkerCrash, Take, Check, CheckThrows, Handle, Commit, CommitCaptured, CommitFailed,
     CommitDispute, PublishNotification, HandlerThrows, WorkerMarkProcessed, WorkerMarkFailed, SendToDlq, Ack,
     AckThrows, ChannelCloses, ConsumerCloses, Restart, AttemptFails, StartRun, Release
<1>3. UNCHANGED wrow \/ \E l : wrow' = [wrow EXCEPT ![w] = l]
  BY DEF WorkerStep, WorkerCrash, Take, Check, CheckThrows, Handle, Commit, PublishNotification, HandlerThrows,
     WorkerMarkProcessed, WorkerMarkFailed, SendToDlq, Ack, AckThrows, ChannelCloses,
     ConsumerCloses, Restart, Release
<1>4. \A v \in Workers \ {w} : wpc'[v] = wpc[v] /\ wrow'[v] = wrow[v]
  BY <1>0, <1>2, <1>3 DEF Goto, WorkerTypes
<1>5. CASE WorkerMarkProcessed(w) \/ WorkerMarkFailed(w)
  <2>1. wrow[w] \in Requests
    BY <1>0, <1>5 DEF WorkerMarkProcessed, WorkerMarkFailed, At, Places, WorkerTypes
  <2>2. UNCHANGED <<wrow, queue>> BY <1>5 DEF WorkerMarkProcessed, WorkerMarkFailed
  <2>3. UNCHANGED log \/ \E s \in {"PROCESSED", "FAILED"} : log' = [log EXCEPT ![wrow[w]] = s]
    BY <1>5 DEF WorkerMarkProcessed, WorkerMarkFailed, Row
  <2>4. CASE UNCHANGED log
    <3>1. UNCHANGED wrow /\ UNCHANGED queue BY <2>2
    <3>2. QED BY <1>1, <1>4, <2>4, <3>1
  <2>5. CASE \E s \in {"PROCESSED", "FAILED"} : log' = [log EXCEPT ![wrow[w]] = s]
    BY <1>1, <1>4, <2>1, <2>2, <2>5
  <2>6. QED BY <2>3, <2>4, <2>5
<1>6. CASE Check(w) \/ CheckThrows(w) \/ Handle(w) \/ Commit(w) \/ PublishNotification(w) \/ HandlerThrows(w)
           \/ SendToDlq(w) \/ Ack(w) \/ ChannelCloses(w)
  <2>1. UNCHANGED <<log, queue>>
    BY <1>6 DEF Check, CheckThrows, Handle, Commit, PublishNotification, HandlerThrows, SendToDlq, Ack,
       ChannelCloses
  <2>2. UNCHANGED wrow \/ wrow' = [wrow EXCEPT ![w] = None]
    BY <1>6 DEF Check, CheckThrows, Handle, Commit, PublishNotification, HandlerThrows, SendToDlq, Ack,
       ChannelCloses, Release
  <2>3. UNCHANGED log /\ UNCHANGED queue BY <2>1
  <2>4. QED BY <1>1, <1>4, <2>2, <2>3
<1>7. CASE AckThrows(w) \/ WorkerCrash(w) \/ ConsumerCloses(w)
  <2>1. UNCHANGED log /\ (UNCHANGED wrow \/ wrow' = [wrow EXCEPT ![w] = None])
    BY <1>7 DEF AckThrows, WorkerCrash, ConsumerCloses, Restart
  <2>2. \A m \in Requests : queue'[m] # queue[m] => wrow[w] = m
    <3>1. UNCHANGED queue \/ Requeue(w) BY <1>7 DEF AckThrows, WorkerCrash, ConsumerCloses
    <3>2. QED BY <3>1 DEF Requeue, Holds, Row
  <2>3. QED BY <1>1, <1>4, <2>1, <2>2
<1>8. QED BY <1>1, <1>4, <1>5, <1>6, <1>7 DEF WorkerStep

LEMMA WorkerRows ==
    ASSUME RowInv, NEW w \in Workers, WorkerStep(w) \/ WorkerCrash(w) \/ ChannelCloses(w) \/ ConsumerCloses(w)
    PROVE  Rows'
<1>0. TypeInv /\ ApiTypes /\ MessageTypes /\ WorkerTypes /\ Places BY TypeParts DEF RowInv, TypeInv
<1>1. UNCHANGED <<reqPc, reqRow>> BY <1>0, WorkerLocal
<1>2. ASSUME NEW l \in Requests, Take(w, l) PROVE Rows'
  <2>1. queue[l] > 0 /\ wrow' = [wrow EXCEPT ![w] = l] /\ queue' = [queue EXCEPT ![l] = @ - 1] /\ UNCHANGED log
    BY <1>2 DEF Take, logVars
  <2>2. \A m \in Requests : queue'[m] > 0 => queue[m] > 0 BY <1>0, <2>1 DEF MessageTypes
  <2>3. log[l] # "absent" BY <2>1 DEF RowInv, Rows
  <2>4. \A v \in Workers : wrow'[v] = l \/ wrow'[v] = wrow[v] BY <1>0, <2>1 DEF WorkerTypes
  <2>5. QED BY <1>1, <2>1, <2>2, <2>3, <2>4 DEF RowInv, Rows
<1>3. CASE UNCHANGED log /\ (UNCHANGED wrow \/ wrow' = [wrow EXCEPT ![w] = None])
           /\ \A m \in Requests : queue'[m] # queue[m] => wrow[w] = m
  <2>1. \A v \in Workers : wrow'[v] \in Requests => wrow'[v] = wrow[v]
    BY <1>0, <1>3, NoneIsNoRequest DEF WorkerTypes
  <2>2. \A m \in Requests : queue'[m] > 0 => queue[m] > 0 \/ m = wrow[w]
    BY <1>0, <1>3 DEF MessageTypes
  <2>3. \A m \in Requests : queue'[m] > 0 => log[m] # "absent" BY <2>2 DEF RowInv, Rows
  <2>4. QED BY <1>1, <1>3, <2>1, <2>3 DEF RowInv, Rows
<1>4. ASSUME UNCHANGED <<wrow, queue>>, wrow[w] \in Requests, NEW s \in {"PROCESSED", "FAILED"},
             log' = [log EXCEPT ![wrow[w]] = s]
      PROVE  Rows'
  <2>1. \A l \in Requests : log'[l] # "absent" <=> log[l] # "absent" BY <1>0, <1>4 DEF RowInv, Rows, ApiTypes
  <2>2. \A r \in Requests : reqPc[r] \in {"dispatch", "mark", "fail"} => log'[reqRow[r]] # "absent"
    BY <1>0, <2>1 DEF RowInv, Rows, Places
  <2>3. QED BY <1>1, <1>4, <2>1, <2>2 DEF RowInv, Rows
<1>5. QED BY <1>0, <1>2, <1>3, <1>4, WorkerLocal

LEMMA NextRows == RowInv /\ [Next]_vars => RowInv'
<1> SUFFICES ASSUME RowInv, [Next]_vars PROVE RowInv'
  OBVIOUS
<1>1. TypeInv' BY NextType DEF RowInv
<1>2. CASE UNCHANGED vars
  BY <1>1, <1>2 DEF RowInv, Rows, vars, apiVars, logVars, brokerVars, workerVars
<1>3. CASE \E r \in Requests : Receive(r) \/ ApiStep(r) \/ \E l \in Requests : Replay(r, l)
  BY <1>1, <1>3, ApiRows DEF RowInv
<1>4. CASE ApiCrash
  BY <1>1, <1>4 DEF ApiCrash, RowInv, Rows, logVars, brokerVars, workerVars
<1>5. CASE \E w \in Workers : WorkerStep(w) \/ WorkerCrash(w) \/ ChannelCloses(w) \/ ConsumerCloses(w)
  BY <1>1, <1>5, WorkerRows DEF RowInv
<1>6. QED BY <1>2, <1>3, <1>4, <1>5 DEF Next

\* The workers about to tell the client that the payment is complete.
Tellers == {w \in Workers : wpc[w] = "publish" /\ kind[wrow[w]] = "captured"}

Outside == IF payment = "COMPLETED" THEN 0 ELSE 1

\* Every notice made or about to be made, and the capture that is still missing, are paid
\* for; a worker about to capture found the payment open, unless it has been overtaken.
Told ==
    /\ notified + Cardinality(Tellers) + Outside <= undone + doubled
    /\ \A w \in Workers :
        wpc[w] = "commit" /\ kind[wrow[w]] = "captured" /\ w \notin overtaken => payment # "COMPLETED"

NoticeInv == RowInv /\ Told

LEMMA InitNotice == Init => NoticeInv
<1> SUFFICES ASSUME Init PROVE NoticeInv
  OBVIOUS
<1>1. TypeInv BY InitType
<1>2. Rows BY NoneIsNoRequest DEF Init, Rows
<1>3. Tellers = {} BY DEF Init, Tellers
<1>4. Told BY <1>3, FS_EmptySet DEF Init, Told, Outside
<1>5. QED BY <1>1, <1>2, <1>4 DEF NoticeInv, RowInv

LEMMA TellersFinite ==
    /\ IsFiniteSet(Tellers) /\ Cardinality(Tellers) \in Nat
    /\ IsFiniteSet(Tellers') /\ Cardinality(Tellers') \in Nat
<1>1. Tellers \in SUBSET Workers /\ Tellers' \in SUBSET Workers BY DEF Tellers
<1>2. QED BY <1>1, FS_Subset, FS_CardinalityType, ConstantsAssumption

LEMMA FewerTellers == Tellers' \subseteq Tellers => Cardinality(Tellers') <= Cardinality(Tellers)
<1> SUFFICES ASSUME Tellers' \subseteq Tellers PROVE Cardinality(Tellers') <= Cardinality(Tellers)
  OBVIOUS
<1>1. Tellers' \in SUBSET Tellers OBVIOUS
<1>2. QED BY <1>1, TellersFinite, FS_Subset

\* A step that writes no payment and sends no notice, and brings no worker to a write or
\* to a notice.
LEMMA NoticeKept ==
    ASSUME NoticeInv, UNCHANGED <<payment, notified, undone, doubled, overtaken>>,
           \A w \in Workers : wpc'[w] \in {"publish", "commit"}
                => wpc'[w] = wpc[w] /\ kind'[wrow'[w]] = kind[wrow[w]]
    PROVE  Told'
<1>0. PaymentTypes BY TypeParts DEF NoticeInv, RowInv, TypeInv
<1>1. Tellers' \subseteq Tellers BY DEF Tellers
<1>2. Cardinality(Tellers') <= Cardinality(Tellers) BY <1>1, FewerTellers
<1>3. notified + Cardinality(Tellers) + Outside <= undone + doubled BY DEF NoticeInv, Told
<1>4. Outside' = Outside /\ Outside \in Nat BY DEF Outside
<1>5. notified' + Cardinality(Tellers') + Outside' <= undone' + doubled'
  BY <1>0, <1>2, <1>3, <1>4, TellersFinite DEF PaymentTypes
<1>6. QED BY <1>5 DEF NoticeInv, Told

LEMMA ApiNotice ==
    ASSUME NoticeInv, NEW r \in Requests, Receive(r) \/ ApiStep(r) \/ \E l \in Requests : Replay(r, l)
    PROVE  Told'
<1>0. TypeInv /\ ApiTypes /\ WorkerTypes /\ Places /\ Rows BY TypeParts DEF NoticeInv, RowInv, TypeInv
<1>1. UNCHANGED <<payment, notified, undone, doubled, overtaken, wpc, wrow>>
  BY DEF Receive, ApiStep, Replay, Dispatch, DispatchThrows, ApiMarkProcessed, ApiMarkThrows, ApiMarkFailed,
     paymentVars, workerVars
<1>2. kind' = kind \/ (reqPc[r] = "unused" /\ \E k \in Kinds : kind' = [kind EXCEPT ![r] = k])
  BY DEF Receive, ReqMove, ApiStep, Replay, Dispatch, DispatchThrows, ApiMarkProcessed, ApiMarkThrows,
     ApiMarkFailed, logVars
<1>3. ASSUME NEW w \in Workers, wpc'[w] \in {"publish", "commit"} PROVE kind'[wrow[w]] = kind[wrow[w]]
  <2>1. wrow[w] \in Requests BY <1>0, <1>1, <1>3 DEF Places, WorkerTypes
  <2>2. reqPc[wrow[w]] # "unused" BY <1>0, <2>1 DEF Rows
  <2>3. QED BY <1>0, <1>2, <2>1, <2>2 DEF ApiTypes
<1>4. QED BY <1>1, <1>3, NoticeKept

\* The steps of a worker.
LEMMA WorkerNotice ==
    ASSUME NoticeInv, NEW w \in Workers,
           WorkerStep(w) \/ WorkerCrash(w) \/ ChannelCloses(w) \/ ConsumerCloses(w)
    PROVE  Told'
<1>0. TypeInv /\ WorkerTypes /\ PaymentTypes /\ Places BY TypeParts DEF NoticeInv, RowInv, TypeInv
<1>1. UNCHANGED kind /\ \A v \in Workers \ {w} : wpc'[v] = wpc[v] /\ wrow'[v] = wrow[v]
  BY <1>0, WorkerLocal
<1>2. notified + Cardinality(Tellers) + Outside <= undone + doubled BY DEF NoticeInv, Told
<1>3. /\ Cardinality(Tellers) \in Nat /\ Cardinality(Tellers') \in Nat /\ Outside \in Nat
      /\ notified \in Nat /\ undone \in Nat /\ doubled \in Nat
  BY <1>0, TellersFinite DEF PaymentTypes, Outside
<1>4. ASSUME UNCHANGED <<payment, notified, undone, doubled, overtaken>>,
             wpc'[w] \notin {"publish", "commit"} \/ UNCHANGED <<wpc, wrow>>
      PROVE  Told'
  <2>1. ASSUME NEW v \in Workers, wpc'[v] \in {"publish", "commit"}
        PROVE  wpc'[v] = wpc[v] /\ kind'[wrow'[v]] = kind[wrow[v]]
    BY <1>1, <1>4, <2>1
  <2>2. QED BY <1>4, <2>1, NoticeKept
<1>5. CASE Check(w) \/ CheckThrows(w) \/ WorkerMarkProcessed(w) \/ WorkerMarkFailed(w) \/ SendToDlq(w)
           \/ Ack(w) \/ AckThrows(w) \/ WorkerCrash(w) \/ ChannelCloses(w) \/ ConsumerCloses(w)
           \/ HandlerThrows(w) \/ \E l \in Requests : Take(w, l)
  <2>1. UNCHANGED <<payment, notified, undone, doubled, overtaken>>
    BY <1>5 DEF Check, CheckThrows, WorkerMarkProcessed, WorkerMarkFailed, SendToDlq, Ack, AckThrows,
       WorkerCrash, ChannelCloses, ConsumerCloses, HandlerThrows, Take, paymentVars
  <2>2. UNCHANGED <<wpc, wrow>> \/ \E p \in WorkerPlaces \ {"publish", "commit"} : Goto(w, p)
    BY <1>5 DEF Check, CheckThrows, WorkerMarkProcessed, WorkerMarkFailed, SendToDlq, Ack, AckThrows,
       WorkerCrash, ChannelCloses, ConsumerCloses, HandlerThrows, Take, Release, Restart, StartRun,
       AttemptFails, WorkerPlaces
  <2>3. wpc'[w] \notin {"publish", "commit"} \/ UNCHANGED <<wpc, wrow>>
    BY <1>0, <2>2 DEF Goto, WorkerTypes
  <2>4. QED BY <1>4, <2>1, <2>3
<1>6. CASE Handle(w)
  <2>1. UNCHANGED <<payment, notified, undone, doubled, wrow>> /\ overtaken' = overtaken \ {w}
    BY <1>6 DEF Handle
  <2>2. wpc'[w] # "publish"
    <3>1. \E p \in WorkerPlaces \ {"publish"} : Goto(w, p)
      BY <1>6 DEF Handle, HandlerVerdict, AttemptFails, StartRun, WorkerPlaces
    <3>2. QED BY <1>0, <3>1 DEF Goto, WorkerTypes
  <2>3. wpc'[w] = "commit" /\ kind[wrow[w]] = "captured" => payment # "COMPLETED"
    <3>1. SUFFICES ASSUME wpc'[w] = "commit", kind[wrow[w]] = "captured", payment = "COMPLETED" PROVE FALSE
      OBVIOUS
    <3>2. \E p \in WorkerPlaces \ {"commit"} : Goto(w, p)
      BY <1>6, <3>1 DEF Handle, HandlerVerdict, Row, AttemptFails, StartRun, WorkerPlaces
    <3>3. QED BY <1>0, <3>1, <3>2 DEF Goto, WorkerTypes
  <2>4. Tellers' \subseteq Tellers BY <1>1, <2>1, <2>2 DEF Tellers
  <2>5. Cardinality(Tellers') <= Cardinality(Tellers) BY <2>4, FewerTellers
  <2>6. notified' + Cardinality(Tellers') + Outside' <= undone' + doubled'
    BY <1>2, <1>3, <2>1, <2>5 DEF Outside
  <2>7. ASSUME NEW v \in Workers, wpc'[v] = "commit", kind[wrow[v]] = "captured", v \notin overtaken'
        PROVE  payment # "COMPLETED"
    <3>1. CASE v = w BY <2>3, <2>7, <3>1
    <3>2. CASE v # w
      <4>1. wpc[v] = "commit" /\ v \notin overtaken BY <1>1, <2>1, <2>7, <3>2
      <4>2. QED BY <2>7, <4>1 DEF NoticeInv, Told
    <3>3. QED BY <3>1, <3>2
  <2>8. QED BY <1>1, <2>1, <2>6, <2>7 DEF Told
<1>7. CASE PublishNotification(w)
  <2>1. UNCHANGED <<payment, undone, doubled, overtaken, wrow>> /\ wpc[w] = "publish"
    BY <1>7 DEF PublishNotification, At
  <2>2. wpc'[w] \notin {"publish", "commit"}
    <3>1. \E p \in WorkerPlaces \ {"publish", "commit"} : Goto(w, p)
      BY <1>7 DEF PublishNotification, AttemptFails, StartRun, WorkerPlaces
    <3>2. QED BY <1>0, <3>1 DEF Goto, WorkerTypes
  <2>3. CASE UNCHANGED notified BY <1>4, <2>1, <2>2, <2>3
  <2>4. CASE ~UNCHANGED notified
    <3>1. kind[wrow[w]] = "captured" /\ notified' = notified + 1
      BY <1>7, <2>4 DEF PublishNotification, Row
    <3>2. w \in Tellers BY <2>1, <3>1 DEF Tellers
    <3>3. Tellers' = Tellers \ {w} BY <1>1, <2>1, <2>2 DEF Tellers
    <3>4. Cardinality(Tellers') = Cardinality(Tellers) - 1
      <4> DEFINE S == Tellers
      <4>1. w \in S /\ IsFiniteSet(S) BY <3>2, TellersFinite
      <4> HIDE DEF S
      <4>2. Cardinality(S \ {w}) = Cardinality(S) - 1 BY <4>1, FS_RemoveElement
      <4>3. QED BY <3>3, <4>2 DEF S
    <3>5. Outside' = Outside BY <2>1 DEF Outside
    <3>6. notified' + Cardinality(Tellers') + Outside' <= undone' + doubled'
      BY <1>2, <1>3, <2>1, <3>1, <3>4, <3>5
    <3>7. ASSUME NEW v \in Workers, wpc'[v] = "commit" PROVE wpc[v] = "commit" BY <1>1, <2>2, <3>7
    <3>8. QED BY <1>1, <2>1, <3>6, <3>7 DEF Told, NoticeInv
  <2>5. QED BY <2>3, <2>4
<1>8. CASE Commit(w) /\ CommitCaptured(w)
  <2>1. /\ wpc[w] = "commit" /\ kind[wrow[w]] = "captured" /\ payment' = "COMPLETED"
        /\ UNCHANGED <<notified, wrow, undone>>
        /\ doubled' = (IF w \in overtaken THEN doubled + 1 ELSE doubled)
        /\ overtaken' = (overtaken \union {v \in Workers : wpc[v] = "commit"}) \ {w}
    BY <1>8 DEF Commit, CommitCaptured, SetPayment, At, Row
  <2>2. wpc'[w] = "publish" BY <1>0, <1>8 DEF CommitCaptured, Goto, WorkerTypes
  <2>3. Tellers' = Tellers \union {w} BY <1>1, <2>1, <2>2 DEF Tellers
  <2>4. w \notin Tellers BY <2>1 DEF Tellers
  <2>5. Cardinality(Tellers') = Cardinality(Tellers) + 1 BY <2>3, <2>4, TellersFinite, FS_AddElement
  <2>6. Outside' = 0 BY <2>1 DEF Outside
  <2>7. doubled' = doubled + 1 \/ (doubled' = doubled /\ Outside = 1)
    BY <2>1 DEF NoticeInv, Told, Outside
  <2>8. notified' + Cardinality(Tellers') + Outside' <= undone' + doubled'
    BY <1>2, <1>3, <2>1, <2>5, <2>6, <2>7
  <2>9. ASSUME NEW v \in Workers, wpc'[v] = "commit" PROVE v \in overtaken'
    BY <1>1, <2>1, <2>2, <2>9
  <2>10. QED BY <2>8, <2>9 DEF Told
<1>9. CASE Commit(w) /\ ~CommitCaptured(w)
  <2>1. /\ UNCHANGED <<notified, wrow, overtaken, doubled>>
        /\ kind[wrow[w]] # "captured"
        /\ (UNCHANGED <<payment, undone>> \/ SetPayment("FAILED") \/ SetPayment("DISPUTED"))
    BY <1>9 DEF Commit, CommitFailed, CommitDispute, Row
  <2>2. Tellers' \subseteq Tellers BY <1>1, <2>1 DEF Tellers
  <2>3. Cardinality(Tellers') <= Cardinality(Tellers) BY <2>2, FewerTellers
  <2>4. Outside' + undone <= Outside + undone' /\ (payment # "COMPLETED" => payment' # "COMPLETED")
    <3>1. CASE UNCHANGED <<payment, undone>> BY <1>3, <3>1 DEF Outside
    <3>2. ASSUME NEW s \in {"FAILED", "DISPUTED"}, SetPayment(s)
          PROVE  Outside' + undone <= Outside + undone' /\ payment' # "COMPLETED"
      <4>1. payment' = s /\ Outside' = 1 BY <3>2 DEF SetPayment, Outside
      <4>2. CASE payment = "COMPLETED"
        BY <1>3, <3>2, <4>1, <4>2 DEF SetPayment, Outside
      <4>3. CASE payment # "COMPLETED"
        BY <1>3, <3>2, <4>1, <4>3 DEF SetPayment, Outside
      <4>4. QED BY <4>2, <4>3
    <3>3. QED BY <2>1, <3>1, <3>2
  <2>5. Outside' \in Nat /\ undone' \in Nat
    <3>1. undone' = undone \/ undone' = undone + 1 BY <2>1 DEF SetPayment
    <3>2. QED BY <1>3, <3>1 DEF Outside
  <2>6. notified' + Cardinality(Tellers') + Outside' <= undone' + doubled'
    <3> HIDE DEF Outside
    <3>1. notified' = notified /\ doubled' = doubled BY <2>1
    <3>2. Outside' + undone <= Outside + undone' BY <2>4
    <3>3. notified + Cardinality(Tellers') + Outside' <= undone' + doubled
      <4>1. \A n, t, t2, o, o2, u, u2, d \in Nat :
              n + t + o <= u + d /\ t2 <= t /\ o2 + u <= o + u2 => n + t2 + o2 <= u2 + d
        OBVIOUS
      <4>2. notified + Cardinality(Tellers) + Outside <= undone + doubled /\ Cardinality(Tellers') <= Cardinality(Tellers)
        BY <1>2, <2>3
      <4> HIDE DEF Tellers
      <4>3. QED BY <1>3, <2>5, <3>2, <4>1, <4>2
    <3>4. QED BY <3>1, <3>3
  <2>7. ASSUME NEW v \in Workers, wpc'[v] = "commit", kind[wrow[v]] = "captured", v \notin overtaken
        PROVE  payment' # "COMPLETED"
    BY <1>1, <2>1, <2>4, <2>7 DEF NoticeInv, Told
  <2>8. QED BY <1>1, <2>1, <2>6, <2>7 DEF Told
<1>10. QED BY <1>5, <1>6, <1>7, <1>8, <1>9 DEF WorkerStep

LEMMA NextNotice == NoticeInv /\ [Next]_vars => NoticeInv'
<1> SUFFICES ASSUME NoticeInv, [Next]_vars PROVE NoticeInv'
  OBVIOUS
<1>1. RowInv' BY NextRows DEF NoticeInv
<1>2. CASE UNCHANGED vars
  BY <1>1, <1>2 DEF NoticeInv, Told, Tellers, Outside, vars, logVars, workerVars, paymentVars
<1>3. CASE \E r \in Requests : Receive(r) \/ ApiStep(r) \/ \E l \in Requests : Replay(r, l)
  BY <1>1, <1>3, ApiNotice DEF NoticeInv
<1>4. CASE ApiCrash
  <2>1. UNCHANGED <<payment, notified, undone, doubled, overtaken, wpc, wrow, kind>>
    BY <1>4 DEF ApiCrash, logVars, workerVars, paymentVars
  <2>2. QED BY <1>1, <2>1, NoticeKept DEF NoticeInv
<1>5. CASE \E w \in Workers : WorkerStep(w) \/ WorkerCrash(w) \/ ChannelCloses(w) \/ ConsumerCloses(w)
  BY <1>1, <1>5, WorkerNotice DEF NoticeInv
<1>6. QED BY <1>2, <1>3, <1>4, <1>5 DEF Next

\* The client is told of a completed payment once for each time the payment was taken out
\* of COMPLETED, and once for each capture a worker wrote after another had overtaken it.
THEOREM OneNotice == Spec => []OneNoticePerCompletion
<1>1. NoticeInv => OneNoticePerCompletion
  <2> SUFFICES ASSUME NoticeInv PROVE OneNoticePerCompletion
    OBVIOUS
  <2>1. PaymentTypes BY TypeParts DEF NoticeInv, RowInv, TypeInv
  <2>2. Outside \in Nat BY DEF Outside
  <2>3. notified + Cardinality(Tellers) + Outside <= undone + doubled BY DEF NoticeInv, Told
  <2>4. QED BY <2>1, <2>2, <2>3, TellersFinite DEF PaymentTypes, OneNoticePerCompletion
<1>2. QED BY <1>1, InitNotice, NextNotice, PTL DEF Spec

=============================================================================

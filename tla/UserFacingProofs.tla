-------------------------- MODULE UserFacingProofs --------------------------
(***************************************************************************)
(* What users get to see: mails and notifications, which the queue workers *)
(* deliver, and the receipts, reactions and labels of a message.           *)
(*                                                                         *)
(* QueueWorkers, for any number of jobs, replicas, devices, retries and    *)
(* incidents: no job vanishes without a lost message, and every mail and   *)
(* every in-app row beyond the first has its reason.                       *)
(*                                                                         *)
(* MessageMarks, for any number of users, calls and commits: what was      *)
(* confirmed is what is stored, unless something was written from an old   *)
(* value, which takes a replica that is behind or calls that overlap.      *)
(***************************************************************************)
EXTENDS QueueWorkers, MessageMarks, FiniteSetTheorems, FunctionTheorems, TLAPS

-----------------------------------------------------------------------------
(* The queue workers: types *)

Places == {"check", "send", "mark", "dispatch", "fail", "ack", "nack"}

\* The handler of w goes on, its message and whether it is held unchanged.
Moved(w, p) ==
    /\ worker' \in [Workers -> Busy \union {Idle}]
    /\ \A v \in Workers : v # w => worker'[v] = worker[v]
    /\ worker'[w] \in Busy /\ worker'[w].at = p
    /\ worker'[w].job = worker[w].job /\ worker'[w].retry = worker[w].retry
    /\ worker'[w].held = worker[w].held

\* The handler of w is gone.
Freed(w) ==
    /\ worker' \in [Workers -> Busy \union {Idle}]
    /\ \A v \in Workers : v # w => worker'[v] = worker[v]
    /\ worker'[w] = Idle

LEMMA Counters ==
    ASSUME TypeOK
    PROVE  /\ dead \in [Jobs -> Nat] /\ sent \in [Jobs -> Nat] /\ rows \in [Jobs -> Nat]
           /\ retried \in [Jobs -> Nat] /\ excuse \in [Jobs -> Nat]
BY DEF TypeOK

LEMMA BusyOrIdle ==
    ASSUME TypeOK, NEW w \in Workers
    PROVE  /\ Handling(w) <=> worker[w] \in Busy
           /\ ~Handling(w) => worker[w] = Idle
           /\ \A p \in Places : worker[w].at = p => Handling(w)
           /\ Handling(w) => JobOf(w) \in Jobs /\ worker[w].retry \in Retries
BY DEF TypeOK, Handling, Busy, Idle, Places, JobOf

LEMMA GotoMoves ==
    ASSUME TypeOK, NEW w \in Workers, Handling(w), NEW p \in Places, Goto(w, p)
    PROVE  Moved(w, p) /\ worker'[w].inApp = worker[w].inApp
<1>1. worker[w] \in Busy /\ worker \in [Workers -> Busy \union {Idle}]
  BY BusyOrIdle DEF TypeOK
<1>2. [worker[w] EXCEPT !.at = p] \in Busy BY <1>1 DEF Busy, Places
<1>3. worker' = [worker EXCEPT ![w] = [worker[w] EXCEPT !.at = p]] BY DEF Goto
<1>4. worker'[w] = [worker[w] EXCEPT !.at = p] BY <1>1, <1>3
<1>5. QED BY <1>1, <1>2, <1>3, <1>4 DEF Moved, Busy

\* A channel of a notification goes on.
LEMMA DispatchMoves ==
    ASSUME TypeOK, NEW w \in Workers, worker[w].at = "dispatch",
           NEW r \in Busy, worker' = [worker EXCEPT ![w] = r],
           r.at = "dispatch", r.job = worker[w].job, r.retry = worker[w].retry,
           r.held = worker[w].held
    PROVE  Moved(w, "dispatch") /\ worker'[w] = r
BY DEF Moved, TypeOK

LEMMA IdleFrees ==
    ASSUME TypeOK, NEW w \in Workers, worker' = [worker EXCEPT ![w] = Idle]
    PROVE  Freed(w)
BY DEF TypeOK, Freed

LEMMA BumpType ==
    ASSUME NEW f \in [Jobs -> Nat], NEW j \in Jobs
    PROVE  /\ Bump(f, j) \in [Jobs -> Nat]
           /\ \A i \in Jobs : Bump(f, j)[i] = f[i] + (IF i = j THEN 1 ELSE 0)
BY DEF Bump

ReadySet(j, r, n) == ready' = [ready EXCEPT ![j][r] = n]

LEMMA ReadyType ==
    ASSUME TypeOK, NEW j \in Jobs, NEW r \in Retries, NEW n \in Nat, ReadySet(j, r, n)
    PROVE  /\ ready' \in [Jobs -> [Retries -> Nat]]
           /\ ready'[j][r] = n
           /\ \A i \in Jobs : \A s \in Retries :
                  i # j \/ s # r => ready'[i][s] = ready[i][s]
<1>1. ready \in [Jobs -> [Retries -> Nat]] BY DEF TypeOK
<1>2. ready' = [ready EXCEPT ![j] = [ready[j] EXCEPT ![r] = n]] BY <1>1 DEF ReadySet
<1>3. QED BY <1>1, <1>2

\* What a connection that closes, or a process that dies, gives back to the queue.
LEMMA RequeuedType ==
    ASSUME TypeOK, NEW w \in Workers, Requeued(w)
    PROVE  /\ ready' \in [Jobs -> [Retries -> Nat]] /\ excuse' \in [Jobs -> Nat]
           /\ \A j \in Jobs : \A r \in Retries : ready'[j][r] >= ready[j][r]
           /\ \A j \in Jobs : excuse'[j] >= excuse[j]
<1>0. ready \in [Jobs -> [Retries -> Nat]] /\ excuse \in [Jobs -> Nat] BY DEF TypeOK
<1>1. CASE Handling(w) /\ worker[w].held
  <2>1. PICK j \in Jobs, r \in Retries : j = JobOf(w) /\ r = worker[w].retry
    BY <1>1, BusyOrIdle
  <2>2. PICK n \in Nat : n = ready[j][r] + 1 BY <1>0
  <2>3. ReadySet(j, r, n) BY <1>1, <2>1, <2>2, <1>0 DEF Requeued, ReadySet
  <2>4. excuse' = excuse \/ excuse' = Bump(excuse, j) BY <1>1, <2>1 DEF Requeued
  <2>5. excuse' \in [Jobs -> Nat] /\ \A i \in Jobs : excuse'[i] >= excuse[i]
    <3>1. CASE excuse' = excuse BY <3>1, <1>0
    <3>2. CASE excuse' = Bump(excuse, j)
      <4>1. /\ Bump(excuse, j) \in [Jobs -> Nat]
            /\ \A i \in Jobs : Bump(excuse, j)[i] = excuse[i] + (IF i = j THEN 1 ELSE 0)
        BY <1>0, BumpType
      <4>2. QED BY <4>1, <3>2, <1>0
    <3>3. QED BY <2>4, <3>1, <3>2
  <2>6. /\ ready' \in [Jobs -> [Retries -> Nat]] /\ ready'[j][r] = n
        /\ \A i \in Jobs : \A s \in Retries : i # j \/ s # r => ready'[i][s] = ready[i][s]
    BY <2>3, ReadyType
  <2>7. \A i \in Jobs : \A s \in Retries : ready'[i][s] >= ready[i][s]
    BY <1>0, <2>2, <2>6
  <2>8. QED BY <2>5, <2>6, <2>7
<1>2. CASE ~(Handling(w) /\ worker[w].held)
  BY <1>0, <1>2 DEF Requeued
<1>3. QED BY <1>1, <1>2

LEMMA RetryMessageType ==
    ASSUME TypeOK, NEW w \in Workers, worker[w].at = "fail"
    PROVE  /\ RetryMessage(w) \in Messages /\ RetryMessage(w).job = JobOf(w)
<1>1. JobOf(w) \in Jobs /\ worker[w].retry \in Retries BY BusyOrIdle DEF Places
<1>2. QED BY <1>1, ConstantsAssumption DEF RetryMessage, Messages, Retries

\* The wire of one replica is replaced, the others stay.
LEMMA WireType ==
    ASSUME TypeOK, NEW w \in Workers, NEW s \in Seq(Messages), wire' = [wire EXCEPT ![w] = s]
    PROVE  /\ wire' \in [Workers -> Seq(Messages)] /\ wire'[w] = s
           /\ \A v \in Workers : v # w => wire'[v] = wire[v]
BY DEF TypeOK

LEMMA OnWireType == ASSUME TypeOK, NEW w \in Workers PROVE OnWire(w) \subseteq Jobs
<1>1. wire[w] \in Seq(Messages) BY DEF TypeOK
<1>2. \A i \in 1..Len(wire[w]) : wire[w][i] \in Messages BY <1>1
<1>3. QED BY <1>2 DEF OnWire, Messages

LEMMA InitType == Init => TypeOK
<1> SUFFICES ASSUME Init PROVE TypeOK
  OBVIOUS
<1> USE ConstantsAssumption
<1>1. ready \in [Jobs -> [Retries -> Nat]] BY DEF Init, Retries
<1>2. wire \in [Workers -> Seq(Messages)] BY DEF Init
<1>3. gone \subseteq Devices BY DEF Init
<1>4. QED BY <1>1, <1>2, <1>3 DEF Init, TypeOK, Idle

\* The handlers' own steps.
LEMMA HandlerType ==
    ASSUME TypeOK, NEW w \in Workers,
           Check(w) \/ Send(w) \/ Mark(w) \/ Settle(w) \/ HandleFailure(w)
    PROVE  TypeOK'
<1> USE DEF Places, broker, channels, effects
<1>0. Handling(w) /\ JobOf(w) \in Jobs
  BY BusyOrIdle DEF Check, Send, Mark, Settle, HandleFailure
<1>1. PICK p \in Places : Goto(w, p)
  BY DEF Check, Send, Mark, Settle, HandleFailure, Finish
<1>2. worker' \in [Workers -> Busy \union {Idle}] BY <1>0, <1>1, GotoMoves DEF Moved
<1>3. done' \subseteq Jobs /\ key' \subseteq Jobs
  BY <1>0 DEF Check, Send, Mark, Settle, HandleFailure, Finish, TypeOK
<1>4. excuse' \in [Jobs -> Nat] /\ sent' \in [Jobs -> Nat] /\ retried' \in [Jobs -> Nat]
  <2>1. /\ Bump(excuse, JobOf(w)) \in [Jobs -> Nat] /\ Bump(sent, JobOf(w)) \in [Jobs -> Nat]
        /\ Bump(retried, JobOf(w)) \in [Jobs -> Nat]
    BY <1>0, BumpType, Counters
  <2>2. QED BY <2>1, Counters DEF Check, Send, Mark, Settle, HandleFailure
<1>5. wire' \in [Workers -> Seq(Messages)]
  <2>1. CASE HandleFailure(w) /\ publisher[w]
    <3>1. RetryMessage(w) \in Messages BY <2>1, RetryMessageType DEF HandleFailure
    <3>2. Append(wire[w], RetryMessage(w)) \in Seq(Messages) BY <3>1 DEF TypeOK
    <3>3. wire' = [wire EXCEPT ![w] = Append(wire[w], RetryMessage(w))] BY <2>1 DEF HandleFailure
    <3>4. QED BY <3>2, <3>3, WireType
  <2>2. CASE ~(HandleFailure(w) /\ publisher[w])
    BY <2>2 DEF Check, Send, Mark, Settle, HandleFailure, TypeOK
  <2>3. QED BY <2>1, <2>2
<1>6. UNCHANGED <<kind, ready, dead, lost, consumer, publisher, incidents, rows, devices, gone>>
  BY DEF Check, Send, Mark, Settle, HandleFailure
<1>7. QED BY <1>2, <1>3, <1>4, <1>5, <1>6 DEF TypeOK

\* The two channels of a notification.
LEMMA DispatchType ==
    ASSUME TypeOK, NEW w \in Workers, InApp(w) \/ FindDevices(w) \/ Push(w)
    PROVE  TypeOK' /\ Moved(w, "dispatch")
<1> USE DEF broker, channels, effects
<1>0. worker[w].at = "dispatch" /\ worker[w] \in Busy /\ JobOf(w) \in Jobs
  BY BusyOrIdle DEF InApp, FindDevices, Push, Places
<1>1. PICK b \in BOOLEAN, p \in {"find", "send", "failed"}, l \in SUBSET Devices :
          worker' = [worker EXCEPT ![w] =
                        [worker[w] EXCEPT !.inApp = b, !.push = p, !.left = l]]
  <2>0. /\ worker \in [Workers -> Busy \union {Idle}] /\ devices \subseteq Devices
        /\ worker[w].inApp \in BOOLEAN /\ worker[w].push \in {"find", "send", "failed"}
        /\ worker[w].left \subseteq Devices
        /\ worker[w] = [worker[w] EXCEPT !.inApp = worker[w].inApp,
                           !.push = worker[w].push, !.left = worker[w].left]
    BY <1>0 DEF TypeOK, Busy
  <2>1. CASE InApp(w)
    <3>1. worker' = [worker EXCEPT ![w] = [worker[w] EXCEPT !.inApp = TRUE,
                           !.push = worker[w].push, !.left = worker[w].left]]
      BY <2>0, <2>1, <1>0 DEF InApp, Busy
    <3>2. QED BY <3>1, <2>0
  <2>2. CASE FindDevices(w)
    <3>1. CASE worker' = [worker EXCEPT ![w].push = "send", ![w].left = devices]
      <4>1. worker' = [worker EXCEPT ![w] = [worker[w] EXCEPT !.inApp = worker[w].inApp,
                             !.push = "send", !.left = devices]]
        BY <2>0, <3>1, <1>0 DEF Busy
      <4>2. QED BY <4>1, <2>0
    <3>2. CASE worker' = [worker EXCEPT ![w].push = "failed"]
      <4>1. worker' = [worker EXCEPT ![w] = [worker[w] EXCEPT !.inApp = worker[w].inApp,
                             !.push = "failed", !.left = worker[w].left]]
        BY <2>0, <3>2, <1>0 DEF Busy
      <4>2. QED BY <4>1, <2>0
    <3>3. QED BY <2>2, <3>1, <3>2 DEF FindDevices
  <2>3. CASE Push(w)
    <3>1. PICK d \in worker[w].left :
              \/ worker' = [worker EXCEPT ![w].left = @ \ {d}]
              \/ worker' = [worker EXCEPT ![w].push = "failed"]
      BY <2>3 DEF Push
    <3>2. CASE worker' = [worker EXCEPT ![w].left = @ \ {d}]
      <4>1. worker' = [worker EXCEPT ![w] = [worker[w] EXCEPT !.inApp = worker[w].inApp,
                             !.push = worker[w].push, !.left = worker[w].left \ {d}]]
        BY <2>0, <3>2, <1>0 DEF Busy
      <4>2. worker[w].left \ {d} \in SUBSET Devices BY <2>0
      <4>3. QED BY <4>1, <4>2, <2>0
    <3>3. CASE worker' = [worker EXCEPT ![w].push = "failed"]
      <4>1. worker' = [worker EXCEPT ![w] = [worker[w] EXCEPT !.inApp = worker[w].inApp,
                             !.push = "failed", !.left = worker[w].left]]
        BY <2>0, <3>3, <1>0 DEF Busy
      <4>2. QED BY <4>1, <2>0
    <3>4. QED BY <3>1, <3>2, <3>3
  <2>4. QED BY <2>1, <2>2, <2>3
<1>2. DEFINE r == [worker[w] EXCEPT !.inApp = b, !.push = p, !.left = l]
<1>3. /\ r \in Busy /\ r.at = "dispatch" /\ r.job = worker[w].job
      /\ r.retry = worker[w].retry /\ r.held = worker[w].held
  BY <1>0 DEF Busy
<1>4. worker' = [worker EXCEPT ![w] = r] BY <1>1
<1> HIDE DEF r
<1>5. Moved(w, "dispatch") BY <1>0, <1>3, <1>4, DispatchMoves
<1>6. devices' \subseteq Devices BY DEF InApp, FindDevices, Push, TypeOK
<1>7. rows' \in [Jobs -> Nat]
  <2>1. Bump(rows, JobOf(w)) \in [Jobs -> Nat] BY <1>0, BumpType, Counters
  <2>2. QED BY <2>1, Counters DEF InApp, FindDevices, Push
<1>8. UNCHANGED <<kind, broker, channels, key, sent, gone, retried, excuse, done>>
  BY DEF InApp, FindDevices, Push
<1>9. QED BY <1>5, <1>6, <1>7, <1>8 DEF TypeOK, Moved

\* A replica starts again.
LEMMA RestartType ==
    ASSUME TypeOK, NEW w \in Workers, Restart(w), incidents' \in 0..MaxIncidents
    PROVE  TypeOK' /\ Freed(w) /\ Requeued(w) /\ wire'[w] = <<>>
<1> USE DEF effects
<1>1. Freed(w) /\ Requeued(w) BY IdleFrees DEF Restart
<1>2. ready' \in [Jobs -> [Retries -> Nat]] /\ excuse' \in [Jobs -> Nat]
  BY <1>1, RequeuedType
<1>3. <<>> \in Seq(Messages) /\ wire' = [wire EXCEPT ![w] = <<>>] BY DEF Restart
<1>4. wire' \in [Workers -> Seq(Messages)] /\ wire'[w] = <<>> BY <1>3, WireType
<1>5. lost' \subseteq Jobs BY OnWireType DEF Restart, TypeOK
<1>6. consumer' \in [Workers -> BOOLEAN] /\ publisher' \in [Workers -> BOOLEAN]
  BY DEF Restart, TypeOK
<1>7. UNCHANGED <<kind, dead, key, sent, rows, devices, gone, retried, done>> BY DEF Restart
<1>8. QED BY <1>1, <1>2, <1>4, <1>5, <1>6, <1>7 DEF TypeOK, Freed

\* The next message is taken from the queue.
LEMMA DeliverType ==
    ASSUME TypeOK, NEW w \in Workers, Deliver(w)
    PROVE  /\ TypeOK'
           /\ \E j \in Jobs, r \in Retries :
                  /\ ready[j][r] > 0 /\ ReadySet(j, r, ready[j][r] - 1)
                  /\ worker'[w] = [at |-> First(kind), job |-> j, retry |-> r, held |-> TRUE,
                                   inApp |-> FALSE, push |-> "find", left |-> {}]
           /\ \A v \in Workers : v # w => worker'[v] = worker[v]
<1> USE DEF channels, effects
<1>1. PICK j \in Jobs, r \in Retries :
          /\ ready[j][r] > 0
          /\ ready' = [ready EXCEPT ![j][r] = @ - 1]
          /\ worker' = [worker EXCEPT ![w] =
                 [at |-> First(kind), job |-> j, retry |-> r, held |-> TRUE,
                  inApp |-> FALSE, push |-> "find", left |-> {}]]
  BY DEF Deliver
<1>2. ready \in [Jobs -> [Retries -> Nat]] /\ worker \in [Workers -> Busy \union {Idle}]
  BY DEF TypeOK
<1>3. PICK n \in Nat : n = ready[j][r] - 1 BY <1>1, <1>2
<1>4. ReadySet(j, r, n) BY <1>1, <1>2, <1>3 DEF ReadySet
<1>5. ready' \in [Jobs -> [Retries -> Nat]] BY <1>4, ReadyType
<1>6. [at |-> First(kind), job |-> j, retry |-> r, held |-> TRUE,
       inApp |-> FALSE, push |-> "find", left |-> {}] \in Busy
  BY DEF First, Busy
<1>7. worker' \in [Workers -> Busy \union {Idle}] BY <1>1, <1>2, <1>6
<1>8. UNCHANGED <<kind, wire, dead, lost, channels, effects, gone, retried, excuse, done>>
  BY DEF Deliver
<1>9. TypeOK' BY <1>5, <1>7, <1>8 DEF TypeOK
<1>10. QED BY <1>1, <1>2, <1>3, <1>4, <1>9

\* The broker takes the first message of the wire of w.
LEMMA AcceptType ==
    ASSUME TypeOK, NEW w \in Workers, Accept(w)
    PROVE  /\ TypeOK'
           /\ wire[w] # <<>> /\ wire' = [wire EXCEPT ![w] = Tail(wire[w])]
           /\ \/ /\ Head(wire[w]).to = "dlq"
                 /\ dead' = Bump(dead, Head(wire[w]).job) /\ UNCHANGED ready
              \/ /\ Head(wire[w]).to = "queue" /\ UNCHANGED dead
                 /\ \E j \in Jobs, r \in Retries :
                        /\ j = Head(wire[w]).job
                        /\ ReadySet(j, r, ready[j][r] + 1)
<1> USE DEF channels, effects
<1>0. wire[w] \in Seq(Messages) /\ wire[w] # <<>> BY DEF Accept, TypeOK
<1>1. PICK m \in Messages : m = Head(wire[w]) BY <1>0
<1>2. m.job \in Jobs /\ m.retry \in Retries /\ m.to \in {"queue", "dlq"} BY DEF Messages
<1>3. Tail(wire[w]) \in Seq(Messages) BY <1>0
<1>4. wire' = [wire EXCEPT ![w] = Tail(wire[w])] BY DEF Accept
<1>5. wire' \in [Workers -> Seq(Messages)] BY <1>3, <1>4, WireType
<1>6. ready \in [Jobs -> [Retries -> Nat]] BY DEF TypeOK
<1>7. UNCHANGED <<kind, lost, worker, channels, effects, gone, retried, excuse, done>>
  BY DEF Accept
<1>8. CASE m.to = "dlq"
  <2>1. dead' = Bump(dead, m.job) /\ UNCHANGED ready BY <1>1, <1>8 DEF Accept
  <2>2. dead' \in [Jobs -> Nat] BY <1>2, <2>1, BumpType, Counters
  <2>3. TypeOK' BY <1>5, <1>7, <2>1, <2>2 DEF TypeOK
  <2>4. QED BY <1>0, <1>1, <1>4, <1>8, <2>1, <2>3
<1>9. CASE m.to = "queue"
  <2>1. ready' = [ready EXCEPT ![m.job][m.retry] = @ + 1] /\ UNCHANGED dead
    BY <1>1, <1>9 DEF Accept
  <2>2. PICK j \in Jobs, r \in Retries : j = m.job /\ r = m.retry BY <1>2
  <2>3. PICK n \in Nat : n = ready[j][r] + 1 BY <1>6
  <2>4. ReadySet(j, r, n) BY <1>6, <2>1, <2>2, <2>3 DEF ReadySet
  <2>5. ready' \in [Jobs -> [Retries -> Nat]] BY <2>4, ReadyType
  <2>6. TypeOK' BY <1>5, <1>7, <2>1, <2>5 DEF TypeOK
  <2>7. QED BY <1>0, <1>1, <1>4, <1>9, <2>1, <2>2, <2>3, <2>4, <2>6
<1>10. QED BY <1>2, <1>8, <1>9

LEMMA PublisherClosesType ==
    ASSUME TypeOK, NEW w \in Workers, PublisherCloses(w)
    PROVE  TypeOK' /\ wire'[w] = <<>> /\ \A v \in Workers : v # w => wire'[v] = wire[v]
<1> USE DEF effects
<1>1. <<>> \in Seq(Messages) /\ wire' = [wire EXCEPT ![w] = <<>>] BY DEF PublisherCloses
<1>2. /\ wire' \in [Workers -> Seq(Messages)] /\ wire'[w] = <<>>
      /\ \A v \in Workers : v # w => wire'[v] = wire[v]
  BY <1>1, WireType
<1>3. lost' \subseteq Jobs BY OnWireType DEF PublisherCloses, TypeOK
<1>4. publisher' \in [Workers -> BOOLEAN] /\ incidents' \in 0..MaxIncidents
  BY ConstantsAssumption DEF PublisherCloses, TypeOK
<1>5. UNCHANGED <<kind, ready, dead, worker, consumer, effects, gone, retried, excuse, done>>
  BY DEF PublisherCloses
<1>6. QED BY <1>2, <1>3, <1>4, <1>5 DEF TypeOK

\* The handler goes on, though its message is not its own any more.
LEMMA ConsumerClosesType ==
    ASSUME TypeOK, NEW w \in Workers, ConsumerCloses(w)
    PROVE  /\ TypeOK' /\ Requeued(w)
           /\ \A v \in Workers : v # w => worker'[v] = worker[v]
           /\ ~Handling(w) => worker'[w] = worker[w]
           /\ Handling(w) => worker'[w] = [worker[w] EXCEPT !.held = FALSE]
<1> USE DEF effects
<1>1. Requeued(w) BY DEF ConsumerCloses
<1>2. ready' \in [Jobs -> [Retries -> Nat]] /\ excuse' \in [Jobs -> Nat]
  BY <1>1, RequeuedType
<1>3. /\ worker' \in [Workers -> Busy \union {Idle}]
      /\ \A v \in Workers : v # w => worker'[v] = worker[v]
      /\ ~Handling(w) => worker'[w] = worker[w]
      /\ Handling(w) => worker'[w] = [worker[w] EXCEPT !.held = FALSE]
  <2>1. worker \in [Workers -> Busy \union {Idle}] BY DEF TypeOK
  <2>2. CASE ~Handling(w) BY <2>1, <2>2 DEF ConsumerCloses
  <2>3. CASE Handling(w)
    <3>1. [worker[w] EXCEPT !.held = FALSE] \in Busy BY <2>3, BusyOrIdle DEF Busy
    <3>2. worker' = [worker EXCEPT ![w] = [worker[w] EXCEPT !.held = FALSE]]
      BY <2>3 DEF ConsumerCloses
    <3>3. QED BY <2>1, <2>3, <3>1, <3>2
  <2>4. QED BY <2>2, <2>3
<1>4. consumer' \in [Workers -> BOOLEAN] /\ incidents' \in 0..MaxIncidents
  BY ConstantsAssumption DEF ConsumerCloses, TypeOK
<1>5. UNCHANGED <<kind, wire, dead, lost, publisher, effects, gone, retried, done>>
  BY DEF ConsumerCloses
<1>6. QED BY <1>1, <1>2, <1>3, <1>4, <1>5 DEF TypeOK

\* A message is acknowledged or rejected.
LEMMA SettledType ==
    ASSUME TypeOK, NEW w \in Workers, Ack(w) \/ Nack(w)
    PROVE  TypeOK' /\ Freed(w)
<1> USE DEF broker, channels, effects
<1>1. Freed(w) BY IdleFrees DEF Ack, Nack
<1>2. JobOf(w) \in Jobs BY BusyOrIdle DEF Ack, Nack, Places
<1>3. lost' \subseteq Jobs BY <1>2 DEF Ack, Nack, TypeOK
<1>4. UNCHANGED <<kind, ready, wire, dead, channels, effects, gone, retried, excuse, done>>
  BY DEF Ack, Nack
<1>5. QED BY <1>1, <1>3, <1>4 DEF TypeOK, Freed

LEMMA DyingIncidents ==
    ASSUME TypeOK, NEW w \in Workers, AckThrows(w) \/ Crash(w)
    PROVE  Restart(w) /\ incidents' \in 0..MaxIncidents
BY ConstantsAssumption DEF AckThrows, Crash, TypeOK

LEMMA NextType == TypeOK /\ [Next]_vars => TypeOK'
<1> SUFFICES ASSUME TypeOK, [Next]_vars PROVE TypeOK'
  OBVIOUS
<1>1. CASE UNCHANGED vars
  BY <1>1 DEF vars, broker, channels, effects, TypeOK
<1>2. ASSUME NEW w \in Workers, Step(w) \/ Incident(w) PROVE TypeOK'
  <2>1. CASE Deliver(w) BY <2>1, DeliverType
  <2>2. CASE Check(w) \/ Send(w) \/ Mark(w) \/ Settle(w) \/ HandleFailure(w)
    BY <2>2, HandlerType
  <2>3. CASE InApp(w) \/ FindDevices(w) \/ Push(w) BY <2>3, DispatchType
  <2>4. CASE Ack(w) \/ Nack(w) BY <2>4, SettledType
  <2>5. CASE AckThrows(w) \/ Crash(w) BY <2>5, DyingIncidents, RestartType
  <2>6. CASE Accept(w) BY <2>6, AcceptType
  <2>7. CASE PublisherCloses(w) BY <2>7, PublisherClosesType
  <2>8. CASE ConsumerCloses(w) BY <2>8, ConsumerClosesType
  <2>9. QED BY <1>2, <2>1, <2>2, <2>3, <2>4, <2>5, <2>6, <2>7, <2>8 DEF Step, Incident
<1>3. QED BY <1>1, <1>2 DEF Next

\* Queue, workers and wires stay well typed, for any number of jobs, replicas,
\* devices, retries and incidents.
THEOREM TypeCorrect == Spec => []TypeOK
BY InitType, NextType, PTL DEF Spec

-----------------------------------------------------------------------------
(* The queue workers: no job vanishes *)

\* A handler is responsible for its message until it has published the retry or
\* is done, and only as long as the broker has not taken the message back.
Kept(j) ==
    \E w \in Workers : Handling(w) /\ JobOf(w) = j /\ worker[w].held /\ worker[w].at # "ack"
Wired(j) == \E w \in Workers : j \in OnWire(w)
Over(j) == dead[j] > 0 \/ j \in done \/ j \in lost
Somewhere(j) == InQueue(j) \/ Kept(j) \/ Wired(j) \/ Over(j)
SomewhereInv == \A j \in Jobs : Somewhere(j)

LEMMA InitSomewhere == Init => SomewhereInv
<1> SUFFICES ASSUME Init, NEW j \in Jobs PROVE InQueue(j)
  BY DEF SomewhereInv, Somewhere
<1>1. 0 \in Retries BY ConstantsAssumption DEF Retries
<1>2. ready[j][0] = 1 BY <1>1 DEF Init
<1>3. QED BY <1>1, <1>2 DEF InQueue

\* How the jobs on a wire follow what is done to it.
LEMMA JobsOnWire ==
    ASSUME TypeOK, NEW w \in Workers
    PROVE  /\ \A v \in Workers : wire'[v] = wire[v] => OnWire(v)' = OnWire(v)
           /\ \A m \in Messages : wire'[w] = Append(wire[w], m) =>
                  OnWire(w) \subseteq OnWire(w)' /\ m.job \in OnWire(w)'
           /\ wire[w] # <<>> /\ wire'[w] = Tail(wire[w]) =>
                  \A j \in OnWire(w) : j = Head(wire[w]).job \/ j \in OnWire(w)'
<1>0. wire[w] \in Seq(Messages) BY DEF TypeOK
<1>1. \A v \in Workers : wire'[v] = wire[v] => OnWire(v)' = OnWire(v) BY DEF OnWire
<1>2. ASSUME NEW m \in Messages, wire'[w] = Append(wire[w], m)
      PROVE  OnWire(w) \subseteq OnWire(w)' /\ m.job \in OnWire(w)'
  <2>1. /\ Len(wire'[w]) = Len(wire[w]) + 1 /\ Len(wire[w]) \in Nat
        /\ \A i \in 1..Len(wire[w]) : wire'[w][i] = wire[w][i]
        /\ wire'[w][Len(wire[w]) + 1] = m
    BY <1>0, <1>2
  <2>2. QED BY <2>1 DEF OnWire
<1>3. ASSUME wire[w] # <<>>, wire'[w] = Tail(wire[w]), NEW j \in OnWire(w)
      PROVE  j = Head(wire[w]).job \/ j \in OnWire(w)'
  <2>1. PICK i \in 1..Len(wire[w]) : j = wire[w][i].job BY <1>3 DEF OnWire
  <2>2. /\ Len(wire'[w]) = Len(wire[w]) - 1 /\ Len(wire[w]) \in Nat
        /\ \A k \in 1..(Len(wire[w]) - 1) : wire'[w][k] = wire[w][k + 1]
        /\ Head(wire[w]) = wire[w][1]
    BY <1>0, <1>3
  <2>3. CASE i = 1 BY <2>1, <2>2, <2>3
  <2>4. CASE i # 1
    <3>1. i - 1 \in 1..(Len(wire[w]) - 1) BY <2>2, <2>4
    <3>2. wire'[w][i - 1] = wire[w][i] BY <2>2, <3>1
    <3>3. QED BY <2>1, <2>2, <3>1, <3>2 DEF OnWire
  <2>5. QED BY <2>3, <2>4
<1>4. QED BY <1>1, <1>2, <1>3

\* A job stays where it is if nothing is taken from queue, wires and workers.
LEMMA StaysOver ==
    ASSUME TypeOK, NEW j \in Jobs, Over(j), dead'[j] \in Nat, dead'[j] >= dead[j],
           done \subseteq done', lost \subseteq lost'
    PROVE  Over(j)'
BY Counters DEF Over

LEMMA StaysQueued ==
    ASSUME TypeOK, NEW j \in Jobs, InQueue(j),
           \A r \in Retries : ready'[j][r] >= ready[j][r],
           ready' \in [Jobs -> [Retries -> Nat]]
    PROVE  InQueue(j)'
BY DEF InQueue, TypeOK

\* The handler of w goes on in a step that publishes nothing.
LEMMA HandlerKeeps ==
    ASSUME TypeOK, NEW j \in Jobs, Kept(j), NEW w \in Workers, NEW p \in Places,
           Moved(w, p), p = "ack" => JobOf(w) # j
    PROVE  Kept(j)'
<1>1. PICK v \in Workers : Handling(v) /\ JobOf(v) = j /\ worker[v].held /\ worker[v].at # "ack"
  BY DEF Kept
<1>2. CASE v # w BY <1>1, <1>2 DEF Moved, Kept, Handling, JobOf
<1>3. CASE v = w BY <1>1, <1>3 DEF Moved, Kept, Handling, JobOf, Places
<1>4. QED BY <1>2, <1>3

\* What a worker keeps is in the queue again when it lets go of it.
LEMMA RequeuedKeeps ==
    ASSUME TypeOK, NEW j \in Jobs, Kept(j), NEW w \in Workers, Requeued(w),
           \A v \in Workers : v # w => worker'[v] = worker[v]
    PROVE  Kept(j)' \/ InQueue(j)'
<1>1. PICK v \in Workers : Handling(v) /\ JobOf(v) = j /\ worker[v].held /\ worker[v].at # "ack"
  BY DEF Kept
<1>2. CASE v # w BY <1>1, <1>2 DEF Kept, Handling, JobOf
<1>3. CASE v = w
  <2>1. worker[w].retry \in Retries BY <1>1, <1>3, BusyOrIdle
  <2>2. ready \in [Jobs -> [Retries -> Nat]] BY DEF TypeOK
  <2>3. ready'[j][worker[w].retry] = ready[j][worker[w].retry] + 1
    BY <1>1, <1>3, <2>1, <2>2 DEF Requeued
  <2>4. ready'[j][worker[w].retry] > 0 BY <2>1, <2>2, <2>3
  <2>5. QED BY <2>1, <2>4 DEF InQueue
<1>4. QED BY <1>2, <1>3

LEMMA NextSomewhere ==
    ASSUME TypeOK, SomewhereInv, [Next]_vars
    PROVE  SomewhereInv'
<1> SUFFICES ASSUME NEW j \in Jobs PROVE Somewhere(j)'
  BY DEF SomewhereInv
<1> USE DEF broker, channels, effects
<1>0. Somewhere(j) BY DEF SomewhereInv
<1>1. CASE UNCHANGED vars
  <2>1. UNCHANGED <<ready, worker, wire, dead, done, lost>> BY <1>1 DEF vars
  <2>2. QED BY <1>0, <2>1 DEF Somewhere, InQueue, Kept, Wired, OnWire, Over, Handling, JobOf
<1>2. ASSUME NEW w \in Workers, Step(w) \/ Incident(w) PROVE Somewhere(j)'
  <2>0. TypeOK' BY <1>2, NextType DEF Next
  <2>a. /\ ready \in [Jobs -> [Retries -> Nat]] /\ ready' \in [Jobs -> [Retries -> Nat]]
        /\ dead \in [Jobs -> Nat] /\ dead' \in [Jobs -> Nat]
    BY <2>0 DEF TypeOK
  <2>b. ASSUME dead' = dead, done \subseteq done', lost \subseteq lost', Over(j) PROVE Over(j)'
    BY <2>a, <2>b, StaysOver
  <2>c. ASSUME \A r \in Retries : ready'[j][r] >= ready[j][r], InQueue(j) PROVE InQueue(j)'
    BY <2>a, <2>c, StaysQueued
  <2>d. ASSUME ready' = ready, InQueue(j) PROVE InQueue(j)' BY <2>d DEF InQueue
  <2>e. ASSUME wire' = wire, Wired(j) PROVE Wired(j)' BY <2>e DEF Wired, OnWire
  <2>1. CASE Deliver(w)
    <3>1. PICK i \in Jobs, r \in Retries :
              /\ ready[i][r] > 0 /\ ReadySet(i, r, ready[i][r] - 1)
              /\ worker'[w] = [at |-> First(kind), job |-> i, retry |-> r, held |-> TRUE,
                               inApp |-> FALSE, push |-> "find", left |-> {}]
      BY <2>1, DeliverType
    <3>2. \A v \in Workers : v # w => worker'[v] = worker[v] BY <2>1, DeliverType
    <3>3. ~Handling(w) /\ UNCHANGED <<wire, dead, done, lost>> BY <2>1 DEF Deliver
    <3>4. Kept(j) => Kept(j)' BY <3>2, <3>3 DEF Kept, Handling, JobOf
    <3>5. Kept(i)' BY <3>1 DEF Kept, Handling, JobOf, First
    <3>6. i # j /\ InQueue(j) => InQueue(j)'
      <4>1. PICK n \in Nat : n = ready[i][r] - 1 BY <3>1, <2>a
      <4>2. ReadySet(i, r, n) BY <3>1, <4>1
      <4>3. \A k \in Jobs : \A s \in Retries : k # i \/ s # r => ready'[k][s] = ready[k][s]
        BY <4>2, ReadyType
      <4>4. QED BY <4>3 DEF InQueue
    <3>7. QED BY <1>0, <3>3, <3>4, <3>5, <3>6, <2>b, <2>e DEF Somewhere
  <2>2. CASE Check(w) \/ Send(w) \/ Mark(w) \/ Settle(w)
    <3>1. UNCHANGED <<ready, wire, dead, lost>> /\ done \subseteq done'
      BY <2>2 DEF Check, Send, Mark, Settle, Finish
    <3>2. Handling(w) BY <2>2, BusyOrIdle DEF Check, Send, Mark, Settle, Places
    <3>3. PICK p \in Places : Goto(w, p) /\ (p = "ack" => JobOf(w) \in done')
      BY <2>2 DEF Check, Send, Mark, Settle, Finish, Places
    <3>4. Moved(w, p) BY <3>2, <3>3, GotoMoves
    <3>5. Kept(j) => Kept(j)' \/ Over(j)' BY <3>3, <3>4, HandlerKeeps DEF Over
    <3>6. QED BY <1>0, <3>1, <3>5, <2>b, <2>d, <2>e DEF Somewhere
  <2>3. CASE InApp(w) \/ FindDevices(w) \/ Push(w)
    <3>1. UNCHANGED <<ready, wire, dead, lost, done>> BY <2>3 DEF InApp, FindDevices, Push
    <3>2. Moved(w, "dispatch") BY <2>3, DispatchType
    <3>3. Kept(j) => Kept(j)' BY <3>2, HandlerKeeps DEF Places
    <3>4. QED BY <1>0, <3>1, <3>3, <2>b, <2>d, <2>e DEF Somewhere
  <2>4. CASE HandleFailure(w)
    <3>1. UNCHANGED <<ready, dead, lost, done>> BY <2>4 DEF HandleFailure
    <3>2. Handling(w) BY <2>4, BusyOrIdle DEF HandleFailure, Places
    <3>3. CASE publisher[w]
      <4>1. RetryMessage(w) \in Messages /\ RetryMessage(w).job = JobOf(w)
        BY <2>4, RetryMessageType DEF HandleFailure
      <4>2. /\ wire' = [wire EXCEPT ![w] = Append(wire[w], RetryMessage(w))]
            /\ Goto(w, "ack")
        BY <2>4, <3>3 DEF HandleFailure
      <4>3. Append(wire[w], RetryMessage(w)) \in Seq(Messages) BY <4>1 DEF TypeOK
      <4>4. /\ wire'[w] = Append(wire[w], RetryMessage(w))
            /\ \A v \in Workers : v # w => wire'[v] = wire[v]
        BY <4>2, <4>3, WireType
      <4>5. OnWire(w) \subseteq OnWire(w)' /\ JobOf(w) \in OnWire(w)'
        BY <4>1, <4>4, JobsOnWire
      <4>6. \A v \in Workers : v # w => OnWire(v)' = OnWire(v) BY <4>4, JobsOnWire
      <4>7. Wired(j) => Wired(j)' BY <4>5, <4>6 DEF Wired
      <4>8. JobOf(w) = j => Wired(j)' BY <4>5 DEF Wired
      <4>9. Moved(w, "ack") BY <3>2, <4>2, GotoMoves DEF Places
      <4>10. Kept(j) => Kept(j)' \/ Wired(j)' BY <4>8, <4>9, HandlerKeeps DEF Places
      <4>11. QED BY <1>0, <3>1, <4>7, <4>10, <2>b, <2>d DEF Somewhere
    <3>4. CASE ~publisher[w]
      <4>1. Goto(w, "nack") /\ UNCHANGED wire BY <2>4, <3>4 DEF HandleFailure
      <4>2. Moved(w, "nack") BY <3>2, <4>1, GotoMoves DEF Places
      <4>3. Kept(j) => Kept(j)' BY <4>2, HandlerKeeps DEF Places
      <4>4. QED BY <1>0, <3>1, <4>1, <4>3, <2>b, <2>d, <2>e DEF Somewhere
    <3>5. QED BY <3>3, <3>4
  <2>5. CASE Ack(w) \/ Nack(w)
    <3>1. UNCHANGED <<ready, wire, dead, done>> /\ lost \subseteq lost'
      BY <2>5 DEF Ack, Nack
    <3>2. Freed(w) BY <2>5, SettledType
    <3>3. Kept(j) => Kept(j)' \/ Over(j)'
      <4>1. worker[w].at # "ack" => JobOf(w) \in lost' BY <2>5 DEF Ack, Nack
      <4>2. QED BY <3>2, <4>1 DEF Kept, Over, Freed, Handling, JobOf
    <3>4. QED BY <1>0, <3>1, <3>3, <2>b, <2>d, <2>e DEF Somewhere
  <2>6. CASE AckThrows(w) \/ Crash(w)
    <3>1. Restart(w) /\ Freed(w) /\ Requeued(w) BY <2>6, DyingIncidents, RestartType
    <3>2. \A r \in Retries : ready'[j][r] >= ready[j][r] BY <3>1, RequeuedType
    <3>3. /\ dead' = dead /\ done' = done /\ lost' = lost \union OnWire(w)
          /\ wire' = [wire EXCEPT ![w] = <<>>]
      BY <3>1 DEF Restart
    <3>4. Wired(j) => Wired(j)' \/ Over(j)'
      <4>1. \A v \in Workers : v # w => wire'[v] = wire[v] BY <3>3 DEF TypeOK
      <4>2. \A v \in Workers : v # w => OnWire(v)' = OnWire(v) BY <4>1, JobsOnWire
      <4>3. QED BY <3>3, <4>2 DEF Wired, Over
    <3>5. Kept(j) => Kept(j)' \/ InQueue(j)' BY <3>1, RequeuedKeeps DEF Freed
    <3>6. QED BY <1>0, <3>2, <3>3, <3>4, <3>5, <2>b, <2>c DEF Somewhere
  <2>7. CASE Accept(w)
    <3>1. /\ wire[w] # <<>> /\ wire' = [wire EXCEPT ![w] = Tail(wire[w])]
          /\ \/ /\ dead' = Bump(dead, Head(wire[w]).job) /\ UNCHANGED ready
             \/ /\ UNCHANGED dead
                /\ \E i \in Jobs, r \in Retries :
                       i = Head(wire[w]).job /\ ReadySet(i, r, ready[i][r] + 1)
      BY <2>7, AcceptType
    <3>2. UNCHANGED <<worker, lost, done>> BY <2>7 DEF Accept
    <3>3. /\ wire'[w] = Tail(wire[w]) /\ \A v \in Workers : v # w => wire'[v] = wire[v]
      BY <3>1 DEF TypeOK
    <3>4. /\ \A v \in Workers : v # w => OnWire(v)' = OnWire(v)
          /\ \A i \in OnWire(w) : i = Head(wire[w]).job \/ i \in OnWire(w)'
      BY <3>1, <3>3, JobsOnWire
    <3>5. Wired(j) => Wired(j)' \/ j = Head(wire[w]).job BY <3>4 DEF Wired
    <3>6. Kept(j) => Kept(j)' BY <3>2 DEF Kept, Handling, JobOf
    <3>7. CASE dead' = Bump(dead, Head(wire[w]).job) /\ UNCHANGED ready
      <4>1. Head(wire[w]).job \in Jobs
        <5>1. wire[w] \in Seq(Messages) BY DEF TypeOK
        <5>2. Head(wire[w]) \in Messages BY <3>1, <5>1
        <5>3. QED BY <5>2 DEF Messages
      <4>2. PICK i \in Jobs : i = Head(wire[w]).job BY <4>1
      <4>3. dead' = Bump(dead, i) BY <3>7, <4>2
      <4>4. Bump(dead, i)[j] = dead[j] + (IF j = i THEN 1 ELSE 0) BY <2>a, BumpType
      <4>5. dead'[j] >= dead[j] /\ (j = i => dead'[j] > 0) BY <4>3, <4>4, <2>a
      <4>6. Over(j) => Over(j)' BY <2>a, <3>2, <4>5, StaysOver
      <4>7. Wired(j) => Wired(j)' \/ Over(j)' BY <3>5, <4>2, <4>5 DEF Over
      <4>8. QED BY <1>0, <2>d, <3>6, <3>7, <4>6, <4>7 DEF Somewhere
    <3>8. ASSUME UNCHANGED dead, NEW i \in Jobs, NEW r \in Retries,
                 i = Head(wire[w]).job, ReadySet(i, r, ready[i][r] + 1)
          PROVE  Somewhere(j)'
      <4>1. PICK n \in Nat : n = ready[i][r] + 1 BY <2>a
      <4>2. ReadySet(i, r, n) BY <3>8, <4>1
      <4>3. /\ ready'[i][r] = n
            /\ \A k \in Jobs : \A s \in Retries : k # i \/ s # r => ready'[k][s] = ready[k][s]
        BY <4>2, ReadyType
      <4>4. \A s \in Retries : ready'[j][s] >= ready[j][s] BY <2>a, <4>1, <4>3
      <4>5. i = j => InQueue(j)' BY <2>a, <4>1, <4>3 DEF InQueue
      <4>6. QED BY <1>0, <2>b, <2>c, <3>2, <3>5, <3>6, <3>8, <4>4, <4>5 DEF Somewhere
    <3>9. QED BY <3>1, <3>7, <3>8
  <2>8. CASE PublisherCloses(w)
    <3>1. UNCHANGED <<ready, dead, worker, done>> /\ lost' = lost \union OnWire(w)
      BY <2>8 DEF PublisherCloses
    <3>2. \A v \in Workers : v # w => OnWire(v)' = OnWire(v)
      BY <2>8, PublisherClosesType, JobsOnWire
    <3>3. Wired(j) => Wired(j)' \/ Over(j)' BY <3>1, <3>2 DEF Wired, Over
    <3>4. Kept(j) => Kept(j)' BY <3>1 DEF Kept, Handling, JobOf
    <3>5. QED BY <1>0, <3>1, <3>3, <3>4, <2>b, <2>d DEF Somewhere
  <2>9. CASE ConsumerCloses(w)
    <3>1. Requeued(w) /\ \A v \in Workers : v # w => worker'[v] = worker[v]
      BY <2>9, ConsumerClosesType
    <3>2. \A r \in Retries : ready'[j][r] >= ready[j][r] BY <3>1, RequeuedType
    <3>3. UNCHANGED <<wire, dead, lost, done>> BY <2>9 DEF ConsumerCloses
    <3>4. Kept(j) => Kept(j)' \/ InQueue(j)' BY <3>1, RequeuedKeeps
    <3>5. QED BY <1>0, <3>2, <3>3, <3>4, <2>b, <2>c, <2>e DEF Somewhere
  <2>10. QED BY <1>2, <2>1, <2>2, <2>3, <2>4, <2>5, <2>6, <2>7, <2>8, <2>9 DEF Step, Incident
<1>3. QED BY <1>1, <1>2 DEF Next

\* A job is in the queue, in progress, in the dead-letter queue or done, or a message
\* of it was dropped: a handler holds on to its message until it has published the
\* retry, and what it lets go of is in the queue again.
THEOREM JobsAreAccountedFor == Spec => []NoJobVanishes
<1>1. SomewhereInv => NoJobVanishes
  BY DEF SomewhereInv, Somewhere, NoJobVanishes, InProgress, Kept, Wired, Over
<1>2. TypeOK /\ SomewhereInv /\ [Next]_vars => SomewhereInv' BY NextSomewhere
<1>3. QED BY <1>1, <1>2, InitSomewhere, TypeCorrect, PTL DEF Spec

-----------------------------------------------------------------------------
(* The queue workers: counting copies *)

\* The copies of a job's message that wait in the queue, and those on their way to it.
ReadyCopies(j) == {x \in Retries \X Nat : x[2] >= 1 /\ x[2] <= ready[j][x[1]]}
WireCopies(j) ==
    {x \in Workers \X Nat :
        /\ x[2] \in 1..Len(wire[x[1]])
        /\ wire[x[1]][x[2]].job = j /\ wire[x[1]][x[2]].to = "queue"}

Countable(j) == IsFiniteSet(ReadyCopies(j)) /\ IsFiniteSet(WireCopies(j))
Pending(j) == Cardinality(ReadyCopies(j)) + Cardinality(WireCopies(j))
One(condition) == IF condition THEN 1 ELSE 0

LEMMA OneMore ==
    ASSUME NEW S, IsFiniteSet(S), NEW x, NEW T, T \subseteq S \union {x}
    PROVE  IsFiniteSet(T) /\ Cardinality(T) <= Cardinality(S) + 1
<1>0. Cardinality(S) \in Nat BY FS_CardinalityType
<1>a. /\ IsFiniteSet(S \union {x})
      /\ Cardinality(S \union {x}) =
             IF x \in S THEN Cardinality(S) ELSE Cardinality(S) + 1
  BY FS_AddElement
<1>1. /\ IsFiniteSet(S \union {x}) /\ Cardinality(S) \in Nat
      /\ Cardinality(S \union {x}) <= Cardinality(S) + 1
  BY <1>0, <1>a
<1>2. IsFiniteSet(T) /\ Cardinality(T) <= Cardinality(S \union {x}) BY <1>1, FS_Subset
<1>3. Cardinality(T) \in Nat /\ Cardinality(S \union {x}) \in Nat
  BY <1>1, <1>2, FS_CardinalityType
<1>4. QED BY <1>1, <1>2, <1>3

LEMMA OneLess ==
    ASSUME NEW S, IsFiniteSet(S), NEW x \in S, NEW T, T \subseteq S \ {x}
    PROVE  IsFiniteSet(T) /\ Cardinality(T) + 1 <= Cardinality(S)
<1>1. /\ IsFiniteSet(S \ {x}) /\ Cardinality(S) \in Nat
      /\ Cardinality(S \ {x}) = Cardinality(S) - 1
  BY FS_RemoveElement, FS_CardinalityType
<1>2. IsFiniteSet(T) /\ Cardinality(T) <= Cardinality(S \ {x}) BY <1>1, FS_Subset
<1>3. Cardinality(T) \in Nat /\ Cardinality(S \ {x}) \in Nat
  BY <1>1, <1>2, FS_CardinalityType
<1>4. QED BY <1>1, <1>2, <1>3

LEMMA NoMore ==
    ASSUME NEW S, IsFiniteSet(S), NEW T, T \subseteq S
    PROVE  IsFiniteSet(T) /\ Cardinality(T) <= Cardinality(S)
BY FS_Subset

LEMMA PendingIsNat == ASSUME NEW j \in Jobs, Countable(j) PROVE Pending(j) \in Nat
BY FS_CardinalityType DEF Countable, Pending

LEMMA InitPending ==
    ASSUME Init, NEW j \in Jobs
    PROVE  Countable(j) /\ Pending(j) = 1
<1>1. ReadyCopies(j) = {<<0, 1>>}
  <2>1. \A r \in Retries : ready[j][r] = One(r = 0) BY DEF Init, One
  <2>2. 0 \in Retries BY ConstantsAssumption DEF Retries
  <2>3. ASSUME NEW x \in ReadyCopies(j) PROVE x = <<0, 1>>
    <3>1. PICK r \in Retries, n \in Nat : x = <<r, n>> /\ n >= 1 /\ n <= ready[j][r]
      BY <2>3 DEF ReadyCopies
    <3>2. QED BY <2>1, <3>1 DEF One
  <2>4. <<0, 1>> \in ReadyCopies(j) BY <2>1, <2>2 DEF ReadyCopies, One
  <2>5. QED BY <2>3, <2>4
<1>2. WireCopies(j) = {}
  <2>1. \A w \in Workers : wire[w] = <<>> BY DEF Init
  <2>2. ASSUME NEW x \in Workers \X Nat PROVE x[2] \notin 1..Len(wire[x[1]])
    <3>1. wire[x[1]] = <<>> BY <2>1
    <3>2. QED BY <3>1
  <2>3. QED BY <2>2 DEF WireCopies
<1>3. /\ IsFiniteSet(ReadyCopies(j)) /\ Cardinality(ReadyCopies(j)) = 1
      /\ IsFiniteSet(WireCopies(j)) /\ Cardinality(WireCopies(j)) = 0
  <2>1. PICK c : c = <<0, 1>> OBVIOUS
  <2>2. ReadyCopies(j) = {c} BY <1>1, <2>1
  <2>3. IsFiniteSet({c}) /\ Cardinality({c}) = 1 BY FS_Singleton
  <2>4. QED BY <1>2, <2>2, <2>3, FS_EmptySet
<1>4. QED BY <1>3 DEF Countable, Pending

\* One more copy, or one less, in the queue.
LEMMA ReadyCounted ==
    ASSUME TypeOK, NEW j \in Jobs, Countable(j), NEW i \in Jobs, NEW r \in Retries
    PROVE  /\ ReadySet(i, r, ready[i][r] + 1) =>
                  /\ IsFiniteSet(ReadyCopies(j)')
                  /\ Cardinality(ReadyCopies(j)') = Cardinality(ReadyCopies(j)) + One(i = j)
           /\ ready[i][r] > 0 /\ ReadySet(i, r, ready[i][r] - 1) =>
                  /\ IsFiniteSet(ReadyCopies(j)')
                  /\ Cardinality(ReadyCopies(j)') = Cardinality(ReadyCopies(j)) - One(i = j)
<1>0. /\ ready \in [Jobs -> [Retries -> Nat]] /\ IsFiniteSet(ReadyCopies(j))
      /\ Cardinality(ReadyCopies(j)) \in Nat
  BY FS_CardinalityType DEF TypeOK, Countable
<1>1. ASSUME NEW n \in Nat, ReadySet(i, r, n)
      PROVE  /\ ready'[i][r] = n
             /\ \A k \in Jobs : \A s \in Retries : k # i \/ s # r => ready'[k][s] = ready[k][s]
  BY <1>1, ReadyType
<1>2. ASSUME NEW n \in Nat, ReadySet(i, r, n), i # j
      PROVE  ReadyCopies(j)' = ReadyCopies(j)
  BY <1>1, <1>2 DEF ReadyCopies
<1>3. ASSUME ReadySet(i, r, ready[i][r] + 1), i = j
      PROVE  /\ IsFiniteSet(ReadyCopies(j)')
             /\ Cardinality(ReadyCopies(j)') = Cardinality(ReadyCopies(j)) + 1
  <2>1. PICK n \in Nat : n = ready[i][r] + 1 BY <1>0
  <2>2. /\ ready'[i][r] = n
        /\ \A k \in Jobs : \A s \in Retries : k # i \/ s # r => ready'[k][s] = ready[k][s]
    BY <1>1, <1>3, <2>1
  <2>3. <<r, n>> \notin ReadyCopies(j) BY <1>0, <1>3, <2>1 DEF ReadyCopies
  <2>4. ASSUME NEW x \in Retries \X Nat
        PROVE  x \in ReadyCopies(j)' <=> x \in ReadyCopies(j) \union {<<r, n>>}
    <3>1. PICK s \in Retries, m \in Nat : x = <<s, m>> OBVIOUS
    <3>2. CASE s = r BY <1>0, <1>3, <2>1, <2>2, <3>1, <3>2 DEF ReadyCopies
    <3>3. CASE s # r BY <1>0, <1>3, <2>2, <3>1, <3>3 DEF ReadyCopies
    <3>4. QED BY <3>2, <3>3
  <2>5. ReadyCopies(j)' = ReadyCopies(j) \union {<<r, n>>}
    <3>1. <<r, n>> \in Retries \X Nat OBVIOUS
    <3>2. ReadyCopies(j) \subseteq Retries \X Nat /\ ReadyCopies(j)' \subseteq Retries \X Nat
      BY DEF ReadyCopies
    <3>3. QED BY <2>4, <3>1, <3>2
  <2>6. QED BY <1>0, <2>3, <2>5, FS_AddElement
<1>4. ASSUME ready[i][r] > 0, ReadySet(i, r, ready[i][r] - 1), i = j
      PROVE  /\ IsFiniteSet(ReadyCopies(j)')
             /\ Cardinality(ReadyCopies(j)') = Cardinality(ReadyCopies(j)) - 1
  <2>0. PICK m \in Nat : m = ready[i][r] BY <1>0
  <2>1. PICK n \in Nat : n = m - 1 BY <1>4, <2>0
  <2>2. /\ ready'[i][r] = n
        /\ \A k \in Jobs : \A s \in Retries : k # i \/ s # r => ready'[k][s] = ready[k][s]
    BY <1>1, <1>4, <2>0, <2>1
  <2>3. <<r, m>> \in ReadyCopies(j) BY <1>0, <1>4, <2>0 DEF ReadyCopies
  <2>4. ASSUME NEW x \in Retries \X Nat
        PROVE  x \in ReadyCopies(j)' <=> x \in ReadyCopies(j) \ {<<r, m>>}
    <3>1. PICK s \in Retries, k \in Nat : x = <<s, k>> OBVIOUS
    <3>2. CASE s = r BY <1>0, <1>4, <2>0, <2>1, <2>2, <3>1, <3>2 DEF ReadyCopies
    <3>3. CASE s # r BY <1>0, <1>4, <2>2, <3>1, <3>3 DEF ReadyCopies
    <3>4. QED BY <3>2, <3>3
  <2>5. ReadyCopies(j)' = ReadyCopies(j) \ {<<r, m>>}
    <3>1. ReadyCopies(j) \subseteq Retries \X Nat /\ ReadyCopies(j)' \subseteq Retries \X Nat
      BY DEF ReadyCopies
    <3>2. QED BY <2>4, <3>1
  <2> DEFINE S == ReadyCopies(j)
             c == <<r, m>>
  <2>6. IsFiniteSet(S) /\ c \in S BY <1>0, <2>3
  <2> HIDE DEF S, c
  <2>7. IsFiniteSet(S \ {c}) /\ Cardinality(S \ {c}) = Cardinality(S) - 1
    BY <2>6, FS_RemoveElement
  <2>8. QED BY <2>5, <2>7 DEF S, c
<1>5. ReadySet(i, r, ready[i][r] + 1) /\ i # j => ReadyCopies(j)' = ReadyCopies(j)
  BY <1>0, <1>2
<1>6. ready[i][r] > 0 /\ ReadySet(i, r, ready[i][r] - 1) /\ i # j
          => ReadyCopies(j)' = ReadyCopies(j)
  <2>1. ready[i][r] > 0 => ready[i][r] - 1 \in Nat BY <1>0
  <2>2. QED BY <1>2, <2>1
<1>7. QED BY <1>0, <1>3, <1>4, <1>5, <1>6 DEF One

\* One message more on a wire, the first one gone, or all of them.
LEMMA WireAppended ==
    ASSUME TypeOK, NEW j \in Jobs, Countable(j), NEW w \in Workers, NEW m \in Messages,
           wire' = [wire EXCEPT ![w] = Append(wire[w], m)]
    PROVE  /\ IsFiniteSet(WireCopies(j)')
           /\ Cardinality(WireCopies(j)') <=
                  Cardinality(WireCopies(j)) + One(m.job = j /\ m.to = "queue")
<1> DEFINE n == Len(wire[w]) + 1
<1>0. /\ wire[w] \in Seq(Messages) /\ n \in Nat
      /\ IsFiniteSet(WireCopies(j)) /\ Cardinality(WireCopies(j)) \in Nat
  BY FS_CardinalityType DEF TypeOK, Countable
<1>1. /\ wire'[w] = Append(wire[w], m) /\ \A v \in Workers : v # w => wire'[v] = wire[v]
  BY DEF TypeOK
<1>2. /\ Len(wire'[w]) = n /\ wire'[w][n] = m
      /\ \A i \in 1..Len(wire[w]) : wire'[w][i] = wire[w][i]
  BY <1>0, <1>1
<1>3. ASSUME NEW x \in WireCopies(j)', x \notin WireCopies(j)
      PROVE  x = <<w, n>> /\ m.job = j /\ m.to = "queue"
  <2>1. PICK v \in Workers, i \in Nat :
            /\ x = <<v, i>> /\ i \in 1..Len(wire'[v])
            /\ wire'[v][i].job = j /\ wire'[v][i].to = "queue"
    BY <1>3 DEF WireCopies
  <2>2. v = w BY <2>1, <1>1, <1>3 DEF WireCopies
  <2>3. CASE i \in 1..Len(wire[w]) BY <2>1, <2>2, <2>3, <1>2, <1>3 DEF WireCopies
  <2>4. CASE i = n BY <2>1, <2>2, <2>4, <1>2
  <2>5. QED BY <2>1, <2>2, <2>3, <2>4, <1>0, <1>2
<1>4. CASE m.job = j /\ m.to = "queue"
  <2>1. WireCopies(j)' \subseteq WireCopies(j) \union {<<w, n>>} BY <1>3
  <2>2. PICK c : c = <<w, n>> OBVIOUS
  <2>3. WireCopies(j)' \subseteq WireCopies(j) \union {c} BY <2>1, <2>2
  <2>4. /\ IsFiniteSet(WireCopies(j)')
        /\ Cardinality(WireCopies(j)') <= Cardinality(WireCopies(j)) + 1
    BY <1>0, <2>3, OneMore
  <2>5. QED BY <1>4, <2>4 DEF One
<1>5. CASE ~(m.job = j /\ m.to = "queue")
  <2>1. WireCopies(j)' \subseteq WireCopies(j) BY <1>3, <1>5
  <2>2. /\ IsFiniteSet(WireCopies(j)')
        /\ Cardinality(WireCopies(j)') <= Cardinality(WireCopies(j))
    BY <1>0, <2>1, FS_Subset
  <2>3. QED BY <1>0, <1>5, <2>2 DEF One
<1>6. QED BY <1>4, <1>5

LEMMA TailPlaces ==
    ASSUME TypeOK, NEW w \in Workers, wire[w] # <<>>, wire' = [wire EXCEPT ![w] = Tail(wire[w])]
    PROVE  /\ Len(wire[w]) \in Nat /\ 1 \in 1..Len(wire[w]) /\ Head(wire[w]) = wire[w][1]
           /\ \A i \in 1..Len(wire'[w]) :
                  i + 1 \in 1..Len(wire[w]) /\ wire'[w][i] = wire[w][i + 1]
           /\ \A v \in Workers : v # w => wire'[v] = wire[v]
<1>1. wire[w] \in Seq(Messages) /\ wire'[w] = Tail(wire[w]) BY DEF TypeOK
<1>2. /\ Len(wire'[w]) = Len(wire[w]) - 1 /\ Len(wire[w]) \in Nat /\ Len(wire[w]) > 0
      /\ \A i \in 1..(Len(wire[w]) - 1) : wire'[w][i] = wire[w][i + 1]
      /\ Head(wire[w]) = wire[w][1]
  <2>1. PICK s \in Seq(Messages) : s = wire[w] /\ s # <<>> BY <1>1
  <2>2. Len(s) \in Nat /\ Len(s) > 0 BY <2>1
  <2>3. Len(Tail(s)) = Len(s) - 1 /\ Head(s) = s[1] BY <2>1
  <2>4. \A i \in 1..(Len(s) - 1) : Tail(s)[i] = s[i + 1] BY <2>1, <2>2
  <2>5. QED BY <1>1, <2>1, <2>2, <2>3, <2>4
<1>3. \A v \in Workers : v # w => wire'[v] = wire[v] BY DEF TypeOK
<1>4. QED BY <1>2, <1>3

\* Every copy that is left has moved up one place: those places are among the others'.
LEMMA WireAccepted ==
    ASSUME TypeOK, NEW j \in Jobs, Countable(j), NEW w \in Workers, wire[w] # <<>>,
           wire' = [wire EXCEPT ![w] = Tail(wire[w])]
    PROVE  /\ IsFiniteSet(WireCopies(j)')
           /\ Cardinality(WireCopies(j)')
                + One(Head(wire[w]).job = j /\ Head(wire[w]).to = "queue")
                    <= Cardinality(WireCopies(j))
<1>0. /\ Len(wire[w]) \in Nat /\ 1 \in 1..Len(wire[w]) /\ Head(wire[w]) = wire[w][1]
      /\ \A i \in 1..Len(wire'[w]) :
             i + 1 \in 1..Len(wire[w]) /\ wire'[w][i] = wire[w][i + 1]
      /\ \A v \in Workers : v # w => wire'[v] = wire[v]
  BY TailPlaces
<1>1. IsFiniteSet(WireCopies(j)) /\ Cardinality(WireCopies(j)) \in Nat
  BY FS_CardinalityType DEF Countable
<1>2. PICK head : head = <<w, 1>> OBVIOUS
<1> DEFINE left == WireCopies(j) \ {head}
           f == [x \in WireCopies(j)' |-> IF x[1] = w THEN <<w, x[2] + 1>> ELSE x]
<1>3. ASSUME NEW x \in WireCopies(j)'
      PROVE  /\ f[x] \in left /\ x[1] \in Workers /\ x[2] \in Nat /\ x = <<x[1], x[2]>>
             /\ f[x] = IF x[1] = w THEN <<w, x[2] + 1>> ELSE x
  <2>1. PICK v \in Workers, i \in Nat :
            /\ x = <<v, i>> /\ i \in 1..Len(wire'[v])
            /\ wire'[v][i].job = j /\ wire'[v][i].to = "queue"
    BY <1>3 DEF WireCopies
  <2>2. f[x] = IF v = w THEN <<w, i + 1>> ELSE <<v, i>> BY <1>3, <2>1
  <2> HIDE DEF f
  <2>3. CASE v # w BY <2>1, <2>2, <2>3, <1>0, <1>2 DEF WireCopies
  <2>4. CASE v = w
    <3>1. /\ i + 1 \in 1..Len(wire[w]) /\ wire[w][i + 1].job = j
          /\ wire[w][i + 1].to = "queue"
      BY <2>1, <2>4, <1>0
    <3>2. PICK k \in Nat : k = i + 1 OBVIOUS
    <3>a. k \in 1..Len(wire[w]) /\ wire[w][k].job = j /\ wire[w][k].to = "queue"
      BY <3>1, <3>2
    <3>3. <<w, k>> \in WireCopies(j) BY <3>a DEF WireCopies
    <3>4. <<w, k>> # head
      <4>1. k # 1 BY <2>1, <3>2
      <4>2. QED BY <1>2, <4>1
    <3>5. f[x] = <<w, k>> BY <2>2, <2>4, <3>2
    <3>6. x[1] = w /\ x[2] = i BY <2>1, <2>4
    <3>7. QED BY <2>1, <2>4, <3>2, <3>3, <3>4, <3>5, <3>6
  <2>5. QED BY <2>3, <2>4
<1>4. ASSUME NEW x \in WireCopies(j)', NEW y \in WireCopies(j)', f[x] = f[y]
      PROVE  x = y
  <2>1. /\ x = <<x[1], x[2]>> /\ x[2] \in Nat /\ f[x] = IF x[1] = w THEN <<w, x[2] + 1>> ELSE x
        /\ y = <<y[1], y[2]>> /\ y[2] \in Nat /\ f[y] = IF y[1] = w THEN <<w, y[2] + 1>> ELSE y
    BY <1>3
  <2> HIDE DEF f
  <2>2. PICK v \in Workers, i \in Nat : x = <<v, i>> BY <2>1, <1>3
  <2>3. PICK u \in Workers, k \in Nat : y = <<u, k>> BY <2>1, <1>3
  <2>4. f[x][1] = v /\ f[x][2] = IF v = w THEN i + 1 ELSE i BY <2>1, <2>2
  <2>5. f[y][1] = u /\ f[y][2] = IF u = w THEN k + 1 ELSE k BY <2>1, <2>3
  <2>6. v = u /\ i = k BY <1>4, <2>4, <2>5
  <2>7. QED BY <2>2, <2>3, <2>6
<1>5. f \in Injection(WireCopies(j)', left)
  <2>1. f \in [WireCopies(j)' -> left] BY <1>3
  <2>2. QED BY <2>1, <1>4 DEF Injection, IsInjective
<1> HIDE DEF f
<1>6. IsFiniteSet(left) /\ left \subseteq WireCopies(j) BY <1>1, FS_Subset
<1>7. /\ IsFiniteSet(WireCopies(j)') /\ Cardinality(WireCopies(j)') <= Cardinality(left)
      /\ Cardinality(WireCopies(j)') \in Nat /\ Cardinality(left) \in Nat
  BY <1>5, <1>6, FS_Injection, FS_CardinalityType
<1>8. CASE Head(wire[w]).job = j /\ Head(wire[w]).to = "queue"
  <2>1. head \in WireCopies(j) BY <1>0, <1>2, <1>8 DEF WireCopies
  <2>2. Cardinality(left) + 1 <= Cardinality(WireCopies(j)) BY <1>1, <2>1, OneLess
  <2>3. QED BY <1>1, <1>7, <1>8, <2>2 DEF One
<1>9. CASE ~(Head(wire[w]).job = j /\ Head(wire[w]).to = "queue")
  <2>1. Cardinality(left) <= Cardinality(WireCopies(j)) BY <1>1, <1>6, NoMore
  <2>2. QED BY <1>1, <1>7, <1>9, <2>1 DEF One
<1>10. QED BY <1>8, <1>9

LEMMA WireDropped ==
    ASSUME TypeOK, NEW j \in Jobs, Countable(j), NEW w \in Workers,
           wire' = [wire EXCEPT ![w] = <<>>]
    PROVE  /\ IsFiniteSet(WireCopies(j)')
           /\ Cardinality(WireCopies(j)') <= Cardinality(WireCopies(j))
<1>1. /\ wire'[w] = <<>> /\ \A v \in Workers : v # w => wire'[v] = wire[v]
  BY DEF TypeOK
<1>2. ASSUME NEW x \in WireCopies(j)' PROVE x \in WireCopies(j)
  <2>1. PICK v \in Workers, i \in Nat :
            /\ x = <<v, i>> /\ i \in 1..Len(wire'[v])
            /\ wire'[v][i].job = j /\ wire'[v][i].to = "queue"
    BY <1>2 DEF WireCopies
  <2>2. v # w BY <1>1, <2>1
  <2>3. QED BY <1>1, <2>1, <2>2 DEF WireCopies
<1>3. QED BY <1>2, FS_Subset DEF Countable

\* How each step changes what is pending of a job.
LEMMA PendingSame ==
    ASSUME NEW j \in Jobs, Countable(j), UNCHANGED <<ready, wire>>
    PROVE  Countable(j)' /\ Pending(j)' = Pending(j)
BY DEF Countable, Pending, ReadyCopies, WireCopies

LEMMA PendingBounds ==
    ASSUME NEW j \in Jobs, Countable(j), NEW a \in Int, NEW b \in Int,
           IsFiniteSet(ReadyCopies(j)'), IsFiniteSet(WireCopies(j)'),
           Cardinality(ReadyCopies(j)') <= Cardinality(ReadyCopies(j)) + a,
           Cardinality(WireCopies(j)') <= Cardinality(WireCopies(j)) + b
    PROVE  Countable(j)' /\ Pending(j)' <= Pending(j) + a + b
<1>1. /\ Cardinality(ReadyCopies(j)) \in Nat /\ Cardinality(WireCopies(j)) \in Nat
      /\ Cardinality(ReadyCopies(j)') \in Nat /\ Cardinality(WireCopies(j)') \in Nat
  BY FS_CardinalityType DEF Countable
<1>2. QED BY <1>1 DEF Countable, Pending

LEMMA SameReady ==
    ASSUME NEW j \in Jobs, Countable(j), UNCHANGED ready
    PROVE  /\ IsFiniteSet(ReadyCopies(j)')
           /\ Cardinality(ReadyCopies(j)') <= Cardinality(ReadyCopies(j)) + 0
<1>1. ReadyCopies(j)' = ReadyCopies(j) BY DEF ReadyCopies
<1>2. QED BY <1>1, FS_CardinalityType DEF Countable

LEMMA SameWire ==
    ASSUME NEW j \in Jobs, Countable(j), UNCHANGED wire
    PROVE  /\ IsFiniteSet(WireCopies(j)')
           /\ Cardinality(WireCopies(j)') <= Cardinality(WireCopies(j)) + 0
<1>1. WireCopies(j)' = WireCopies(j) BY DEF WireCopies
<1>2. QED BY <1>1, FS_CardinalityType DEF Countable

LEMMA DeliverCounts ==
    ASSUME TypeOK, NEW w \in Workers, Deliver(w), NEW j \in Jobs, Countable(j)
    PROVE  /\ Countable(j)' /\ Handling(w)' /\ ~Handling(w) /\ JobOf(w)' \in Jobs
           /\ worker'[w].at = First(kind) /\ ~worker'[w].inApp
           /\ Pending(j)' + One(JobOf(w)' = j) <= Pending(j)
           /\ \A v \in Workers : v # w => worker'[v] = worker[v]
<1>1. PICK i \in Jobs, r \in Retries :
          /\ ready[i][r] > 0 /\ ReadySet(i, r, ready[i][r] - 1)
          /\ worker'[w] = [at |-> First(kind), job |-> i, retry |-> r, held |-> TRUE,
                           inApp |-> FALSE, push |-> "find", left |-> {}]
  BY DeliverType
<1>2. /\ IsFiniteSet(ReadyCopies(j)')
      /\ Cardinality(ReadyCopies(j)') = Cardinality(ReadyCopies(j)) - One(i = j)
  BY <1>1, ReadyCounted
<1>3. UNCHANGED wire /\ ~Handling(w) BY DEF Deliver
<1>4. /\ IsFiniteSet(WireCopies(j)')
      /\ Cardinality(WireCopies(j)') <= Cardinality(WireCopies(j)) + 0
  BY <1>3, SameWire
<1>5. PICK a \in Int : a = 0 - One(i = j)
  <2>1. One(i = j) \in Int BY DEF One
  <2>2. QED BY <2>1
<1>6. Cardinality(ReadyCopies(j)') <= Cardinality(ReadyCopies(j)) + a
  <2>1. Cardinality(ReadyCopies(j)) \in Nat BY FS_CardinalityType DEF Countable
  <2>2. QED BY <1>2, <1>5, <2>1 DEF One
<1>7. Countable(j)' /\ Pending(j)' <= Pending(j) + a + 0
  BY <1>2, <1>4, <1>5, <1>6, PendingBounds
<1>8. Pending(j) \in Nat /\ Pending(j)' \in Nat
  BY <1>7, FS_CardinalityType DEF Countable, Pending
<1>9. Pending(j)' + One(i = j) <= Pending(j) BY <1>5, <1>7, <1>8 DEF One
<1>10. Handling(w)' /\ JobOf(w)' = i /\ worker'[w].at = First(kind) /\ ~worker'[w].inApp
  BY <1>1 DEF Handling, JobOf, First
<1>11. \A v \in Workers : v # w => worker'[v] = worker[v] BY DeliverType
<1>12. QED BY <1>3, <1>7, <1>9, <1>10, <1>11

\* A retry on the wire: only a failure that is not the last one puts it there.
LEMMA FailureCounts ==
    ASSUME TypeOK, NEW w \in Workers, HandleFailure(w), NEW j \in Jobs, Countable(j)
    PROVE  /\ Countable(j)'
           /\ \E b \in BOOLEAN :
                  /\ b => j = JobOf(w)
                  /\ Pending(j)' <= Pending(j) + One(b)
                  /\ retried'[j] = retried[j] + One(b)
<1>0. retried \in [Jobs -> Nat] /\ Pending(j) \in Nat BY Counters, PendingIsNat
<1>1. CASE publisher[w]
  <2>1. RetryMessage(w) \in Messages /\ RetryMessage(w).job = JobOf(w)
    BY RetryMessageType DEF HandleFailure
  <2>2. /\ wire' = [wire EXCEPT ![w] = Append(wire[w], RetryMessage(w))]
        /\ retried' = IF RetryMessage(w).to = "queue" THEN Bump(retried, JobOf(w)) ELSE retried
        /\ UNCHANGED ready
    BY <1>1 DEF HandleFailure, broker
  <2>3. PICK m \in Messages : m = RetryMessage(w) BY <2>1
  <2>4. JobOf(w) = m.job /\ m.job \in Jobs BY <2>1, <2>3 DEF Messages
  <2>5. /\ IsFiniteSet(WireCopies(j)')
        /\ Cardinality(WireCopies(j)') <=
               Cardinality(WireCopies(j)) + One(m.job = j /\ m.to = "queue")
    BY <2>2, <2>3, WireAppended
  <2>6. PICK b \in BOOLEAN : b <=> m.job = j /\ m.to = "queue" OBVIOUS
  <2>7. PICK a \in Int : a = One(b) BY DEF One
  <2>8. Cardinality(WireCopies(j)') <= Cardinality(WireCopies(j)) + a
    BY <2>5, <2>6, <2>7 DEF One
  <2>9. /\ IsFiniteSet(ReadyCopies(j)')
        /\ Cardinality(ReadyCopies(j)') <= Cardinality(ReadyCopies(j)) + 0
    BY <2>2, SameReady
  <2>10. Countable(j)' /\ Pending(j)' <= Pending(j) + 0 + a
    BY <2>5, <2>8, <2>9, PendingBounds
  <2>11. Bump(retried, m.job)[j] = retried[j] + (IF j = m.job THEN 1 ELSE 0)
    BY <1>0, <2>4, BumpType
  <2>12. retried'[j] = retried[j] + One(b)
    BY <1>0, <2>2, <2>3, <2>4, <2>6, <2>11 DEF One
  <2>13. QED BY <1>0, <2>4, <2>6, <2>7, <2>10, <2>12
<1>2. CASE ~publisher[w]
  <2>1. UNCHANGED <<ready, wire, retried>> BY <1>2 DEF HandleFailure
  <2>2. Countable(j)' /\ Pending(j)' = Pending(j) BY <2>1, PendingSame
  <2>3. retried'[j] = retried[j] /\ retried[j] \in Nat BY <1>0, <2>1
  <2>4. PICK b \in BOOLEAN : b = FALSE OBVIOUS
  <2>5. One(b) = 0 BY <2>4 DEF One
  <2>6. Pending(j)' <= Pending(j) + One(b) /\ retried'[j] = retried[j] + One(b)
    BY <1>0, <2>2, <2>3, <2>5
  <2>7. QED BY <2>2, <2>4, <2>6
<1>3. QED BY <1>1, <1>2

LEMMA AcceptCounts ==
    ASSUME TypeOK, NEW w \in Workers, Accept(w), NEW j \in Jobs, Countable(j)
    PROVE  Countable(j)' /\ Pending(j)' <= Pending(j)
<1>0. /\ Pending(j) \in Nat
      /\ wire[w] # <<>> /\ wire' = [wire EXCEPT ![w] = Tail(wire[w])]
      /\ \/ Head(wire[w]).to = "dlq" /\ UNCHANGED ready
         \/ /\ Head(wire[w]).to = "queue"
            /\ \E i \in Jobs, r \in Retries :
                   i = Head(wire[w]).job /\ ReadySet(i, r, ready[i][r] + 1)
  BY AcceptType, PendingIsNat
<1>1. /\ IsFiniteSet(WireCopies(j)')
      /\ Cardinality(WireCopies(j)')
           + One(Head(wire[w]).job = j /\ Head(wire[w]).to = "queue")
               <= Cardinality(WireCopies(j))
  BY <1>0, WireAccepted
<1>2. Cardinality(WireCopies(j)') \in Nat /\ Cardinality(WireCopies(j)) \in Nat
  BY <1>1, FS_CardinalityType DEF Countable
<1>3. CASE UNCHANGED ready
  <2>1. Cardinality(WireCopies(j)') <= Cardinality(WireCopies(j)) + 0
    BY <1>1, <1>2 DEF One
  <2>2. Countable(j)' /\ Pending(j)' <= Pending(j) + 0 + 0
    BY <1>1, <1>3, <2>1, SameReady, PendingBounds
  <2>3. QED BY <1>0, <2>2
<1>4. ASSUME NEW i \in Jobs, NEW r \in Retries, Head(wire[w]).to = "queue",
             i = Head(wire[w]).job, ReadySet(i, r, ready[i][r] + 1)
      PROVE  Countable(j)' /\ Pending(j)' <= Pending(j)
  <2>1. /\ IsFiniteSet(ReadyCopies(j)')
        /\ Cardinality(ReadyCopies(j)') = Cardinality(ReadyCopies(j)) + One(i = j)
    BY <1>4, ReadyCounted
  <2>2. PICK a \in Int : a = One(i = j) BY DEF One
  <2>b. PICK b \in Int : b = 0 - a OBVIOUS
  <2>3. Cardinality(WireCopies(j)') <= Cardinality(WireCopies(j)) + b
    BY <1>1, <1>2, <1>4, <2>2, <2>b DEF One
  <2>4. Cardinality(ReadyCopies(j)') <= Cardinality(ReadyCopies(j)) + a
    <3>1. Cardinality(ReadyCopies(j)) \in Nat BY FS_CardinalityType DEF Countable
    <3>2. QED BY <2>1, <2>2, <3>1
  <2>5. Countable(j)' /\ Pending(j)' <= Pending(j) + a + b
    BY <1>1, <2>1, <2>3, <2>4, PendingBounds
  <2>6. Pending(j)' \in Nat BY <2>5, FS_CardinalityType DEF Countable, Pending
  <2>7. QED BY <1>0, <2>2, <2>b, <2>5, <2>6
<1>5. QED BY <1>0, <1>3, <1>4

\* What w lets go of is one more copy; it is excused, unless the mail is out for good.
LetsGo(w, j) == Handling(w) /\ worker[w].held /\ JobOf(w) = j

LEMMA RequeuedCounts ==
    ASSUME TypeOK, NEW w \in Workers, Requeued(w), NEW j \in Jobs, Countable(j),
           UNCHANGED wire \/ wire' = [wire EXCEPT ![w] = <<>>]
    PROVE  /\ Countable(j)' /\ Pending(j)' <= Pending(j) + One(LetsGo(w, j))
           /\ excuse'[j] = excuse[j] + One(LetsGo(w, j) /\ ~(kind = "email" /\ j \in done))
<1>0. ready \in [Jobs -> [Retries -> Nat]] /\ excuse \in [Jobs -> Nat] /\ Pending(j) \in Nat
  BY Counters, PendingIsNat DEF TypeOK
<1>1. /\ IsFiniteSet(WireCopies(j)')
      /\ Cardinality(WireCopies(j)') <= Cardinality(WireCopies(j)) + 0
  <2>1. Cardinality(WireCopies(j)) \in Nat BY FS_CardinalityType DEF Countable
  <2>2. QED BY <2>1, SameWire, WireDropped
<1>2. CASE Handling(w) /\ worker[w].held
  <2>1. PICK i \in Jobs, r \in Retries : i = JobOf(w) /\ r = worker[w].retry
    BY <1>2, BusyOrIdle
  <2>2. /\ ReadySet(i, r, ready[i][r] + 1)
        /\ excuse' = IF kind = "email" /\ i \in done THEN excuse ELSE Bump(excuse, i)
    BY <1>0, <1>2, <2>1 DEF Requeued, ReadySet
  <2>3. /\ IsFiniteSet(ReadyCopies(j)')
        /\ Cardinality(ReadyCopies(j)') = Cardinality(ReadyCopies(j)) + One(i = j)
    BY <2>2, ReadyCounted
  <2>4. LetsGo(w, j) <=> i = j BY <1>2, <2>1 DEF LetsGo
  <2>5. PICK a \in Int : a = One(LetsGo(w, j)) BY DEF One
  <2>6. Cardinality(ReadyCopies(j)') <= Cardinality(ReadyCopies(j)) + a
    <3>1. Cardinality(ReadyCopies(j)) \in Nat BY FS_CardinalityType DEF Countable
    <3>2. QED BY <2>3, <2>4, <2>5, <3>1 DEF One
  <2>7. Countable(j)' /\ Pending(j)' <= Pending(j) + a + 0
    BY <1>1, <2>3, <2>6, PendingBounds, SMTT(30)
  <2>8. Bump(excuse, i)[j] = excuse[j] + (IF j = i THEN 1 ELSE 0) BY <1>0, BumpType
  <2>9. excuse'[j] = excuse[j] + One(LetsGo(w, j) /\ ~(kind = "email" /\ j \in done))
    BY <1>0, <2>2, <2>4, <2>8 DEF One
  <2>10. QED BY <1>0, <2>5, <2>7, <2>9
<1>3. CASE ~(Handling(w) /\ worker[w].held)
  <2>1. UNCHANGED <<ready, excuse>> /\ ~LetsGo(w, j) BY <1>3 DEF Requeued, LetsGo
  <2>2. Countable(j)' /\ Pending(j)' <= Pending(j) + 0 + 0
    BY <1>1, <2>1, SameReady, PendingBounds
  <2>3. QED BY <1>0, <2>1, <2>2 DEF One
<1>4. QED BY <1>2, <1>3

LEMMA ClosedCounts ==
    ASSUME TypeOK, NEW w \in Workers, PublisherCloses(w), NEW j \in Jobs, Countable(j)
    PROVE  Countable(j)' /\ Pending(j)' <= Pending(j)
<1>1. UNCHANGED ready /\ wire' = [wire EXCEPT ![w] = <<>>] BY DEF PublisherCloses
<1>2. /\ IsFiniteSet(WireCopies(j)')
      /\ Cardinality(WireCopies(j)') <= Cardinality(WireCopies(j)) + 0
  <2>1. Cardinality(WireCopies(j)) \in Nat BY FS_CardinalityType DEF Countable
  <2>2. /\ IsFiniteSet(WireCopies(j)')
        /\ Cardinality(WireCopies(j)') <= Cardinality(WireCopies(j))
    BY <1>1, WireDropped
  <2>3. QED BY <2>1, <2>2
<1>3. Countable(j)' /\ Pending(j)' <= Pending(j) + 0 + 0
  BY <1>1, <1>2, SameReady, PendingBounds
<1>4. QED BY <1>3, PendingIsNat

-----------------------------------------------------------------------------
(* The queue workers: what each kind never does *)

KindInv ==
    /\ kind = "email" =>
           /\ done \subseteq key /\ \A j \in Jobs : rows[j] = 0
           /\ \A w \in Workers : worker[w].at # "dispatch"
    /\ kind = "notification" =>
           /\ \A j \in Jobs : sent[j] = 0
           /\ \A w \in Workers : worker[w].at \notin {"check", "send", "mark"}

LEMMA InitKind == Init => KindInv
BY DEF Init, KindInv, Idle

\* A replica that goes to a place of its own kind keeps the others where they are.
LEMMA PlaceOfKind ==
    ASSUME KindInv, NEW w \in Workers, UNCHANGED kind,
           \A v \in Workers : v # w => worker'[v] = worker[v],
           kind = "email" =>
               /\ worker'[w].at # "dispatch"
               /\ done' \subseteq key' /\ \A j \in Jobs : rows'[j] = rows[j],
           kind = "notification" =>
               /\ worker'[w].at \notin {"check", "send", "mark"}
               /\ \A j \in Jobs : sent'[j] = sent[j]
    PROVE  KindInv'
BY DEF KindInv

LEMMA NextKind == TypeOK /\ KindInv /\ [Next]_vars => KindInv'
<1> SUFFICES ASSUME TypeOK, KindInv, [Next]_vars PROVE KindInv'
  OBVIOUS
<1>1. CASE UNCHANGED vars
  BY <1>1 DEF vars, KindInv, effects
<1>2. ASSUME NEW w \in Workers, Step(w) \/ Incident(w) PROVE KindInv'
  <2> USE DEF broker, channels, effects, Places
  <2>0. /\ kind = "email" =>
               done \subseteq key /\ worker[w].at # "dispatch"
        /\ kind = "notification" => worker[w].at \notin {"check", "send", "mark"}
        /\ kind \in {"email", "notification"}
    BY DEF KindInv, TypeOK
  <2>1. CASE Deliver(w)
    <3>1. /\ worker'[w].at = First(kind)
          /\ \A v \in Workers : v # w => worker'[v] = worker[v]
      <4>1. PICK j \in Jobs, r \in Retries :
                worker'[w] = [at |-> First(kind), job |-> j, retry |-> r, held |-> TRUE,
                              inApp |-> FALSE, push |-> "find", left |-> {}]
        BY <2>1, DeliverType
      <4>2. QED BY <2>1, <4>1, DeliverType
    <3>2. UNCHANGED <<kind, done, key, rows, sent>> BY <2>1 DEF Deliver
    <3>3. QED BY <2>0, <3>1, <3>2, PlaceOfKind DEF First
  <2>2. CASE Check(w) \/ Send(w) \/ Mark(w)
    <3>1. /\ kind = "email" /\ Handling(w) /\ UNCHANGED <<kind, rows>>
      BY <2>0, <2>2, BusyOrIdle DEF Check, Send, Mark
    <3>2. PICK p \in Places \ {"dispatch"} : Goto(w, p)
      BY <2>2 DEF Check, Send, Mark, Finish
    <3>3. Moved(w, p) BY <3>1, <3>2, GotoMoves
    <3>4. done' \subseteq key' BY <2>0, <2>2, <3>1 DEF Check, Send, Mark, Finish
    <3>5. QED BY <3>1, <3>2, <3>3, <3>4, PlaceOfKind DEF Moved
  <2>3. CASE InApp(w) \/ FindDevices(w) \/ Push(w)
    <3>1. Moved(w, "dispatch") BY <2>3, DispatchType
    <3>2. worker[w].at = "dispatch" /\ UNCHANGED <<kind, sent>>
      BY <2>3 DEF InApp, FindDevices, Push
    <3>3. QED BY <2>0, <3>1, <3>2, PlaceOfKind DEF Moved
  <2>4. CASE Settle(w)
    <3>1. worker[w].at = "dispatch" /\ Handling(w) /\ UNCHANGED <<kind, sent>>
      BY <2>4, BusyOrIdle DEF Settle
    <3>2. PICK p \in {"fail", "ack"} : Goto(w, p) BY <2>4 DEF Settle, Finish
    <3>3. Moved(w, p) BY <3>1, <3>2, GotoMoves
    <3>4. QED BY <2>0, <3>1, <3>2, <3>3, PlaceOfKind DEF Moved
  <2>5. CASE HandleFailure(w)
    <3>1. Handling(w) /\ UNCHANGED <<kind, sent, rows, done, key>>
      BY <2>5, BusyOrIdle DEF HandleFailure
    <3>2. PICK p \in {"ack", "nack"} : Goto(w, p) BY <2>5 DEF HandleFailure
    <3>3. Moved(w, p) BY <3>1, <3>2, GotoMoves
    <3>4. QED BY <2>0, <3>1, <3>2, <3>3, PlaceOfKind DEF Moved
  <2>6. CASE Ack(w) \/ Nack(w) \/ AckThrows(w) \/ Crash(w)
    <3>1. Freed(w) /\ UNCHANGED <<kind, sent, rows, done, key>>
      BY <2>6, IdleFrees DEF Ack, Nack, AckThrows, Crash, Restart
    <3>2. QED BY <2>0, <3>1, PlaceOfKind DEF Freed, Idle
  <2>7. CASE Accept(w) \/ PublisherCloses(w)
    BY <2>7 DEF Accept, PublisherCloses, KindInv
  <2>8. CASE ConsumerCloses(w)
    <3>1. \A v \in Workers : worker'[v].at = worker[v].at
      BY <2>8 DEF ConsumerCloses, TypeOK, Busy, Idle
    <3>2. UNCHANGED <<kind, sent, rows, done, key>> BY <2>8 DEF ConsumerCloses
    <3>3. QED BY <3>1, <3>2 DEF KindInv
  <2>9. QED BY <1>2, <2>1, <2>2, <2>3, <2>4, <2>5, <2>6, <2>7, <2>8 DEF Step, Incident
<1>3. QED BY <1>1, <1>2 DEF Next

-----------------------------------------------------------------------------
(* The queue workers: who still owes a run *)

\* A handler that has yet to make the in-app row, and one that may yet send the mail.
OwesRow(w, j) ==
    /\ worker[w].at = "dispatch" /\ JobOf(w) = j /\ ~worker[w].inApp
OwesMail(w, j) ==
    /\ worker[w].at \in {"check", "send", "fail"} /\ JobOf(w) = j
    /\ j \in key => worker[w].at = "send"

RowHolders(j) == {w \in Workers : OwesRow(w, j)}
MailHolders(j) == {w \in Workers : OwesMail(w, j)}

\* Two sets that differ in one element at most.
LEMMA OneApart ==
    ASSUME NEW S, NEW T, NEW w, IsFiniteSet(S), T \subseteq S \union {w}
    PROVE  /\ IsFiniteSet(T)
           /\ Cardinality(T) + (IF w \in S THEN 1 ELSE 0)
                  <= Cardinality(S) + (IF w \in T THEN 1 ELSE 0)
<1>0. Cardinality(S) \in Nat BY FS_CardinalityType
<1>1. IsFiniteSet(T) /\ Cardinality(T) <= Cardinality(S) + 1 BY OneMore
<1>2. Cardinality(T) \in Nat BY <1>1, FS_CardinalityType
<1>3. CASE w \in S /\ w \in T
  <2>1. T \subseteq S BY <1>3
  <2>2. Cardinality(T) <= Cardinality(S) BY <2>1, NoMore
  <2>3. QED BY <1>0, <1>1, <1>2, <1>3, <2>2
<1>4. CASE w \in S /\ w \notin T
  <2>1. T \subseteq S \ {w} BY <1>4
  <2>2. Cardinality(T) + 1 <= Cardinality(S) BY <1>4, <2>1, OneLess
  <2>3. QED BY <1>0, <1>1, <1>2, <1>4, <2>2
<1>5. CASE w \notin S /\ w \in T BY <1>0, <1>1, <1>2, <1>5
<1>6. CASE w \notin S /\ w \notin T
  <2>1. T \subseteq S BY <1>6
  <2>2. Cardinality(T) <= Cardinality(S) BY <2>1, NoMore
  <2>3. QED BY <1>0, <1>1, <1>2, <1>6, <2>2
<1>7. QED BY <1>3, <1>4, <1>5, <1>6

CountInv == \A j \in Jobs : Countable(j)

RowsDue(w, j) == IF OwesRow(w, j) THEN 1 ELSE 0
MailsDue(w, j) == IF OwesMail(w, j) THEN 1 ELSE 0

\* A job with a key has no copy that counts: whoever handles one skips the mail.
PendingMails(j) == IF j \in key THEN 0 ELSE Pending(j)

RowBudget(j) ==
    /\ IsFiniteSet(RowHolders(j))
    /\ rows[j] + Pending(j) + Cardinality(RowHolders(j)) <= 1 + retried[j] + excuse[j]
MailBudget(j) ==
    /\ IsFiniteSet(MailHolders(j))
    /\ sent[j] + PendingMails(j) + Cardinality(MailHolders(j)) <= 1 + excuse[j]

\* A step of one replica keeps the budget of rows if what it adds to the left side is
\* matched on the right.
LEMMA RowStep ==
    ASSUME TypeOK, TypeOK', NEW w \in Workers, NEW j \in Jobs, RowBudget(j),
           Countable(j), Countable(j)',
           \A v \in Workers : v # w => worker'[v] = worker[v],
           rows'[j] + Pending(j)' + RowsDue(w, j)' + retried[j] + excuse[j]
               <= rows[j] + Pending(j) + RowsDue(w, j) + retried'[j] + excuse'[j]
    PROVE  RowBudget(j)'
<1>1. RowHolders(j)' \subseteq RowHolders(j) \union {w}
  BY DEF RowHolders, OwesRow, JobOf
<1>2. IsFiniteSet(RowHolders(j)) BY DEF RowBudget
<1>3. /\ IsFiniteSet(RowHolders(j)')
      /\ Cardinality(RowHolders(j)') + (IF w \in RowHolders(j) THEN 1 ELSE 0)
             <= Cardinality(RowHolders(j)) + (IF w \in RowHolders(j)' THEN 1 ELSE 0)
  BY <1>1, <1>2, OneApart
<1>4. /\ RowsDue(w, j) = IF w \in RowHolders(j) THEN 1 ELSE 0
      /\ RowsDue(w, j)' = IF w \in RowHolders(j)' THEN 1 ELSE 0
  BY DEF RowsDue, RowHolders
<1>5. /\ RowsDue(w, j) \in Nat /\ RowsDue(w, j)' \in Nat BY DEF RowsDue
<1>6. /\ Cardinality(RowHolders(j)') + RowsDue(w, j)
             <= Cardinality(RowHolders(j)) + RowsDue(w, j)'
  BY <1>3, <1>4
<1>7. /\ Cardinality(RowHolders(j)) \in Nat /\ Cardinality(RowHolders(j)') \in Nat
  BY <1>2, <1>3, FS_CardinalityType
<1>8. /\ rows[j] \in Nat /\ retried[j] \in Nat /\ excuse[j] \in Nat BY Counters
<1>9. /\ rows'[j] \in Nat /\ retried'[j] \in Nat /\ excuse'[j] \in Nat BY DEF TypeOK
<1>10. Pending(j) \in Nat /\ Pending(j)' \in Nat
  BY FS_CardinalityType DEF Countable, Pending
<1>11. rows[j] + Pending(j) + Cardinality(RowHolders(j)) <= 1 + retried[j] + excuse[j]
  BY DEF RowBudget
<1>12. rows'[j] + Pending(j)' + Cardinality(RowHolders(j)') <= 1 + retried'[j] + excuse'[j]
  BY <1>5, <1>6, <1>7, <1>8, <1>9, <1>10, <1>11
<1>13. QED BY <1>3, <1>12 DEF RowBudget

\* The same for mails; the keys of other jobs' handlers only make them owe less.
LEMMA MailStep ==
    ASSUME TypeOK, TypeOK', NEW w \in Workers, NEW j \in Jobs, MailBudget(j),
           Countable(j), Countable(j)', key \subseteq key',
           \A v \in Workers : v # w => worker'[v] = worker[v],
           sent'[j] + PendingMails(j)' + MailsDue(w, j)' + excuse[j]
               <= sent[j] + PendingMails(j) + MailsDue(w, j) + excuse'[j]
    PROVE  MailBudget(j)'
<1>1. MailHolders(j)' \subseteq MailHolders(j) \union {w}
  BY DEF MailHolders, OwesMail, JobOf
<1>2. IsFiniteSet(MailHolders(j)) BY DEF MailBudget
<1>3. /\ IsFiniteSet(MailHolders(j)')
      /\ Cardinality(MailHolders(j)') + (IF w \in MailHolders(j) THEN 1 ELSE 0)
             <= Cardinality(MailHolders(j)) + (IF w \in MailHolders(j)' THEN 1 ELSE 0)
  BY <1>1, <1>2, OneApart
<1>4. /\ MailsDue(w, j) = IF w \in MailHolders(j) THEN 1 ELSE 0
      /\ MailsDue(w, j)' = IF w \in MailHolders(j)' THEN 1 ELSE 0
  BY DEF MailsDue, MailHolders
<1>5. /\ MailsDue(w, j) \in Nat /\ MailsDue(w, j)' \in Nat BY DEF MailsDue
<1>6. /\ Cardinality(MailHolders(j)') + MailsDue(w, j)
             <= Cardinality(MailHolders(j)) + MailsDue(w, j)'
  BY <1>3, <1>4
<1>7. /\ Cardinality(MailHolders(j)) \in Nat /\ Cardinality(MailHolders(j)') \in Nat
  BY <1>2, <1>3, FS_CardinalityType
<1>8. /\ sent[j] \in Nat /\ excuse[j] \in Nat BY Counters
<1>9. /\ sent'[j] \in Nat /\ excuse'[j] \in Nat BY DEF TypeOK
<1>a. Pending(j) \in Nat /\ Pending(j)' \in Nat
  BY FS_CardinalityType DEF Countable, Pending
<1>10. PendingMails(j) \in Nat /\ PendingMails(j)' \in Nat BY <1>a DEF PendingMails
<1>11. sent[j] + PendingMails(j) + Cardinality(MailHolders(j)) <= 1 + excuse[j]
  BY DEF MailBudget
<1>12. sent'[j] + PendingMails(j)' + Cardinality(MailHolders(j)') <= 1 + excuse'[j]
  BY <1>5, <1>6, <1>7, <1>8, <1>9, <1>10, <1>11
<1>13. QED BY <1>3, <1>12 DEF MailBudget

BudgetInv ==
    /\ CountInv
    /\ kind = "email" => \A j \in Jobs : MailBudget(j)
    /\ kind = "notification" => \A j \in Jobs : RowBudget(j)

LEMMA InitBudget == Init => BudgetInv
<1> SUFFICES ASSUME Init PROVE BudgetInv
  OBVIOUS
<1>1. ASSUME NEW j \in Jobs PROVE Countable(j) /\ MailBudget(j) /\ RowBudget(j)
  <2>1. Countable(j) /\ Pending(j) = 1 BY InitPending
  <2>2. RowHolders(j) = {} /\ MailHolders(j) = {}
    BY DEF Init, RowHolders, MailHolders, OwesRow, OwesMail, Idle
  <2>3. rows[j] = 0 /\ sent[j] = 0 /\ retried[j] = 0 /\ excuse[j] = 0 BY DEF Init
  <2>4. PendingMails(j) \in {0, 1} BY <2>1 DEF PendingMails
  <2>5. IsFiniteSet({}) /\ Cardinality({}) = 0 BY FS_EmptySet
  <2>6. QED BY <2>1, <2>2, <2>3, <2>4, <2>5 DEF MailBudget, RowBudget
<1>2. QED BY <1>1 DEF BudgetInv, CountInv

\* What the steps that leave queue and wires alone do to the replica.
LEMMA QuietStep ==
    ASSUME NEW w \in Workers,
           \/ Check(w) \/ Send(w) \/ Mark(w) \/ InApp(w) \/ FindDevices(w) \/ Push(w)
           \/ Settle(w) \/ Ack(w) \/ Nack(w)
    PROVE  UNCHANGED <<ready, wire, retried>>
BY DEF Check, Send, Mark, InApp, FindDevices, Push, Settle, Ack, Nack, broker

LEMMA StepCounts ==
    ASSUME TypeOK, NEW w \in Workers, Step(w) \/ Incident(w), NEW j \in Jobs, Countable(j)
    PROVE  Countable(j)'
<1>1. CASE \/ Check(w) \/ Send(w) \/ Mark(w) \/ InApp(w) \/ FindDevices(w) \/ Push(w)
           \/ Settle(w) \/ Ack(w) \/ Nack(w)
  BY <1>1, QuietStep, PendingSame
<1>2. CASE Deliver(w) BY <1>2, DeliverCounts
<1>3. CASE HandleFailure(w) BY <1>3, FailureCounts
<1>4. CASE Accept(w) BY <1>4, AcceptCounts
<1>5. CASE PublisherCloses(w) BY <1>5, ClosedCounts
<1>6. CASE AckThrows(w) \/ Crash(w) \/ ConsumerCloses(w)
  <2>1. Requeued(w) /\ (UNCHANGED wire \/ wire' = [wire EXCEPT ![w] = <<>>])
    BY <1>6 DEF AckThrows, Crash, Restart, ConsumerCloses
  <2>2. QED BY <2>1, RequeuedCounts
<1>7. QED BY <1>1, <1>2, <1>3, <1>4, <1>5, <1>6 DEF Step, Incident

\* A replica whose consuming channel closes goes on with what it handles.
LEMMA GoesOn ==
    ASSUME TypeOK, NEW w \in Workers, ConsumerCloses(w)
    PROVE  \A v \in Workers :
               /\ worker'[v].at = worker[v].at
               /\ Handling(v) => /\ JobOf(v)' = JobOf(v)
                                 /\ worker'[v].inApp = worker[v].inApp
               /\ v # w => worker'[v] = worker[v]
BY DEF ConsumerCloses, TypeOK, Busy, Idle, Handling, JobOf

\* Neither search for devices nor push touches the in-app channel.
LEMMA PushKeepsInApp ==
    ASSUME TypeOK, NEW w \in Workers, FindDevices(w) \/ Push(w)
    PROVE  worker'[w].inApp = worker[w].inApp
<1>1. worker \in [Workers -> Busy \union {Idle}] /\ worker[w] \in Busy
  BY BusyOrIdle DEF FindDevices, Push, Places, TypeOK
<1>2. CASE worker' = [worker EXCEPT ![w].push = "send", ![w].left = devices]
  BY <1>1, <1>2 DEF Busy
<1>3. CASE worker' = [worker EXCEPT ![w].push = "failed"] BY <1>1, <1>3 DEF Busy
<1>4. ASSUME NEW d, worker' = [worker EXCEPT ![w].left = @ \ {d}]
      PROVE  worker'[w].inApp = worker[w].inApp
  BY <1>1, <1>4 DEF Busy
<1>5. QED BY <1>2, <1>3, <1>4 DEF FindDevices, Push

LEMMA RowNumbers ==
    ASSUME TypeOK, TypeOK', NEW j \in Jobs, Countable(j), Countable(j)', NEW w \in Workers
    PROVE  /\ rows[j] \in Nat /\ rows'[j] \in Nat /\ retried[j] \in Nat /\ retried'[j] \in Nat
           /\ excuse[j] \in Nat /\ excuse'[j] \in Nat /\ sent[j] \in Nat /\ sent'[j] \in Nat
           /\ Pending(j) \in Nat /\ Pending(j)' \in Nat
           /\ RowsDue(w, j) \in {0, 1} /\ RowsDue(w, j)' \in {0, 1}
           /\ MailsDue(w, j) \in {0, 1} /\ MailsDue(w, j)' \in {0, 1}
<1>1. /\ Pending(j) \in Nat /\ Pending(j)' \in Nat
  BY FS_CardinalityType DEF Countable, Pending
<1>2. /\ rows[j] \in Nat /\ retried[j] \in Nat /\ excuse[j] \in Nat /\ sent[j] \in Nat
  BY Counters
<1>3. /\ rows'[j] \in Nat /\ retried'[j] \in Nat /\ excuse'[j] \in Nat /\ sent'[j] \in Nat
  BY DEF TypeOK
<1>4. /\ RowsDue(w, j) \in {0, 1} /\ RowsDue(w, j)' \in {0, 1}
      /\ MailsDue(w, j) \in {0, 1} /\ MailsDue(w, j)' \in {0, 1}
  BY DEF RowsDue, MailsDue
<1>5. QED BY <1>1, <1>2, <1>3, <1>4

\* Every step of a notification worker keeps the budget of in-app rows.
LEMMA NotifierRows ==
    ASSUME TypeOK, TypeOK', KindInv, kind = "notification",
           NEW w \in Workers, Step(w) \/ Incident(w), NEW j \in Jobs, Countable(j), RowBudget(j)
    PROVE  RowBudget(j)'
<1> USE DEF broker, channels, effects, Places
<1>0. worker[w].at \notin {"check", "send", "mark"} BY DEF KindInv
<1>a. Countable(j)' BY StepCounts
<1>b. /\ rows[j] \in Nat /\ rows'[j] \in Nat /\ retried[j] \in Nat /\ retried'[j] \in Nat
      /\ excuse[j] \in Nat /\ excuse'[j] \in Nat /\ Pending(j) \in Nat /\ Pending(j)' \in Nat
      /\ RowsDue(w, j) \in {0, 1} /\ RowsDue(w, j)' \in {0, 1}
  BY <1>a, RowNumbers
<1> DEFINE Keeps ==
        rows'[j] + Pending(j)' + RowsDue(w, j)' + retried[j] + excuse[j]
            <= rows[j] + Pending(j) + RowsDue(w, j) + retried'[j] + excuse'[j]
           Others == \A v \in Workers : v # w => worker'[v] = worker[v]
<1>1. CASE Deliver(w)
  <2>1. /\ worker'[w].at = First(kind) /\ ~Handling(w)
        /\ Pending(j)' + One(JobOf(w)' = j) <= Pending(j) /\ Others
    BY <1>1, DeliverCounts
  <2>2. RowsDue(w, j)' <= One(JobOf(w)' = j) BY DEF RowsDue, OwesRow, One
  <2>3. One(JobOf(w)' = j) \in {0, 1} BY DEF One
  <2>4. UNCHANGED <<rows, retried, excuse>> BY <1>1 DEF Deliver
  <2>5. Keeps BY <1>b, <2>1, <2>2, <2>3, <2>4
  <2>6. QED BY <1>a, <2>1, <2>5, RowStep
<1>2. CASE InApp(w)
  <2>1. Moved(w, "dispatch") /\ worker'[w].inApp = TRUE
    BY <1>2, DispatchType DEF InApp, TypeOK, Busy, Idle
  <2>2. UNCHANGED <<ready, wire, retried, excuse>> BY <1>2 DEF InApp
  <2>3. Pending(j)' = Pending(j) BY <2>2, PendingSame
  <2>4. RowsDue(w, j)' = 0 BY <2>1 DEF RowsDue, OwesRow
  <2>5. rows'[j] <= rows[j] + RowsDue(w, j)
    <3>1. JobOf(w) \in Jobs BY <1>2, BusyOrIdle DEF InApp
    <3>2. Bump(rows, JobOf(w))[j] = rows[j] + (IF j = JobOf(w) THEN 1 ELSE 0)
      BY <3>1, BumpType, Counters
    <3>3. RowsDue(w, j) = IF j = JobOf(w) THEN 1 ELSE 0
      BY <1>2 DEF InApp, RowsDue, OwesRow
    <3>4. rows' = Bump(rows, JobOf(w)) \/ rows' = rows BY <1>2 DEF InApp
    <3>5. QED BY <1>b, <3>2, <3>3, <3>4
  <2>6. Keeps BY <1>b, <2>2, <2>3, <2>4, <2>5
  <2>7. QED BY <1>a, <2>1, <2>6, RowStep DEF Moved
<1>3. CASE FindDevices(w) \/ Push(w)
  <2>1. Moved(w, "dispatch") /\ worker'[w].inApp = worker[w].inApp /\ worker[w].at = "dispatch"
    BY <1>3, DispatchType, PushKeepsInApp DEF FindDevices, Push
  <2>2. UNCHANGED <<ready, wire, retried, excuse, rows>> BY <1>3 DEF FindDevices, Push
  <2>3. Pending(j)' = Pending(j) BY <2>2, PendingSame
  <2>4. RowsDue(w, j)' = RowsDue(w, j) BY <2>1 DEF Moved, RowsDue, OwesRow, JobOf
  <2>5. Keeps BY <1>b, <2>2, <2>3, <2>4
  <2>6. QED BY <1>a, <2>1, <2>5, RowStep DEF Moved
<1>4. CASE Settle(w)
  <2>1. PICK p \in {"fail", "ack"} : Goto(w, p) BY <1>4 DEF Settle, Finish
  <2>2. Moved(w, p) BY <1>4, <2>1, GotoMoves, BusyOrIdle DEF Settle
  <2>3. UNCHANGED <<ready, wire, retried, excuse, rows>> BY <1>4 DEF Settle
  <2>4. Pending(j)' = Pending(j) BY <2>3, PendingSame
  <2>5. RowsDue(w, j)' = 0 BY <2>2 DEF Moved, RowsDue, OwesRow
  <2>6. Keeps BY <1>b, <2>3, <2>4, <2>5
  <2>7. QED BY <1>a, <2>2, <2>6, RowStep DEF Moved
<1>5. CASE HandleFailure(w)
  <2>1. PICK p \in {"ack", "nack"} : Goto(w, p) BY <1>5 DEF HandleFailure
  <2>2. Moved(w, p) BY <1>5, <2>1, GotoMoves, BusyOrIdle DEF HandleFailure
  <2>3. UNCHANGED <<excuse, rows>> BY <1>5 DEF HandleFailure
  <2>4. PICK b \in BOOLEAN :
            Pending(j)' <= Pending(j) + One(b) /\ retried'[j] = retried[j] + One(b)
    BY <1>5, FailureCounts
  <2>5. RowsDue(w, j)' = 0 /\ One(b) \in {0, 1} BY <2>2 DEF Moved, RowsDue, OwesRow, One
  <2>6. Keeps BY <1>b, <2>3, <2>4, <2>5
  <2>7. QED BY <1>a, <2>2, <2>6, RowStep DEF Moved
<1>6. CASE Ack(w) \/ Nack(w)
  <2>1. Freed(w) BY <1>6, IdleFrees DEF Ack, Nack
  <2>2. UNCHANGED <<ready, wire, retried, excuse, rows>> BY <1>6 DEF Ack, Nack
  <2>3. Pending(j)' = Pending(j) BY <2>2, PendingSame
  <2>4. RowsDue(w, j)' = 0 BY <2>1 DEF Freed, Idle, RowsDue, OwesRow
  <2>5. Keeps BY <1>b, <2>2, <2>3, <2>4
  <2>6. QED BY <1>a, <2>1, <2>5, RowStep DEF Freed
<1>7. CASE Accept(w) \/ PublisherCloses(w)
  <2>1. Pending(j)' <= Pending(j) BY <1>7, AcceptCounts, ClosedCounts
  <2>2. UNCHANGED <<worker, retried, excuse, rows>> BY <1>7 DEF Accept, PublisherCloses
  <2>3. RowsDue(w, j)' = RowsDue(w, j) BY <2>2 DEF RowsDue, OwesRow, JobOf
  <2>4. Keeps BY <1>b, <2>1, <2>2, <2>3
  <2>5. QED BY <1>a, <2>2, <2>4, RowStep
<1>8. CASE AckThrows(w) \/ Crash(w) \/ ConsumerCloses(w)
  <2>1. /\ Requeued(w) /\ (UNCHANGED wire \/ wire' = [wire EXCEPT ![w] = <<>>])
        /\ UNCHANGED <<retried, rows>>
    BY <1>8 DEF AckThrows, Crash, Restart, ConsumerCloses
  <2>2. PICK b \in BOOLEAN : b <=> LetsGo(w, j) OBVIOUS
  <2>3. /\ Pending(j)' <= Pending(j) + One(LetsGo(w, j))
        /\ excuse'[j] = excuse[j] + One(LetsGo(w, j) /\ ~(kind = "email" /\ j \in done))
    BY <2>1, RequeuedCounts
  <2>4. One(LetsGo(w, j)) = One(LetsGo(w, j) /\ ~(kind = "email" /\ j \in done))
        /\ One(LetsGo(w, j)) \in {0, 1}
    BY DEF One
  <2>5. RowsDue(w, j)' <= RowsDue(w, j) /\ Others
    <3>1. CASE ConsumerCloses(w)
      <4>1. RowsDue(w, j)' = RowsDue(w, j)
        BY <3>1, GoesOn DEF RowsDue, OwesRow, JobOf, Handling
      <4>2. QED BY <1>b, <3>1, <4>1, GoesOn
    <3>2. CASE AckThrows(w) \/ Crash(w)
      <4>1. Freed(w) BY <3>2, IdleFrees DEF AckThrows, Crash, Restart
      <4>2. RowsDue(w, j)' = 0 BY <4>1 DEF Freed, Idle, RowsDue, OwesRow
      <4>3. QED BY <1>b, <4>1, <4>2 DEF Freed
    <3>3. QED BY <1>8, <3>1, <3>2
  <2>6. Keeps
    <3>1. PICK n \in {0, 1} : n = One(LetsGo(w, j)) BY <2>4
    <3>2. Pending(j)' <= Pending(j) + n /\ excuse'[j] = excuse[j] + n BY <2>3, <2>4, <3>1
    <3>3. rows'[j] = rows[j] /\ retried'[j] = retried[j] BY <2>1
    <3>4. QED BY <1>b, <2>5, <3>2, <3>3
  <2>7. QED BY <1>a, <2>5, <2>6, RowStep
<1>9. CASE Check(w) \/ Send(w) \/ Mark(w)
  BY <1>0, <1>9 DEF Check, Send, Mark
<1>10. QED
  BY <1>1, <1>2, <1>3, <1>4, <1>5, <1>6, <1>7, <1>8, <1>9 DEF Step, Incident

\* Every step of an email worker keeps the budget of mails.
LEMMA MailerMails ==
    ASSUME TypeOK, TypeOK', KindInv, kind = "email",
           NEW w \in Workers, Step(w) \/ Incident(w), NEW j \in Jobs, Countable(j), MailBudget(j)
    PROVE  MailBudget(j)'
<1> USE DEF broker, channels, effects, Places
<1>0. worker[w].at # "dispatch" /\ done \subseteq key BY DEF KindInv
<1>a. Countable(j)' BY StepCounts
<1>b. /\ sent[j] \in Nat /\ sent'[j] \in Nat /\ excuse[j] \in Nat /\ excuse'[j] \in Nat
      /\ Pending(j) \in Nat /\ Pending(j)' \in Nat
      /\ MailsDue(w, j) \in {0, 1} /\ MailsDue(w, j)' \in {0, 1}
      /\ excuse \in [Jobs -> Nat] /\ sent \in [Jobs -> Nat]
  BY <1>a, RowNumbers, Counters
<1> DEFINE Keeps ==
        sent'[j] + PendingMails(j)' + MailsDue(w, j)' + excuse[j]
            <= sent[j] + PendingMails(j) + MailsDue(w, j) + excuse'[j]
           Others == \A v \in Workers : v # w => worker'[v] = worker[v]
<1>c. PendingMails(j) \in Nat /\ PendingMails(j)' \in Nat BY <1>b DEF PendingMails
<1>d. ASSUME UNCHANGED <<ready, wire>>, key \subseteq key'
      PROVE  PendingMails(j)' <= PendingMails(j)
  <2>1. Pending(j)' = Pending(j) BY <1>d, PendingSame
  <2>2. QED BY <1>b, <1>d, <2>1 DEF PendingMails
<1>e. JobOf(w) \in Jobs =>
          /\ Bump(sent, JobOf(w))[j] = sent[j] + (IF j = JobOf(w) THEN 1 ELSE 0)
          /\ Bump(excuse, JobOf(w))[j] = excuse[j] + (IF j = JobOf(w) THEN 1 ELSE 0)
  BY <1>b, BumpType
<1>1. CASE Deliver(w)
  <2>1. /\ worker'[w].at = First(kind) /\ ~Handling(w) /\ JobOf(w)' \in Jobs
        /\ Pending(j)' + One(JobOf(w)' = j) <= Pending(j) /\ Others
    BY <1>1, DeliverCounts
  <2>2. UNCHANGED <<key, sent, excuse>> BY <1>1 DEF Deliver
  <2>3. CASE j \in key
    <3>1. PendingMails(j) = 0 /\ PendingMails(j)' = 0 BY <2>2, <2>3 DEF PendingMails
    <3>2. MailsDue(w, j)' = 0 BY <2>1, <2>2, <2>3 DEF MailsDue, OwesMail, First
    <3>3. Keeps BY <1>b, <2>2, <3>1, <3>2
    <3>4. QED BY <1>a, <2>1, <2>2, <3>3, MailStep
  <2>4. CASE j \notin key
    <3>1. PendingMails(j) = Pending(j) /\ PendingMails(j)' = Pending(j)'
      BY <2>2, <2>4 DEF PendingMails
    <3>2. MailsDue(w, j)' <= One(JobOf(w)' = j) BY DEF MailsDue, OwesMail, One
    <3>3. One(JobOf(w)' = j) \in {0, 1} BY DEF One
    <3>4. Keeps BY <1>b, <2>1, <2>2, <3>1, <3>2, <3>3
    <3>5. QED BY <1>a, <2>1, <2>2, <3>4, MailStep
  <2>5. QED BY <2>3, <2>4
<1>2. CASE Check(w)
  <2>1. PICK p \in {"ack", "send", "fail"} :
            Goto(w, p) /\ (p = "ack" => JobOf(w) \in key) /\ (p = "send" => JobOf(w) \notin key)
    BY <1>2 DEF Check, Finish
  <2>2. Moved(w, p) /\ worker[w].at = "check" BY <1>2, <2>1, GotoMoves, BusyOrIdle DEF Check
  <2>3. UNCHANGED <<ready, wire, key, sent, excuse>> BY <1>2 DEF Check
  <2>4. PendingMails(j)' <= PendingMails(j) BY <1>d, <2>3
  <2>5. MailsDue(w, j)' <= MailsDue(w, j)
    BY <2>1, <2>2, <2>3 DEF MailsDue, OwesMail, JobOf, Moved
  <2>6. Keeps BY <1>b, <1>c, <2>3, <2>4, <2>5
  <2>7. QED BY <1>a, <2>2, <2>3, <2>6, MailStep DEF Moved
<1>3. CASE Send(w)
  <2>0. worker[w].at = "send" /\ Handling(w) /\ JobOf(w) \in Jobs
    BY <1>3, BusyOrIdle DEF Send
  <2>1. PICK p \in {"mark", "fail"} :
            /\ Goto(w, p)
            /\ \/ p = "mark" /\ sent' = Bump(sent, JobOf(w)) /\ excuse' = excuse
               \/ p = "fail" /\ sent' = sent /\ excuse' = excuse
               \/ p = "fail" /\ sent' = Bump(sent, JobOf(w)) /\ excuse' = Bump(excuse, JobOf(w))
    BY <1>3 DEF Send
  <2>2. Moved(w, p) BY <2>0, <2>1, GotoMoves
  <2>3. UNCHANGED <<ready, wire, key>> BY <1>3 DEF Send
  <2>4. PendingMails(j)' <= PendingMails(j) BY <1>d, <2>3
  <2>5. MailsDue(w, j) = IF j = JobOf(w) THEN 1 ELSE 0 BY <2>0 DEF MailsDue, OwesMail
  <2>6. MailsDue(w, j)' <= MailsDue(w, j) /\ (p = "mark" => MailsDue(w, j)' = 0)
    BY <2>0, <2>1, <2>2, <2>3 DEF MailsDue, OwesMail, JobOf, Moved
  <2>7. \/ p = "mark" /\ sent'[j] = sent[j] + MailsDue(w, j) /\ excuse'[j] = excuse[j]
        \/ sent'[j] = sent[j] /\ excuse'[j] = excuse[j]
        \/ sent'[j] = sent[j] + MailsDue(w, j) /\ excuse'[j] = excuse[j] + MailsDue(w, j)
    BY <1>e, <2>0, <2>1, <2>5
  <2>8. Keeps BY <1>b, <1>c, <2>4, <2>6, <2>7
  <2>9. QED BY <1>a, <2>2, <2>3, <2>8, MailStep DEF Moved
<1>4. CASE Mark(w)
  <2>0. worker[w].at = "mark" /\ Handling(w) /\ JobOf(w) \in Jobs
    BY <1>4, BusyOrIdle DEF Mark
  <2>1. PICK p \in {"ack", "fail"} :
            /\ Goto(w, p)
            /\ \/ p = "ack" /\ key' = key \union {JobOf(w)} /\ excuse' = excuse
               \/ p = "fail" /\ key' = key /\ excuse' = Bump(excuse, JobOf(w))
    BY <1>4 DEF Mark, Finish
  <2>2. Moved(w, p) BY <2>0, <2>1, GotoMoves
  <2>3. UNCHANGED <<ready, wire, sent>> /\ key \subseteq key' BY <1>4, <2>1 DEF Mark
  <2>4. PendingMails(j)' <= PendingMails(j) BY <1>d, <2>3
  <2>5. /\ p = "ack" => MailsDue(w, j)' = 0
        /\ p = "fail" => MailsDue(w, j)' <= IF j = JobOf(w) THEN 1 ELSE 0
    BY <2>2 DEF MailsDue, OwesMail, JobOf, Moved
  <2>6. \/ p = "ack" /\ excuse'[j] = excuse[j]
        \/ p = "fail" /\ excuse'[j] = excuse[j] + (IF j = JobOf(w) THEN 1 ELSE 0)
    BY <1>e, <2>0, <2>1
  <2>7. Keeps BY <1>b, <1>c, <2>3, <2>4, <2>5, <2>6
  <2>8. QED BY <1>a, <2>2, <2>3, <2>7, MailStep DEF Moved
<1>5. CASE HandleFailure(w)
  <2>1. PICK p \in {"ack", "nack"} : Goto(w, p) BY <1>5 DEF HandleFailure
  <2>2. Moved(w, p) /\ worker[w].at = "fail"
    BY <1>5, <2>1, GotoMoves, BusyOrIdle DEF HandleFailure
  <2>3. UNCHANGED <<key, sent, excuse>> BY <1>5 DEF HandleFailure
  <2>4. PICK b \in BOOLEAN : (b => j = JobOf(w)) /\ Pending(j)' <= Pending(j) + One(b)
    BY <1>5, FailureCounts
  <2>5. MailsDue(w, j)' = 0 BY <2>2 DEF Moved, MailsDue, OwesMail
  <2>6. PendingMails(j)' <= PendingMails(j) + MailsDue(w, j)
    <3>1. CASE j \in key BY <1>b, <1>c, <2>3, <3>1 DEF PendingMails
    <3>2. CASE j \notin key
      <4>1. PendingMails(j) = Pending(j) /\ PendingMails(j)' = Pending(j)'
        BY <2>3, <3>2 DEF PendingMails
      <4>2. One(b) <= MailsDue(w, j) /\ One(b) \in {0, 1}
        BY <2>2, <2>4, <3>2 DEF One, MailsDue, OwesMail
      <4>3. QED BY <1>b, <2>4, <4>1, <4>2
    <3>3. QED BY <3>1, <3>2
  <2>7. Keeps BY <1>b, <1>c, <2>3, <2>5, <2>6
  <2>8. QED BY <1>a, <2>2, <2>3, <2>7, MailStep DEF Moved
<1>6. CASE Ack(w) \/ Nack(w)
  <2>1. Freed(w) BY <1>6, IdleFrees DEF Ack, Nack
  <2>2. UNCHANGED <<ready, wire, key, excuse, sent>> BY <1>6 DEF Ack, Nack
  <2>3. PendingMails(j)' <= PendingMails(j) BY <1>d, <2>2
  <2>4. MailsDue(w, j)' = 0 BY <2>1 DEF Freed, Idle, MailsDue, OwesMail
  <2>5. Keeps BY <1>b, <1>c, <2>2, <2>3, <2>4
  <2>6. QED BY <1>a, <2>1, <2>2, <2>5, MailStep DEF Freed
<1>7. CASE Accept(w) \/ PublisherCloses(w)
  <2>1. Pending(j)' <= Pending(j) BY <1>7, AcceptCounts, ClosedCounts
  <2>2. UNCHANGED <<worker, key, excuse, sent>> BY <1>7 DEF Accept, PublisherCloses
  <2>3. MailsDue(w, j)' = MailsDue(w, j) BY <2>2 DEF MailsDue, OwesMail, JobOf
  <2>4. PendingMails(j)' <= PendingMails(j) BY <1>b, <2>1, <2>2 DEF PendingMails
  <2>5. Keeps BY <1>b, <1>c, <2>2, <2>3, <2>4
  <2>6. QED BY <1>a, <2>2, <2>5, MailStep
<1>8. CASE AckThrows(w) \/ Crash(w) \/ ConsumerCloses(w)
  <2>1. /\ Requeued(w) /\ (UNCHANGED wire \/ wire' = [wire EXCEPT ![w] = <<>>])
        /\ UNCHANGED <<key, sent>>
    BY <1>8 DEF AckThrows, Crash, Restart, ConsumerCloses
  <2>3. /\ Pending(j)' <= Pending(j) + One(LetsGo(w, j))
        /\ excuse'[j] = excuse[j] + One(LetsGo(w, j) /\ ~(kind = "email" /\ j \in done))
    BY <2>1, RequeuedCounts
  <2>4. /\ One(LetsGo(w, j)) \in {0, 1}
        /\ One(LetsGo(w, j) /\ ~(kind = "email" /\ j \in done)) \in {0, 1}
        /\ j \notin key => One(LetsGo(w, j)) = One(LetsGo(w, j) /\ ~(kind = "email" /\ j \in done))
    BY <1>0 DEF One
  <2>5. MailsDue(w, j)' <= MailsDue(w, j) /\ Others
    <3>1. CASE ConsumerCloses(w)
      <4>1. MailsDue(w, j)' = MailsDue(w, j)
        BY <2>1, <3>1, GoesOn DEF MailsDue, OwesMail, JobOf, Handling
      <4>2. QED BY <1>b, <3>1, <4>1, GoesOn
    <3>2. CASE AckThrows(w) \/ Crash(w)
      <4>1. Freed(w) BY <3>2, IdleFrees DEF AckThrows, Crash, Restart
      <4>2. MailsDue(w, j)' = 0 BY <4>1 DEF Freed, Idle, MailsDue, OwesMail
      <4>3. QED BY <1>b, <4>1, <4>2 DEF Freed
    <3>3. QED BY <1>8, <3>1, <3>2
  <2>6. PendingMails(j)' + excuse[j] <= PendingMails(j) + excuse'[j]
    <3>1. PICK n \in {0, 1} : n = One(LetsGo(w, j)) BY <2>4
    <3>2. PICK m \in {0, 1} : m = One(LetsGo(w, j) /\ ~(kind = "email" /\ j \in done)) BY <2>4
    <3>3. Pending(j)' <= Pending(j) + n /\ excuse'[j] = excuse[j] + m BY <2>3, <3>1, <3>2
    <3>4. j \notin key => n = m BY <2>4, <3>1, <3>2
    <3>5. CASE j \in key BY <1>b, <2>1, <3>3, <3>5 DEF PendingMails
    <3>6. CASE j \notin key
      <4>1. PendingMails(j) = Pending(j) /\ PendingMails(j)' = Pending(j)'
        BY <2>1, <3>6 DEF PendingMails
      <4>2. QED BY <1>b, <3>3, <3>4, <3>6, <4>1
    <3>7. QED BY <3>5, <3>6
  <2>7. Keeps
    <3>1. sent'[j] = sent[j] BY <2>1
    <3>2. QED BY <1>b, <1>c, <2>5, <2>6, <3>1
  <2>8. QED BY <1>a, <2>1, <2>5, <2>7, MailStep
<1>9. CASE InApp(w) \/ FindDevices(w) \/ Push(w) \/ Settle(w)
  BY <1>0, <1>9 DEF InApp, FindDevices, Push, Settle
<1>10. QED
  BY <1>1, <1>2, <1>3, <1>4, <1>5, <1>6, <1>7, <1>8, <1>9 DEF Step, Incident

LEMMA NextBudget == TypeOK /\ KindInv /\ TypeOK' /\ BudgetInv /\ [Next]_vars => BudgetInv'
<1> SUFFICES ASSUME TypeOK, KindInv, TypeOK', BudgetInv, [Next]_vars PROVE BudgetInv'
  OBVIOUS
<1>1. CASE UNCHANGED vars
  BY <1>1 DEF vars, broker, effects, BudgetInv, CountInv, Countable, ReadyCopies, WireCopies,
      MailBudget, RowBudget, Pending, PendingMails, RowHolders, MailHolders, OwesRow, OwesMail,
      JobOf
<1>2. ASSUME NEW w \in Workers, Step(w) \/ Incident(w) PROVE BudgetInv'
  <2>1. UNCHANGED kind
    BY <1>2 DEF Step, Incident, Deliver, Check, Send, Mark, InApp, FindDevices, Push, Settle,
        HandleFailure, Ack, Nack, AckThrows, Accept, PublisherCloses, ConsumerCloses, Crash,
        Restart
  <2>2. \A j \in Jobs : Countable(j)' BY <1>2, StepCounts DEF BudgetInv, CountInv
  <2>3. kind = "email" => \A j \in Jobs : MailBudget(j)'
    BY <1>2, MailerMails DEF BudgetInv, CountInv
  <2>4. kind = "notification" => \A j \in Jobs : RowBudget(j)'
    BY <1>2, NotifierRows DEF BudgetInv, CountInv
  <2>5. QED BY <2>1, <2>2, <2>3, <2>4 DEF BudgetInv, CountInv
<1>3. QED BY <1>1, <1>2 DEF Next

LEMMA BudgetsHold == Spec => [](TypeOK /\ KindInv /\ BudgetInv)
<1>1. TypeOK /\ KindInv /\ BudgetInv /\ [Next]_vars => (TypeOK /\ KindInv /\ BudgetInv)'
  BY NextType, NextKind, NextBudget
<1>2. Init => TypeOK /\ KindInv /\ BudgetInv BY InitType, InitKind, InitBudget
<1>3. QED BY <1>1, <1>2, PTL DEF Spec

\* A mail goes out a second time only with an excuse: a redelivery before a handler
\* was done with the job, or a send or mark that failed although the mail was out.
THEOREM EveryMailIsExplained == Spec => []MailsExplained
<1>1. TypeOK /\ KindInv /\ BudgetInv => MailsExplained
  <2> SUFFICES ASSUME TypeOK, KindInv, BudgetInv, NEW j \in Jobs
               PROVE  sent[j] <= 1 + excuse[j]
    BY DEF MailsExplained
  <2>1. Countable(j) /\ kind \in {"email", "notification"}
    BY DEF BudgetInv, CountInv, TypeOK
  <2>2. sent[j] \in Nat /\ excuse[j] \in Nat /\ Pending(j) \in Nat
    BY <2>1, Counters, PendingIsNat
  <2>3. CASE kind = "notification" BY <2>2, <2>3 DEF KindInv
  <2>4. CASE kind = "email"
    <3>1. MailBudget(j) BY <2>4 DEF BudgetInv
    <3>2. Cardinality(MailHolders(j)) \in Nat BY <3>1, FS_CardinalityType DEF MailBudget
    <3>3. PendingMails(j) \in Nat BY <2>2 DEF PendingMails
    <3>4. QED BY <2>2, <3>1, <3>2, <3>3 DEF MailBudget
  <2>5. QED BY <2>1, <2>3, <2>4
<1>2. QED BY <1>1, BudgetsHold, PTL

\* An in-app row is made a second time only because the push was retried or the
\* message redelivered.
THEOREM EveryRowIsExplained == Spec => []RowsExplained
<1>1. TypeOK /\ KindInv /\ BudgetInv => RowsExplained
  <2> SUFFICES ASSUME TypeOK, KindInv, BudgetInv, NEW j \in Jobs
               PROVE  rows[j] <= 1 + retried[j] + excuse[j]
    BY DEF RowsExplained
  <2>1. Countable(j) /\ kind \in {"email", "notification"}
    BY DEF BudgetInv, CountInv, TypeOK
  <2>2. rows[j] \in Nat /\ excuse[j] \in Nat /\ retried[j] \in Nat /\ Pending(j) \in Nat
    BY <2>1, Counters, PendingIsNat
  <2>3. CASE kind = "email" BY <2>2, <2>3 DEF KindInv
  <2>4. CASE kind = "notification"
    <3>1. RowBudget(j) BY <2>4 DEF BudgetInv
    <3>2. Cardinality(RowHolders(j)) \in Nat BY <3>1, FS_CardinalityType DEF RowBudget
    <3>3. QED BY <2>2, <3>1, <3>2 DEF RowBudget
  <2>5. QED BY <2>1, <2>3, <2>4
<1>2. QED BY <1>1, BudgetsHold, PTL

-----------------------------------------------------------------------------
(* The queue workers: parked after the retries *)

\* What a message says of the retries of its job; the last one goes to the dead letters.
Paid(f, m) == f[m.job] >= (IF m.to = "dlq" THEN MAX_RETRIES ELSE m.retry)
QueuePaid == \A j \in Jobs : \A r \in Retries : ready[j][r] > 0 => retried[j] >= r
DeadPaid == \A j \in Jobs : dead[j] > 0 => retried[j] >= MAX_RETRIES
HeldPaid(w) == Handling(w) => retried[JobOf(w)] >= worker[w].retry
WirePaid(w) == \A i \in 1..Len(wire[w]) : Paid(retried, wire[w][i])

\* No copy of a message is ahead of the retries of its job, wherever it is.
RetriesInv == QueuePaid /\ DeadPaid /\ \A w \in Workers : HeldPaid(w) /\ WirePaid(w)

LEMMA InitRetries == Init => RetriesInv
<1> SUFFICES ASSUME Init PROVE RetriesInv
  OBVIOUS
<1>1. \A j \in Jobs : \A r \in Retries : ready[j][r] > 0 => r = 0 BY DEF Init
<1>2. \A w \in Workers : Len(wire[w]) = 0 /\ ~Handling(w) BY DEF Init, Handling, Idle
<1>3. \A j \in Jobs : retried[j] = 0 /\ dead[j] = 0 BY DEF Init
<1>4. \A w \in Workers : 1..Len(wire[w]) = {} BY <1>2
<1>5. QED BY <1>1, <1>2, <1>3, <1>4 DEF RetriesInv, QueuePaid, DeadPaid, HeldPaid, WirePaid

\* Retries are only added, so what stays where it is stays paid.
LEMMA PaidStays ==
    ASSUME TypeOK, TypeOK', RetriesInv, \A j \in Jobs : retried'[j] >= retried[j]
    PROVE  /\ (\A j \in Jobs : \A r \in Retries : ready'[j][r] > 0 => ready[j][r] > 0) => QueuePaid'
           /\ dead' = dead => DeadPaid'
           /\ \A w \in Workers : worker'[w] = worker[w] => HeldPaid(w)'
           /\ \A w \in Workers : \A p \in Places : Handling(w) /\ Moved(w, p) => HeldPaid(w)'
           /\ \A w \in Workers : worker'[w] = Idle => HeldPaid(w)'
           /\ \A w \in Workers : wire'[w] = wire[w] => WirePaid(w)'
           /\ \A w \in Workers : wire'[w] = <<>> => WirePaid(w)'
           /\ \A m \in Messages : Paid(retried, m) => Paid(retried', m)
<1>0. /\ retried \in [Jobs -> Nat] /\ retried' \in [Jobs -> Nat]
      /\ MAX_RETRIES \in Nat /\ Retries \subseteq Nat
  BY ConstantsAssumption DEF TypeOK, Retries
<1>1. \A j \in Jobs : \A n \in Nat : retried[j] >= n => retried'[j] >= n BY <1>0
<1>2. \A m \in Messages : Paid(retried, m) => Paid(retried', m)
  <2> SUFFICES ASSUME NEW m \in Messages, Paid(retried, m) PROVE Paid(retried', m)
    OBVIOUS
  <2>1. m.job \in Jobs /\ m.retry \in Nat BY <1>0 DEF Messages
  <2>2. QED BY <1>0, <1>1, <2>1 DEF Paid
<1>3. \A w \in Workers : wire'[w] = wire[w] => WirePaid(w)'
  <2> SUFFICES ASSUME NEW w \in Workers, wire'[w] = wire[w], NEW i \in 1..Len(wire[w])
               PROVE  Paid(retried', wire[w][i])
    BY DEF WirePaid
  <2>1. wire[w] \in Seq(Messages) BY DEF TypeOK
  <2>2. PICK m \in Messages : m = wire[w][i] BY <2>1
  <2>3. Paid(retried, m) BY <2>2 DEF RetriesInv, WirePaid
  <2>4. m = wire'[w][i] BY <2>2
  <2>5. QED BY <1>2, <2>3, <2>4 DEF Paid
<1>4. ASSUME NEW w \in Workers, worker[w] \in Busy,
             worker'[w].job = worker[w].job, worker'[w].retry = worker[w].retry
      PROVE  HeldPaid(w)'
  <2>1. Handling(w) /\ JobOf(w) \in Jobs /\ worker[w].retry \in Nat BY <1>0, <1>4, BusyOrIdle
  <2>2. retried[JobOf(w)] >= worker[w].retry BY <2>1 DEF RetriesInv, HeldPaid
  <2>3. QED BY <1>1, <1>4, <2>1, <2>2 DEF HeldPaid, JobOf
<1>5. \A w \in Workers : worker'[w] = Idle => HeldPaid(w)' BY DEF HeldPaid, Handling, Idle
<1>6. \A w \in Workers : worker'[w] = worker[w] => HeldPaid(w)'
  BY <1>4, <1>5, BusyOrIdle
<1>7. \A w \in Workers : \A p \in Places : Handling(w) /\ Moved(w, p) => HeldPaid(w)'
  BY <1>4, BusyOrIdle DEF Moved
<1>8. (\A j \in Jobs : \A r \in Retries : ready'[j][r] > 0 => ready[j][r] > 0) => QueuePaid'
  BY <1>0, <1>1 DEF RetriesInv, QueuePaid
<1>9. dead' = dead => DeadPaid' BY <1>0, <1>1 DEF RetriesInv, DeadPaid
<1>10. \A w \in Workers : wire'[w] = <<>> => WirePaid(w)'
  <2>1. \A w \in Workers : wire'[w] = <<>> => 1..Len(wire'[w]) = {} OBVIOUS
  <2>2. QED BY <2>1 DEF WirePaid
<1>11. QED BY <1>2, <1>3, <1>5, <1>6, <1>7, <1>8, <1>9, <1>10

\* What a worker gives back to the queue is as far as its retries.
LEMMA RequeuedPaid ==
    ASSUME TypeOK, NEW w \in Workers, RetriesInv, Requeued(w), UNCHANGED retried
    PROVE  QueuePaid'
<1>0. ready \in [Jobs -> [Retries -> Nat]] BY DEF TypeOK
<1>1. CASE Handling(w) /\ worker[w].held
  <2>1. PICK j \in Jobs, r \in Retries : j = JobOf(w) /\ r = worker[w].retry
    BY <1>1, BusyOrIdle
  <2>2. PICK n \in Nat : n = ready[j][r] + 1 BY <1>0
  <2>3. ReadySet(j, r, n) BY <1>0, <1>1, <2>1, <2>2 DEF Requeued, ReadySet
  <2>4. \A i \in Jobs : \A s \in Retries : i # j \/ s # r => ready'[i][s] = ready[i][s]
    BY <2>3, ReadyType
  <2>5. retried[j] >= r BY <1>1, <2>1 DEF RetriesInv, HeldPaid
  <2>6. QED BY <2>4, <2>5 DEF RetriesInv, QueuePaid
<1>2. CASE ~(Handling(w) /\ worker[w].held)
  BY <1>2 DEF Requeued, RetriesInv, QueuePaid
<1>3. QED BY <1>1, <1>2

LEMMA NextRetries ==
    ASSUME TypeOK, RetriesInv, [Next]_vars
    PROVE  RetriesInv'
<1> USE DEF broker, channels, effects
<1>0. TypeOK' BY NextType
<1>a. /\ retried \in [Jobs -> Nat] /\ MAX_RETRIES \in Nat /\ Retries = 0..MAX_RETRIES
      /\ ready \in [Jobs -> [Retries -> Nat]] /\ wire \in [Workers -> Seq(Messages)]
  BY ConstantsAssumption DEF TypeOK, Retries
<1>b. retried' = retried => \A j \in Jobs : retried'[j] >= retried[j] BY <1>a
<1>1. CASE UNCHANGED vars
  BY <1>0, <1>1, <1>b, PaidStays DEF vars, RetriesInv
<1>2. ASSUME NEW w \in Workers, Step(w) \/ Incident(w) PROVE RetriesInv'
  <2>1. CASE Deliver(w)
    <3>1. UNCHANGED <<wire, dead, retried>> BY <2>1 DEF Deliver
    <3>2. PICK j \in Jobs, r \in Retries :
              /\ ready[j][r] > 0 /\ ReadySet(j, r, ready[j][r] - 1)
              /\ worker'[w] = [at |-> First(kind), job |-> j, retry |-> r, held |-> TRUE,
                               inApp |-> FALSE, push |-> "find", left |-> {}]
      BY <2>1, DeliverType
    <3>3. \A v \in Workers : v # w => worker'[v] = worker[v] BY <2>1, DeliverType
    <3>4. HeldPaid(w)'
      <4>1. retried[j] >= r BY <3>2 DEF RetriesInv, QueuePaid
      <4>2. QED BY <3>1, <3>2, <4>1 DEF HeldPaid, JobOf
    <3>5. \A i \in Jobs : \A s \in Retries : ready'[i][s] > 0 => ready[i][s] > 0
      <4>1. PICK n \in Nat : n = ready[j][r] - 1 BY <1>a, <3>2
      <4>2. ReadySet(j, r, n) BY <3>2, <4>1
      <4>3. \A i \in Jobs : \A s \in Retries : i # j \/ s # r => ready'[i][s] = ready[i][s]
        BY <4>2, ReadyType
      <4>4. QED BY <3>2, <4>3
    <3>6. QED BY <1>0, <1>b, <3>1, <3>3, <3>4, <3>5, PaidStays DEF RetriesInv
  <2>2. CASE Check(w) \/ Send(w) \/ Mark(w) \/ Settle(w) \/ InApp(w) \/ FindDevices(w) \/ Push(w)
    <3>1. UNCHANGED <<ready, wire, dead, retried>>
      BY <2>2 DEF Check, Send, Mark, Settle, InApp, FindDevices, Push
    <3>2. PICK p \in Places : Handling(w) /\ Moved(w, p)
      <4>1. CASE Check(w) \/ Send(w) \/ Mark(w) \/ Settle(w)
        <5>1. Handling(w) BY <4>1, BusyOrIdle DEF Check, Send, Mark, Settle, Places
        <5>2. \E p \in Places : Goto(w, p) BY <4>1 DEF Check, Send, Mark, Settle, Finish, Places
        <5>3. QED BY <5>1, <5>2, GotoMoves
      <4>2. CASE InApp(w) \/ FindDevices(w) \/ Push(w)
        <5>1. Handling(w) BY <4>2, BusyOrIdle DEF InApp, FindDevices, Push, Places
        <5>2. QED BY <4>2, <5>1, DispatchType DEF Places
      <4>3. QED BY <2>2, <4>1, <4>2
    <3>3. HeldPaid(w)' BY <1>0, <1>b, <3>1, <3>2, PaidStays
    <3>4. \A v \in Workers : v # w => worker'[v] = worker[v] BY <3>2 DEF Moved
    <3>5. QED BY <1>0, <1>b, <3>1, <3>3, <3>4, PaidStays DEF RetriesInv
  <2>3. CASE HandleFailure(w)
    <3>0. UNCHANGED <<ready, dead>> BY <2>3 DEF HandleFailure
    <3>1. Handling(w) /\ JobOf(w) \in Jobs /\ worker[w].retry \in Retries
      BY <2>3, BusyOrIdle DEF HandleFailure, Places
    <3>2. PICK p \in Places : Moved(w, p)
      <4>1. \E p \in Places : Goto(w, p) BY <2>3 DEF HandleFailure, Places
      <4>2. QED BY <3>1, <4>1, GotoMoves
    <3>3. PICK m \in Messages : m = RetryMessage(w) BY <2>3, RetryMessageType DEF HandleFailure
    <3>4. PICK j \in Jobs : j = JobOf(w) BY <3>1
    <3>5. PICK r \in Nat : r = worker[w].retry /\ r <= MAX_RETRIES BY <1>a, <3>1
    <3>6. retried[j] >= r BY <3>1, <3>4, <3>5 DEF RetriesInv, HeldPaid
    <3>7. (\A i \in Jobs : retried'[i] >= retried[i]) /\ (publisher[w] => Paid(retried', m))
      <4>1. CASE publisher[w] /\ r + 1 > MAX_RETRIES
        <5>1. m = [job |-> j, retry |-> r, to |-> "dlq"]
          BY <3>3, <3>4, <3>5, <4>1 DEF RetryMessage
        <5>2. retried' = retried BY <2>3, <3>3, <4>1, <5>1 DEF HandleFailure
        <5>3. r = MAX_RETRIES BY <1>a, <3>5, <4>1
        <5>4. retried'[m.job] >= MAX_RETRIES BY <3>6, <5>1, <5>2, <5>3
        <5>5. QED BY <1>b, <5>1, <5>2, <5>4 DEF Paid
      <4>2. CASE publisher[w] /\ ~(r + 1 > MAX_RETRIES)
        <5>1. m = [job |-> j, retry |-> r + 1, to |-> "queue"]
          BY <3>3, <3>4, <3>5, <4>2 DEF RetryMessage
        <5>2. retried' = Bump(retried, j) BY <2>3, <3>3, <3>4, <4>2, <5>1 DEF HandleFailure
        <5>3. \A i \in Jobs : retried'[i] = retried[i] + (IF i = j THEN 1 ELSE 0)
          BY <1>a, <5>2, BumpType
        <5>4. PICK n \in Nat : n = retried[j] BY <1>a
        <5>5. retried'[j] >= r + 1 BY <3>5, <3>6, <5>3, <5>4
        <5>6. ASSUME NEW i \in Jobs PROVE retried'[i] >= retried[i]
          <6>1. PICK k \in Nat : k = retried[i] BY <1>a
          <6>2. QED BY <5>3, <6>1
        <5>7. QED BY <5>1, <5>5, <5>6 DEF Paid
      <4>3. CASE ~publisher[w] BY <1>b, <2>3, <4>3 DEF HandleFailure
      <4>4. QED BY <4>1, <4>2, <4>3
    <3>8. WirePaid(w)' /\ \A v \in Workers : v # w => WirePaid(v)'
      <4>1. CASE publisher[w]
        <5>1. wire' = [wire EXCEPT ![w] = Append(wire[w], m)]
          BY <2>3, <3>3, <4>1 DEF HandleFailure
        <5>2. PICK s \in Seq(Messages) : s = wire[w] BY <1>a
        <5>3. Append(s, m) \in Seq(Messages) OBVIOUS
        <5>4. wire'[w] = Append(s, m) /\ \A v \in Workers : v # w => wire'[v] = wire[v]
          BY <5>1, <5>2, <5>3, WireType
        <5>5. ASSUME NEW i \in 1..Len(wire'[w]) PROVE Paid(retried', wire'[w][i])
          <6>1. CASE i = Len(s) + 1
            <7>1. wire'[w][i] = m BY <5>4, <6>1
            <7>2. QED BY <3>7, <4>1, <7>1
          <6>2. CASE i # Len(s) + 1
            <7>1. i \in 1..Len(s) /\ wire'[w][i] = s[i] BY <5>4, <6>2
            <7>2. PICK x \in Messages : x = s[i] BY <7>1
            <7>3. Paid(retried, x) BY <5>2, <7>1, <7>2 DEF RetriesInv, WirePaid
            <7>4. Paid(retried', x) BY <1>0, <3>7, <7>3, PaidStays
            <7>5. QED BY <7>1, <7>2, <7>4
          <6>3. QED BY <6>1, <6>2
        <5>6. WirePaid(w)' BY <5>5 DEF WirePaid
        <5>7. QED BY <1>0, <3>7, <5>4, <5>6, PaidStays
      <4>2. CASE ~publisher[w]
        <5>1. UNCHANGED wire BY <2>3, <4>2 DEF HandleFailure
        <5>2. QED BY <1>0, <3>7, <5>1, PaidStays
      <4>3. QED BY <4>1, <4>2
    <3>9. HeldPaid(w)' BY <1>0, <3>1, <3>2, <3>7, PaidStays
    <3>10. \A v \in Workers : v # w => worker'[v] = worker[v] BY <3>2 DEF Moved
    <3>11. QED BY <1>0, <3>0, <3>7, <3>8, <3>9, <3>10, PaidStays DEF RetriesInv
  <2>4. CASE Ack(w) \/ Nack(w)
    <3>1. UNCHANGED <<ready, wire, dead, retried>> BY <2>4 DEF Ack, Nack
    <3>2. Freed(w) BY <2>4, SettledType
    <3>3. QED BY <1>0, <1>b, <3>1, <3>2, PaidStays DEF RetriesInv, Freed
  <2>5. CASE AckThrows(w) \/ Crash(w)
    <3>1. Restart(w) /\ Freed(w) /\ Requeued(w) /\ wire'[w] = <<>>
      BY <2>5, DyingIncidents, RestartType
    <3>2. UNCHANGED <<dead, retried>> /\ wire' = [wire EXCEPT ![w] = <<>>]
      BY <3>1 DEF Restart
    <3>3. \A v \in Workers : v # w => wire'[v] = wire[v] BY <1>a, <3>2
    <3>4. QueuePaid' BY <3>1, <3>2, RequeuedPaid
    <3>5. QED BY <1>0, <1>b, <3>1, <3>2, <3>3, <3>4, PaidStays DEF RetriesInv, Freed
  <2>6. CASE Accept(w)
    <3>0. UNCHANGED <<worker, retried>> BY <2>6 DEF Accept
    <3>1. /\ wire[w] # <<>> /\ wire' = [wire EXCEPT ![w] = Tail(wire[w])]
          /\ \/ /\ Head(wire[w]).to = "dlq"
                /\ dead' = Bump(dead, Head(wire[w]).job) /\ UNCHANGED ready
             \/ /\ Head(wire[w]).to = "queue" /\ UNCHANGED dead
                /\ ready' = [ready EXCEPT ![Head(wire[w]).job][Head(wire[w]).retry] = @ + 1]
      BY <2>6, AcceptType DEF Accept
    <3>2. PICK s \in Seq(Messages) : s = wire[w] /\ s # <<>> BY <1>a, <3>1
    <3>3. PICK m \in Messages : m = Head(s) BY <3>2
    <3>4. m.job \in Jobs /\ m.retry \in Retries BY DEF Messages
    <3>5. Paid(retried, m) BY <3>2, <3>3 DEF RetriesInv, WirePaid
    <3>6. /\ wire'[w] = Tail(s) /\ \A v \in Workers : v # w => wire'[v] = wire[v]
      BY <1>a, <3>1, <3>2
    <3>7. WirePaid(w)'
      <4> SUFFICES ASSUME NEW i \in 1..Len(wire'[w]) PROVE Paid(retried', wire'[w][i])
        BY DEF WirePaid
      <4>1. i + 1 \in 1..Len(s) /\ wire'[w][i] = s[i + 1] BY <3>2, <3>6
      <4>2. Paid(retried, s[i + 1]) BY <3>2, <4>1 DEF RetriesInv, WirePaid
      <4>3. QED BY <3>0, <4>1, <4>2
    <3>8. CASE m.to = "dlq"
      <4>1. dead' = Bump(dead, m.job) /\ UNCHANGED ready BY <3>1, <3>2, <3>3, <3>8
      <4>2. PICK k \in Jobs : k = m.job BY <3>4
      <4>3. \A j \in Jobs : dead'[j] = dead[j] + (IF j = k THEN 1 ELSE 0)
        BY <4>1, <4>2, Counters, BumpType
      <4>4. retried[k] >= MAX_RETRIES BY <3>5, <3>8, <4>2 DEF Paid
      <4>5. \A j \in Jobs : j # k => dead'[j] = dead[j] BY <4>3, Counters
      <4>6. DeadPaid' BY <3>0, <4>4, <4>5 DEF RetriesInv, DeadPaid
      <4>7. QED BY <1>0, <1>b, <3>0, <3>6, <3>7, <4>1, <4>6, PaidStays DEF RetriesInv
    <3>9. CASE m.to # "dlq"
      <4>1. UNCHANGED dead /\ ready' = [ready EXCEPT ![m.job][m.retry] = @ + 1]
        BY <3>1, <3>2, <3>3, <3>9
      <4>2. PICK j \in Jobs, r \in Retries : j = m.job /\ r = m.retry BY <3>4
      <4>a. ready[j][r] \in Nat BY <1>a
      <4>3. PICK n \in Nat : n = ready[j][r] + 1 BY <4>a
      <4>4. ReadySet(j, r, n) BY <1>a, <4>1, <4>2, <4>3 DEF ReadySet
      <4>5. \A i \in Jobs : \A q \in Retries : i # j \/ q # r => ready'[i][q] = ready[i][q]
        BY <4>4, ReadyType
      <4>6. retried[j] >= r BY <3>5, <3>9, <4>2 DEF Paid
      <4>7. QueuePaid' BY <3>0, <4>5, <4>6 DEF RetriesInv, QueuePaid
      <4>8. QED BY <1>0, <1>b, <3>0, <3>6, <3>7, <4>1, <4>7, PaidStays DEF RetriesInv
    <3>10. QED BY <3>8, <3>9
  <2>7. CASE PublisherCloses(w)
    <3>1. UNCHANGED <<ready, dead, worker, retried>> BY <2>7 DEF PublisherCloses
    <3>2. wire'[w] = <<>> /\ \A v \in Workers : v # w => wire'[v] = wire[v]
      BY <2>7, PublisherClosesType
    <3>3. QED BY <1>0, <1>b, <3>1, <3>2, PaidStays DEF RetriesInv
  <2>8. CASE ConsumerCloses(w)
    <3>1. UNCHANGED <<wire, dead, retried>> BY <2>8 DEF ConsumerCloses
    <3>2. /\ Requeued(w) /\ \A v \in Workers : v # w => worker'[v] = worker[v]
          /\ ~Handling(w) => worker'[w] = worker[w]
          /\ Handling(w) => worker'[w] = [worker[w] EXCEPT !.held = FALSE]
      BY <2>8, ConsumerClosesType
    <3>3. QueuePaid' BY <3>1, <3>2, RequeuedPaid
    <3>4. HeldPaid(w)'
      <4>1. CASE ~Handling(w) BY <1>0, <1>b, <3>1, <3>2, <4>1, PaidStays
      <4>2. CASE Handling(w)
        <5>1. worker[w] \in Busy BY <4>2, BusyOrIdle
        <5>2. worker'[w].job = worker[w].job /\ worker'[w].retry = worker[w].retry
          BY <3>2, <4>2, <5>1 DEF Busy
        <5>3. retried[JobOf(w)] >= worker[w].retry BY <4>2 DEF RetriesInv, HeldPaid
        <5>4. QED BY <3>1, <5>2, <5>3 DEF HeldPaid, JobOf
      <4>3. QED BY <4>1, <4>2
    <3>5. QED BY <1>0, <1>b, <3>1, <3>2, <3>3, <3>4, PaidStays DEF RetriesInv
  <2>9. QED BY <1>2, <2>1, <2>2, <2>3, <2>4, <2>5, <2>6, <2>7, <2>8 DEF Step, Incident
<1>3. QED BY <1>1, <1>2 DEF Next

\* A job is in the dead-letter queue only after all of its retries were scheduled:
\* neither a redelivery nor a crash lets a message skip one (EmailRetryService and
\* NotificationRetryService, handleFailure).
THEOREM ParkedOnlyAfterRetries ==
    Spec => [](\A j \in Jobs : dead[j] > 0 => retried[j] >= MAX_RETRIES)
<1> DEFINE Parked == \A j \in Jobs : dead[j] > 0 => retried[j] >= MAX_RETRIES
<1>1. TypeOK /\ RetriesInv /\ [Next]_vars => RetriesInv' BY NextRetries
<1>2. RetriesInv => Parked BY DEF RetriesInv, DeadPaid
<1>3. QED BY <1>1, <1>2, InitRetries, TypeCorrect, PTL DEF Spec

-----------------------------------------------------------------------------
(* The message: types *)

\* A JSON value the code can have written.
GoodValue(v) ==
    /\ v.shape = "list" => v.items \subseteq Users
    /\ v.shape = "object" => v.items \subseteq Labels
    /\ v.shape = "null" => v.items = {}

GoodRows == {row \in Rows : GoodValue(row.reactions)}
GoodCalls == [op : Operations, user : Users, seen : GoodRows]

RowsInv ==
    /\ db \in GoodRows /\ replica \in GoodRows /\ lag \in Seq(GoodRows)
    /\ call \in [Calls -> {None} \union GoodCalls]
    /\ readers \subseteq Users /\ reactors \subseteq Users /\ labels \subseteq Labels
    /\ commits \in Nat /\ toggles \in Nat
    /\ staleReads \in Nat /\ staleMarks \in Nat /\ staleEdits \in Nat

LEMMA UnsentIsGood == Unsent \in GoodRows
BY DEF Unsent, GoodRows, Rows, JsonValues, Null, GoodValue

\* Every column is written with a value of its kind.
LEMMA ValuesStayGood ==
    ASSUME NEW v \in JsonValues, GoodValue(v), NEW u \in Users, NEW l \in Labels
    PROVE  /\ Toggled(v, u) \in JsonValues /\ GoodValue(Toggled(v, u))
           /\ Labelled(v, l) \in JsonValues /\ GoodValue(Labelled(v, l))
           /\ Unpinned(v) \in JsonValues /\ GoodValue(Unpinned(v))
<1>1. Toggled(v, u) \in JsonValues /\ GoodValue(Toggled(v, u))
  <2>1. Flip(ListOf(v), u) \subseteq Users BY DEF Flip, ListOf, GoodValue
  <2>2. QED BY <2>1 DEF Toggled, JsonValues, GoodValue
<1>2. Labelled(v, l) \in JsonValues /\ GoodValue(Labelled(v, l))
  BY DEF Labelled, JsonValues, GoodValue
<1>3. Unpinned(v) \in JsonValues /\ GoodValue(Unpinned(v))
  BY DEF Unpinned, JsonValues, GoodValue
<1>4. QED BY <1>1, <1>2, <1>3

LEMMA RowsWritten ==
    ASSUME NEW row \in GoodRows
    PROVE  /\ \A v \in JsonValues : GoodValue(v) =>
                  /\ [row EXCEPT !.reactions = v] \in GoodRows
                  /\ [row EXCEPT !.reactions = v].reactions = v
                  /\ [row EXCEPT !.reactions = v].readBy = row.readBy
                  /\ [row EXCEPT !.reactions = v].state = row.state
                  /\ [row EXCEPT !.reactions = v].content = row.content
           /\ \A S \in SUBSET Users :
                  /\ [row EXCEPT !.readBy = S] \in GoodRows
                  /\ [row EXCEPT !.readBy = S].readBy = S
                  /\ [row EXCEPT !.readBy = S].reactions = row.reactions
                  /\ [row EXCEPT !.readBy = S].state = row.state
                  /\ [row EXCEPT !.readBy = S].content = row.content
           /\ [row EXCEPT !.content = TRUE] \in GoodRows
           /\ [row EXCEPT !.state = "deleted", !.content = FALSE] \in GoodRows
BY DEF GoodRows, Rows

\* A write reaches the primary, and the replica at once or later.
LEMMA WriteType ==
    ASSUME RowsInv, NEW row \in GoodRows, Write(row)
    PROVE  /\ db' = row /\ commits' \in Nat
           /\ db' \in GoodRows /\ replica' \in GoodRows /\ lag' \in Seq(GoodRows)
<1>1. lag \in Seq(GoodRows) /\ Append(lag, row) \in Seq(GoodRows) BY DEF RowsInv
<1>2. QED BY <1>1 DEF Write, RowsInv

LEMMA CallType ==
    ASSUME RowsInv, NEW c \in Calls, NEW op \in Operations, call[c] # None
    PROVE  /\ call[c] \in GoodCalls /\ call[c].user \in Users /\ Seen(c) \in GoodRows
           /\ Seen(c).readBy \subseteq Users /\ Seen(c).reactions \in JsonValues
           /\ GoodValue(Seen(c).reactions)
<1>1. call[c] \in GoodCalls BY DEF RowsInv
<1>2. call[c].user \in Users /\ Seen(c) \in GoodRows BY <1>1 DEF GoodCalls, Seen
<1>3. QED BY <1>1, <1>2 DEF GoodRows, Rows

LEMMA UpdateType ==
    ASSUME RowsInv, NEW c \in Calls, NEW op \in Operations, NEW row \in GoodRows,
           Update(c, op, row)
    PROVE  /\ call[c].op = op /\ call[c] # None /\ Found(db)
           /\ db' = row /\ commits' \in Nat
           /\ db' \in GoodRows /\ replica' \in GoodRows /\ lag' \in Seq(GoodRows)
           /\ call' \in [Calls -> {None} \union GoodCalls]
           /\ call'[c] = None /\ \A d \in Calls : d # c => call'[d] = call[d]
<1>1. /\ db' = row /\ commits' \in Nat
      /\ db' \in GoodRows /\ replica' \in GoodRows /\ lag' \in Seq(GoodRows)
  BY WriteType DEF Update
<1>2. call \in [Calls -> {None} \union GoodCalls] /\ call' = [call EXCEPT ![c] = None]
  BY DEF RowsInv, Update
<1>3. QED BY <1>1, <1>2 DEF Update

\* A step in which call c writes the row it makes of what it has seen.
Writes(c) ==
    /\ Found(db) /\ call[c] # None
    /\ db' \in GoodRows /\ commits' \in Nat /\ replica' \in GoodRows /\ lag' \in Seq(GoodRows)
    /\ call' \in [Calls -> {None} \union GoodCalls]
    /\ call'[c] = None /\ \A d \in Calls : d # c => call'[d] = call[d]

LEMMA MarkWrites ==
    ASSUME RowsInv, NEW c \in Calls, MarkAsRead(c)
    PROVE  /\ Writes(c)
           /\ call[c].user \in Users
           /\ db'.readBy = Seen(c).readBy \union {call[c].user}
           /\ db'.reactions = db.reactions /\ db'.state = db.state /\ db'.content = db.content
<1>1. call[c] # None BY DEF MarkAsRead, Update
<1>2. call[c].user \in Users /\ Seen(c).readBy \subseteq Users BY <1>1, CallType DEF Operations
<1>3. PICK S \in SUBSET Users : S = Seen(c).readBy \union {call[c].user} BY <1>2
<1>4. db \in GoodRows BY DEF RowsInv
<1>5. PICK row : row = [db EXCEPT !.readBy = S] OBVIOUS
<1>6. /\ row \in GoodRows /\ row.readBy = S /\ row.reactions = db.reactions
      /\ row.state = db.state /\ row.content = db.content
  BY <1>4, <1>5, RowsWritten
<1>7. Update(c, "read", row) BY <1>3, <1>5 DEF MarkAsRead
<1>8. Writes(c) /\ db' = row BY <1>1, <1>6, <1>7, UpdateType DEF Writes, Operations
<1>9. QED BY <1>2, <1>3, <1>5, <1>6, <1>8

LEMMA ReactionWrites ==
    ASSUME RowsInv, NEW c \in Calls, NEW op \in Operations, NEW v \in JsonValues, GoodValue(v),
           WriteMarks(c, op, v)
    PROVE  /\ Writes(c)
           /\ db'.reactions = v
           /\ db'.readBy = db.readBy /\ db'.state = db.state /\ db'.content = db.content
<1>1. call[c] # None BY DEF WriteMarks, Update
<1>2. db \in GoodRows BY DEF RowsInv
<1>3. PICK row : row = [db EXCEPT !.reactions = v] OBVIOUS
<1>4. /\ row \in GoodRows /\ row.reactions = v /\ row.readBy = db.readBy
      /\ row.state = db.state /\ row.content = db.content
  BY <1>2, <1>3, RowsWritten
<1>5. Update(c, op, row) BY <1>3 DEF WriteMarks
<1>6. Writes(c) /\ db' = row BY <1>1, <1>4, <1>5, UpdateType DEF Writes
<1>7. QED BY <1>3, <1>4, <1>6

LEMMA EditWrites ==
    ASSUME RowsInv, NEW c \in Calls, UpdateMessage(c)
    PROVE  /\ Writes(c)
           /\ db'.reactions = db.reactions /\ db'.readBy = db.readBy /\ db'.state = db.state
<1>1. call[c] # None BY DEF UpdateMessage, Update
<1>2. db \in GoodRows BY DEF RowsInv
<1>3. PICK row : row = [db EXCEPT !.content = TRUE] OBVIOUS
<1>4. /\ row \in GoodRows /\ row.reactions = db.reactions /\ row.readBy = db.readBy
      /\ row.state = db.state
  BY <1>2, <1>3 DEF GoodRows, Rows
<1>5. Update(c, "edit", row) BY <1>3 DEF UpdateMessage
<1>6. Writes(c) /\ db' = row BY <1>1, <1>4, <1>5, UpdateType DEF Writes, Operations
<1>7. QED BY <1>3, <1>4, <1>6

LEMMA DeleteWrites ==
    ASSUME RowsInv, NEW c \in Calls, DeleteMessage(c)
    PROVE  /\ Writes(c)
           /\ db'.reactions = db.reactions /\ db'.readBy = db.readBy
           /\ db'.state = "deleted" /\ db'.content = FALSE
<1>1. call[c] # None BY DEF DeleteMessage, Update
<1>2. db \in GoodRows BY DEF RowsInv
<1>3. PICK row : row = [db EXCEPT !.state = "deleted", !.content = FALSE] OBVIOUS
<1>4. /\ row \in GoodRows /\ row.reactions = db.reactions /\ row.readBy = db.readBy
      /\ row.state = "deleted" /\ row.content = FALSE
  BY <1>2, <1>3 DEF GoodRows, Rows
<1>5. Update(c, "delete", row) BY <1>3 DEF DeleteMessage
<1>6. Writes(c) /\ db' = row BY <1>1, <1>4, <1>5, UpdateType DEF Writes, Operations
<1>7. QED BY <1>3, <1>4, <1>6

LEMMA InitRows == MarksInit => RowsInv
BY UnsentIsGood DEF MarksInit, RowsInv

LEMMA ReactionCalls ==
    ASSUME RowsInv, NEW c \in Calls,
           ToggleReaction(c) \/ PinMessage(c) \/ UnpinMessage(c) \/ FlagMessage(c)
    PROVE  /\ Writes(c) /\ call[c].user \in Users
           /\ Seen(c).reactions \in JsonValues /\ GoodValue(Seen(c).reactions)
           /\ db'.readBy = db.readBy /\ db'.state = db.state /\ db'.content = db.content
           /\ ToggleReaction(c) => db'.reactions = Toggled(Seen(c).reactions, call[c].user)
           /\ PinMessage(c) => db'.reactions = Labelled(Seen(c).reactions, "pinned")
           /\ UnpinMessage(c) => db'.reactions = Unpinned(Seen(c).reactions)
           /\ FlagMessage(c) => db'.reactions = Labelled(Seen(c).reactions, "flagged")
           /\ staleMarks' = IF Seen(c).reactions = db.reactions THEN staleMarks ELSE staleMarks + 1
           /\ UNCHANGED <<readers, staleReads, staleEdits>>
<1> USE DEF Operations
<1>1. call[c] # None
  BY DEF ToggleReaction, PinMessage, UnpinMessage, FlagMessage, WriteMarks, Update
<1>2. /\ call[c].user \in Users
      /\ Seen(c).reactions \in JsonValues /\ GoodValue(Seen(c).reactions)
  BY <1>1, CallType
<1>3. PICK v \in JsonValues, u \in Users : v = Seen(c).reactions /\ u = call[c].user BY <1>2
<1>4. v \in JsonValues /\ GoodValue(v) BY <1>2, <1>3
<1>5. "pinned" \in Labels /\ "flagged" \in Labels BY DEF Labels
<1>6. CASE ToggleReaction(c)
  <2>1. WriteMarks(c, "react", Toggled(v, u)) BY <1>3, <1>6 DEF ToggleReaction
  <2>2. PICK value : value = Toggled(v, u) OBVIOUS
  <2>3. value \in JsonValues /\ GoodValue(value) BY <1>4, <1>5, <2>2, ValuesStayGood
  <2>4. WriteMarks(c, "react", value) BY <2>1, <2>2
  <2>5. /\ Writes(c) /\ db'.reactions = value
        /\ db'.readBy = db.readBy /\ db'.state = db.state /\ db'.content = db.content
    BY <2>3, <2>4, ReactionWrites
  <2>6. call[c].op = "react" BY <2>4 DEF WriteMarks, Update
  <2>7. QED
    BY <1>2, <1>3, <1>6, <2>2, <2>4, <2>5, <2>6
    DEF WriteMarks, PinMessage, UnpinMessage, FlagMessage, Update
<1>7. CASE PinMessage(c)
  <2>1. WriteMarks(c, "pin", Labelled(v, "pinned")) BY <1>3, <1>7 DEF PinMessage
  <2>2. PICK value : value = Labelled(v, "pinned") OBVIOUS
  <2>3. value \in JsonValues /\ GoodValue(value) BY <1>4, <1>5, <2>2, ValuesStayGood
  <2>4. WriteMarks(c, "pin", value) BY <2>1, <2>2
  <2>5. /\ Writes(c) /\ db'.reactions = value
        /\ db'.readBy = db.readBy /\ db'.state = db.state /\ db'.content = db.content
    BY <2>3, <2>4, ReactionWrites
  <2>6. call[c].op = "pin" BY <2>4 DEF WriteMarks, Update
  <2>7. QED
    BY <1>2, <1>3, <1>7, <2>2, <2>4, <2>5, <2>6
    DEF WriteMarks, ToggleReaction, UnpinMessage, FlagMessage, Update
<1>8. CASE UnpinMessage(c)
  <2>1. WriteMarks(c, "unpin", Unpinned(v)) BY <1>3, <1>8 DEF UnpinMessage
  <2>2. PICK value : value = Unpinned(v) OBVIOUS
  <2>3. value \in JsonValues /\ GoodValue(value) BY <1>4, <1>5, <2>2, ValuesStayGood
  <2>4. WriteMarks(c, "unpin", value) BY <2>1, <2>2
  <2>5. /\ Writes(c) /\ db'.reactions = value
        /\ db'.readBy = db.readBy /\ db'.state = db.state /\ db'.content = db.content
    BY <2>3, <2>4, ReactionWrites
  <2>6. call[c].op = "unpin" BY <2>4 DEF WriteMarks, Update
  <2>7. QED
    BY <1>2, <1>3, <1>8, <2>2, <2>4, <2>5, <2>6
    DEF WriteMarks, ToggleReaction, PinMessage, FlagMessage, Update
<1>9. CASE FlagMessage(c)
  <2>1. WriteMarks(c, "flag", Labelled(v, "flagged")) BY <1>3, <1>9 DEF FlagMessage
  <2>2. PICK value : value = Labelled(v, "flagged") OBVIOUS
  <2>3. value \in JsonValues /\ GoodValue(value) BY <1>4, <1>5, <2>2, ValuesStayGood
  <2>4. WriteMarks(c, "flag", value) BY <2>1, <2>2
  <2>5. /\ Writes(c) /\ db'.reactions = value
        /\ db'.readBy = db.readBy /\ db'.state = db.state /\ db'.content = db.content
    BY <2>3, <2>4, ReactionWrites
  <2>6. call[c].op = "flag" BY <2>4 DEF WriteMarks, Update
  <2>7. QED
    BY <1>2, <1>3, <1>9, <2>2, <2>4, <2>5, <2>6
    DEF WriteMarks, ToggleReaction, PinMessage, UnpinMessage, Update
<1>10. QED BY <1>6, <1>7, <1>8, <1>9

\* The writes that take no reading first.
LEMMA SingleWrites ==
    ASSUME RowsInv, SendMessage \/ BroadcastSystemMessage \/ Purge
    PROVE  /\ db' \in GoodRows /\ commits' \in Nat /\ replica' \in GoodRows
           /\ lag' \in Seq(GoodRows) /\ db'.reactions = Null
           /\ UNCHANGED <<call, reactors, labels, toggles, mishaps>>
           /\ \/ /\ db.state = "unsent" /\ db'.state = "live"
                 /\ db'.readBy = {Sender} /\ readers' = {Sender}
              \/ /\ db.state = "unsent" /\ db'.state = "live"
                 /\ db'.readBy = {} /\ readers' = readers
              \/ db'.state = "purged" /\ readers' = readers
<1>0. Unsent \in GoodRows /\ Unsent.reactions = Null /\ Unsent.readBy = {} /\ Sender \in Users
  BY UnsentIsGood, MarksAssumption DEF Unsent
<1>1. CASE SendMessage
  <2>1. PICK row : row = [Unsent EXCEPT !.state = "live", !.content = TRUE, !.readBy = {Sender}]
    OBVIOUS
  <2>2. row \in GoodRows /\ row.reactions = Null /\ row.readBy = {Sender} /\ row.state = "live"
    BY <1>0, <2>1 DEF GoodRows, Rows, Unsent
  <2>3. Write(row) BY <1>1, <2>1 DEF SendMessage
  <2>4. QED BY <1>1, <2>2, <2>3, WriteType DEF SendMessage
<1>2. CASE BroadcastSystemMessage
  <2>1. PICK row : row = [Unsent EXCEPT !.state = "live", !.content = TRUE]
    OBVIOUS
  <2>2. row \in GoodRows /\ row.reactions = Null /\ row.readBy = {} /\ row.state = "live"
    BY <1>0, <2>1 DEF GoodRows, Rows, Unsent
  <2>3. Write(row) BY <1>2, <2>1 DEF BroadcastSystemMessage
  <2>4. QED BY <1>2, <2>2, <2>3, WriteType DEF BroadcastSystemMessage, wishes
<1>3. CASE Purge
  <2>1. PICK row : row = [Unsent EXCEPT !.state = "purged"] OBVIOUS
  <2>2. row \in GoodRows /\ row.reactions = Null /\ row.state = "purged"
    BY <1>0, <2>1 DEF GoodRows, Rows, Unsent
  <2>3. Write(row) BY <1>3, <2>1 DEF Purge
  <2>4. QED BY <1>3, <2>2, <2>3, WriteType DEF Purge, wishes
<1>4. QED BY <1>1, <1>2, <1>3

LEMMA NextRows == RowsInv /\ [MarksNext]_marksVars => RowsInv'
<1> SUFFICES ASSUME RowsInv, [MarksNext]_marksVars PROVE RowsInv'
  OBVIOUS
<1> USE DEF wishes, mishaps
<1>0. /\ readers \subseteq Users /\ reactors \subseteq Users /\ labels \subseteq Labels
      /\ commits \in Nat /\ toggles \in Nat
      /\ staleReads \in Nat /\ staleMarks \in Nat /\ staleEdits \in Nat
  BY DEF RowsInv
<1>1. CASE UNCHANGED marksVars BY <1>1 DEF marksVars, RowsInv
<1>2. ASSUME NEW c \in Calls, NEW op \in Operations, NEW u \in Users, Begin(c, op, u)
      PROVE  RowsInv'
  <2>1. PICK r : r = [op |-> op, user |-> u, seen |-> replica] OBVIOUS
  <2>2. r \in GoodCalls BY <2>1 DEF RowsInv, GoodCalls
  <2>3. call' = [call EXCEPT ![c] = r] BY <1>2, <2>1 DEF Begin
  <2>4. call' \in [Calls -> {None} \union GoodCalls] BY <2>2, <2>3 DEF RowsInv
  <2>5. UNCHANGED <<db, replica, lag, commits, wishes, mishaps>> BY <1>2 DEF Begin
  <2>6. QED BY <2>4, <2>5 DEF RowsInv
<1>3. ASSUME NEW c \in Calls, MarkAsRead(c) PROVE RowsInv'
  <2>1. Writes(c) /\ call[c].user \in Users BY <1>3, MarkWrites
  <2>2. /\ readers' = readers \union {call[c].user} /\ staleReads' \in Nat
        /\ UNCHANGED <<reactors, labels, toggles, staleMarks, staleEdits>>
    BY <1>0, <1>3 DEF MarkAsRead
  <2>3. QED BY <1>0, <2>1, <2>2 DEF Writes, RowsInv
<1>4. ASSUME NEW c \in Calls,
             ToggleReaction(c) \/ PinMessage(c) \/ UnpinMessage(c) \/ FlagMessage(c)
      PROVE  RowsInv'
  <2>1. /\ Writes(c) /\ call[c].user \in Users /\ UNCHANGED <<readers, staleReads, staleEdits>>
        /\ staleMarks' = IF Seen(c).reactions = db.reactions THEN staleMarks ELSE staleMarks + 1
    BY <1>4, ReactionCalls
  <2>2. staleMarks' \in Nat BY <1>0, <2>1
  <2>3. reactors' \subseteq Users /\ labels' \subseteq Labels /\ toggles' \in Nat
    <3>1. CASE ToggleReaction(c)
      <4>1. reactors' = Flip(reactors, call[c].user) /\ toggles' = toggles + 1 /\ UNCHANGED labels
        BY <3>1 DEF ToggleReaction
      <4>2. QED BY <1>0, <2>1, <4>1 DEF Flip
    <3>2. CASE PinMessage(c) \/ UnpinMessage(c) \/ FlagMessage(c)
      BY <1>0, <3>2 DEF PinMessage, UnpinMessage, FlagMessage, Labels
    <3>3. QED BY <1>4, <3>1, <3>2
  <2>4. QED BY <1>0, <2>1, <2>2, <2>3 DEF Writes, RowsInv
<1>5. ASSUME NEW c \in Calls, UpdateMessage(c) \/ DeleteMessage(c) PROVE RowsInv'
  <2>1. Writes(c) BY <1>5, EditWrites, DeleteWrites
  <2>2. staleEdits' \in Nat /\ UNCHANGED <<wishes, staleReads, staleMarks>>
    BY <1>0, <1>5 DEF UpdateMessage, DeleteMessage
  <2>3. QED BY <1>0, <2>1, <2>2 DEF Writes, RowsInv
<1>6. ASSUME NEW c \in Calls, Abort(c) PROVE RowsInv'
  BY <1>6 DEF Abort, RowsInv
<1>7. CASE SendMessage \/ BroadcastSystemMessage \/ Purge
  <2>1. readers' \subseteq Users BY <1>0, <1>7, SingleWrites, MarksAssumption
  <2>2. QED BY <1>0, <1>7, <2>1, SingleWrites DEF RowsInv
<1>8. CASE Replicate
  <2>1. lag \in Seq(GoodRows) /\ lag # <<>> BY <1>8 DEF Replicate, RowsInv
  <2>2. Head(lag) \in GoodRows /\ Tail(lag) \in Seq(GoodRows) BY <2>1
  <2>3. QED BY <1>8, <2>2 DEF Replicate, RowsInv
<1>9. QED BY <1>1, <1>2, <1>3, <1>4, <1>5, <1>6, <1>7, <1>8 DEF MarksNext

LEMMA RowsHold == MarksSpec => []RowsInv
BY InitRows, NextRows, PTL DEF MarksSpec

\* Types: receipts are users', a list of reactions holds users, an object labels.
THEOREM MarksTypeCorrect == MarksSpec => []MarksTypeOK
<1>1. RowsInv => MarksTypeOK
  <2> SUFFICES ASSUME RowsInv PROVE MarksTypeOK
    OBVIOUS
  <2>1. db \in Rows /\ replica \in Rows /\ GoodValue(db.reactions) BY DEF RowsInv, GoodRows
  <2>2. lag \in Seq(Rows)
    <3>1. lag \in Seq(GoodRows) /\ GoodRows \subseteq Rows BY DEF RowsInv, GoodRows
    <3>2. QED BY <3>1
  <2>3. call \in [Calls -> {None} \union [op : Operations, user : Users, seen : Rows]]
    <3>1. GoodCalls \subseteq [op : Operations, user : Users, seen : Rows]
      BY DEF GoodCalls, GoodRows
    <3>2. QED BY <3>1 DEF RowsInv
  <2>4. ListOf(db.reactions) \subseteq Users /\ LabelsOf(db.reactions) \subseteq Labels
    BY <2>1 DEF GoodValue, ListOf, LabelsOf
  <2>5. QED BY <2>1, <2>2, <2>3, <2>4 DEF RowsInv, MarksTypeOK
<1>2. QED BY <1>1, RowsHold, PTL

-----------------------------------------------------------------------------
(* The message: receipts, reactions and labels *)

\* Nothing is recorded of a message that is not sent yet.
BlankInv ==
    db.state = "unsent" => readers = {} /\ reactors = {} /\ labels = {} /\ toggles = 0

ReceiptInv == Found(db) /\ staleReads = 0 => readers = db.readBy

LEMMA Kinds ==
    ASSUME RowsInv, NEW c \in Calls, Writes(c), db'.state = db.state \/ db'.state = "deleted"
    PROVE  db.state # "unsent" /\ db'.state # "unsent" /\ Found(db) /\ Found(db')
BY DEF Writes, Found

LEMMA NextBlank == RowsInv /\ BlankInv /\ [MarksNext]_marksVars => BlankInv'
<1> SUFFICES ASSUME RowsInv, BlankInv, [MarksNext]_marksVars PROVE BlankInv'
  OBVIOUS
<1>1. CASE UNCHANGED <<db, readers, reactors, labels, toggles>> BY <1>1 DEF BlankInv
<1>2. ASSUME NEW c \in Calls,
             \/ MarkAsRead(c) \/ ToggleReaction(c) \/ PinMessage(c) \/ UnpinMessage(c)
             \/ FlagMessage(c) \/ UpdateMessage(c) \/ DeleteMessage(c)
      PROVE  db'.state # "unsent"
  <2>1. Writes(c) /\ (db'.state = db.state \/ db'.state = "deleted")
    BY <1>2, MarkWrites, ReactionCalls, EditWrites, DeleteWrites
  <2>2. QED BY <2>1, Kinds
<1>3. CASE SendMessage \/ BroadcastSystemMessage \/ Purge
  BY <1>3, SingleWrites DEF BlankInv
<1>4. QED
  BY <1>1, <1>2, <1>3 DEF MarksNext, marksVars, wishes, Begin, Abort, Replicate, BlankInv

\* The receipt that is written extends the list that was seen, which, as nothing was
\* written from an old list, is the one that is there.
LEMMA NextReceipts ==
    RowsInv /\ BlankInv /\ ReceiptInv /\ [MarksNext]_marksVars => ReceiptInv'
<1> SUFFICES ASSUME RowsInv, BlankInv, ReceiptInv, [MarksNext]_marksVars PROVE ReceiptInv'
  OBVIOUS
<1> USE DEF wishes, mishaps
<1>1. CASE UNCHANGED <<db, readers, staleReads>> BY <1>1 DEF ReceiptInv, Found
<1>2. ASSUME NEW c \in Calls, MarkAsRead(c) PROVE ReceiptInv'
  <2>1. /\ Writes(c) /\ db'.readBy = Seen(c).readBy \union {call[c].user}
        /\ db'.state = db.state
    BY <1>2, MarkWrites
  <2>2. /\ readers' = readers \union {call[c].user} /\ staleReads \in Nat
        /\ staleReads' = IF Seen(c).readBy = db.readBy THEN staleReads ELSE staleReads + 1
    BY <1>2 DEF MarkAsRead, RowsInv
  <2>3. QED BY <2>1, <2>2, Kinds DEF ReceiptInv
<1>3. ASSUME NEW c \in Calls,
             \/ ToggleReaction(c) \/ PinMessage(c) \/ UnpinMessage(c) \/ FlagMessage(c)
             \/ UpdateMessage(c) \/ DeleteMessage(c)
      PROVE  ReceiptInv'
  <2>1. /\ Writes(c) /\ (db'.state = db.state \/ db'.state = "deleted")
        /\ db'.readBy = db.readBy
    BY <1>3, ReactionCalls, EditWrites, DeleteWrites
  <2>2. UNCHANGED <<readers, staleReads>>
    BY <1>3, ReactionCalls DEF UpdateMessage, DeleteMessage
  <2>3. QED BY <2>1, <2>2, Kinds DEF ReceiptInv
<1>4. CASE SendMessage \/ BroadcastSystemMessage \/ Purge
  BY <1>4, SingleWrites DEF BlankInv, ReceiptInv, Found
<1>5. QED BY <1>1, <1>2, <1>3, <1>4 DEF MarksNext, marksVars, Begin, Abort, Replicate

LEMMA ReceiptsHold == MarksSpec => [](RowsInv /\ BlankInv /\ ReceiptInv)
<1>1. MarksInit => RowsInv /\ BlankInv /\ ReceiptInv
  BY InitRows DEF MarksInit, BlankInv, ReceiptInv, Found, Unsent
<1>2. RowsInv /\ BlankInv /\ ReceiptInv /\ [MarksNext]_marksVars
          => (RowsInv /\ BlankInv /\ ReceiptInv)'
  BY NextRows, NextBlank, NextReceipts
<1>3. QED BY <1>1, <1>2, PTL DEF MarksSpec

\* A confirmed receipt stays until another one is written from an old list.
THEOREM ReceiptsStay == MarksSpec => []ReceiptsAreKept
<1>1. ReceiptInv => ReceiptsAreKept BY DEF ReceiptInv, ReceiptsAreKept
<1>2. QED BY <1>1, ReceiptsHold, PTL

\* Nothing written from an old value: a list means that somebody reacted.
ExactInv ==
    Found(db) /\ staleMarks = 0 =>
        /\ ListOf(db.reactions) = reactors
        /\ toggles = 0 =>
               db.reactions.shape # "list" /\ LabelsOf(db.reactions) = labels

\* What a pin, an unpin or a flag does to a value that is not a list, and to any list.
LEMMA LabelsWritten ==
    ASSUME NEW v \in JsonValues, GoodValue(v), NEW l \in Labels
    PROVE  /\ ListOf(Labelled(v, l)) = ListOf(v)
           /\ v.shape # "list" =>
                  /\ Labelled(v, l).shape # "list"
                  /\ LabelsOf(Labelled(v, l)) = LabelsOf(v) \union {l}
<1>1. CASE v.shape = "list" BY <1>1 DEF Labelled
<1>2. CASE v.shape # "list"
  <2>1. v.items = LabelsOf(v) BY <1>2 DEF JsonValues, GoodValue, LabelsOf
  <2>2. QED BY <1>2, <2>1 DEF Labelled, ListOf, LabelsOf
<1>3. QED BY <1>1, <1>2

LEMMA LabelRemoved ==
    ASSUME NEW v \in JsonValues, GoodValue(v)
    PROVE  /\ ListOf(Unpinned(v)) = ListOf(v) /\ Unpinned(v).shape = v.shape
           /\ LabelsOf(Unpinned(v)) = LabelsOf(v) \ {"pinned"}
<1>1. Unpinned(v).shape = v.shape /\ Unpinned(v).items = v.items \ {"pinned"}
  BY DEF Unpinned, JsonValues
<1>2. "pinned" \notin Users BY LabelsAreNotUsers DEF Labels
<1>3. QED BY <1>1, <1>2 DEF ListOf, LabelsOf, GoodValue

LEMMA NextExact == RowsInv /\ BlankInv /\ ExactInv /\ [MarksNext]_marksVars => ExactInv'
<1> SUFFICES ASSUME RowsInv, BlankInv, ExactInv, [MarksNext]_marksVars PROVE ExactInv'
  OBVIOUS
<1> USE DEF wishes, mishaps
<1>0. staleMarks \in Nat /\ toggles \in Nat BY DEF RowsInv
<1>1. CASE UNCHANGED <<db, reactors, labels, toggles, staleMarks>>
  BY <1>1 DEF ExactInv, Found
<1>2. ASSUME NEW c \in Calls,
             ToggleReaction(c) \/ PinMessage(c) \/ UnpinMessage(c) \/ FlagMessage(c)
      PROVE  ExactInv'
  <2> SUFFICES ASSUME staleMarks' = 0
               PROVE  /\ ListOf(db'.reactions) = reactors'
                      /\ toggles' = 0 => /\ db'.reactions.shape # "list"
                                         /\ LabelsOf(db'.reactions) = labels'
    BY DEF ExactInv
  <2>1. /\ Writes(c) /\ db'.state = db.state
        /\ staleMarks' = IF Seen(c).reactions = db.reactions THEN staleMarks ELSE staleMarks + 1
        /\ Seen(c).reactions \in JsonValues /\ GoodValue(Seen(c).reactions)
    BY <1>2, ReactionCalls
  <2>2. Found(db) /\ staleMarks = 0 /\ Seen(c).reactions = db.reactions
    BY <1>0, <2>1 DEF Writes
  <2>3. PICK v \in JsonValues : v = db.reactions /\ GoodValue(v) BY <2>1, <2>2
  <2>4. /\ ListOf(v) = reactors
        /\ toggles = 0 => v.shape # "list" /\ LabelsOf(v) = labels
    BY <2>2, <2>3 DEF ExactInv
  <2>5. CASE ToggleReaction(c)
    <3>1. db'.reactions = Toggled(v, call[c].user) BY <2>2, <2>3, <2>5, ReactionCalls
    <3>2. ListOf(db'.reactions) = Flip(ListOf(v), call[c].user)
      BY <3>1 DEF Toggled, ListOf
    <3>3. reactors' = Flip(reactors, call[c].user) /\ toggles' # 0
      BY <1>0, <2>5 DEF ToggleReaction
    <3>4. QED BY <2>4, <3>2, <3>3
  <2>6. CASE PinMessage(c) \/ FlagMessage(c)
    <3>1. PICK l \in Labels :
              /\ db'.reactions = Labelled(v, l)
              /\ labels' = labels \union {l} /\ UNCHANGED <<reactors, toggles>>
      BY <2>2, <2>3, <2>6, ReactionCalls DEF PinMessage, FlagMessage, Labels
    <3>2. QED BY <2>3, <2>4, <3>1, LabelsWritten
  <2>7. CASE UnpinMessage(c)
    <3>1. /\ db'.reactions = Unpinned(v)
          /\ labels' = labels \ {"pinned"} /\ UNCHANGED <<reactors, toggles>>
      BY <2>2, <2>3, <2>7, ReactionCalls DEF UnpinMessage
    <3>2. QED BY <2>3, <2>4, <3>1, LabelRemoved
  <2>8. QED BY <1>2, <2>5, <2>6, <2>7
<1>3. ASSUME NEW c \in Calls, MarkAsRead(c) \/ UpdateMessage(c) \/ DeleteMessage(c)
      PROVE  ExactInv'
  <2>1. /\ Writes(c) /\ (db'.state = db.state \/ db'.state = "deleted")
        /\ db'.reactions = db.reactions
    BY <1>3, MarkWrites, EditWrites, DeleteWrites
  <2>2. UNCHANGED <<reactors, labels, toggles, staleMarks>>
    BY <1>3 DEF MarkAsRead, UpdateMessage, DeleteMessage
  <2>3. QED BY <2>1, <2>2, Kinds DEF ExactInv
<1>4. CASE SendMessage \/ BroadcastSystemMessage \/ Purge
  <2>1. /\ db'.reactions = Null /\ UNCHANGED <<reactors, labels, toggles>>
        /\ (db.state = "unsent" \/ db'.state = "purged")
    BY <1>4, SingleWrites
  <2>2. QED BY <2>1 DEF BlankInv, ExactInv, Found, Null, ListOf, LabelsOf
<1>5. QED BY <1>1, <1>2, <1>3, <1>4 DEF MarksNext, marksVars, Begin, Abort, Replicate

LEMMA ExactHolds == MarksSpec => [](RowsInv /\ BlankInv /\ ExactInv)
<1>1. MarksInit => RowsInv /\ BlankInv /\ ExactInv
  BY InitRows DEF MarksInit, BlankInv, ExactInv, Found, Unsent
<1>2. RowsInv /\ BlankInv /\ ExactInv /\ [MarksNext]_marksVars
          => (RowsInv /\ BlankInv /\ ExactInv)'
  BY NextRows, NextBlank, NextExact
<1>3. QED BY <1>1, <1>2, PTL DEF MarksSpec

\* Reactions are those asked for as long as none was written from an old value, and so
\* are pin and flag until somebody reacts.
THEOREM MarksStayExact == MarksSpec => []MarksAreExact
<1>1. ExactInv => MarksAreExact BY DEF ExactInv, MarksAreExact
<1>2. QED BY <1>1, ExactHolds, PTL

-----------------------------------------------------------------------------
(* The message: deletion *)

\* An edit in progress has seen a row that was not deleted.
EmptyInv ==
    /\ \A c \in Calls : call[c] # None /\ call[c].op = "edit" => Seen(c).state # "deleted"
    /\ db.state = "deleted" /\ staleEdits = 0 => ~db.content

LEMMA NextEmpty == RowsInv /\ EmptyInv /\ [MarksNext]_marksVars => EmptyInv'
<1> SUFFICES ASSUME RowsInv, EmptyInv, [MarksNext]_marksVars PROVE EmptyInv'
  OBVIOUS
<1> USE DEF wishes, mishaps
<1>0. staleEdits \in Nat /\ call \in [Calls -> {None} \union GoodCalls] BY DEF RowsInv
<1>1. CASE UNCHANGED marksVars BY <1>1 DEF marksVars, EmptyInv, Seen
<1>2. ASSUME NEW c \in Calls, NEW op \in Operations, NEW u \in Users, Begin(c, op, u)
      PROVE  EmptyInv'
  <2>1. /\ call' = [call EXCEPT ![c] = [op |-> op, user |-> u, seen |-> replica]]
        /\ UNCHANGED <<db, staleEdits>> /\ (op = "edit" => replica.state # "deleted")
    BY <1>2 DEF Begin, Allowed, CanEdit
  <2>2. /\ call'[c].op = op /\ Seen(c)' = replica
        /\ \A d \in Calls : d # c => call'[d] = call[d]
    BY <1>0, <2>1 DEF Seen
  <2>3. QED BY <2>1, <2>2 DEF EmptyInv, Seen
<1>3. ASSUME NEW c \in Calls, Writes(c)
      PROVE  \A d \in Calls : call'[d] # None /\ call'[d].op = "edit" => Seen(d)'.state # "deleted"
  BY <1>3 DEF Writes, EmptyInv, Seen
<1>4. ASSUME NEW c \in Calls,
             \/ MarkAsRead(c) \/ ToggleReaction(c) \/ PinMessage(c) \/ UnpinMessage(c)
             \/ FlagMessage(c)
      PROVE  EmptyInv'
  <2>1. Writes(c) /\ db'.state = db.state /\ db'.content = db.content
    BY <1>4, MarkWrites, ReactionCalls
  <2>2. staleEdits' = staleEdits BY <1>4, ReactionCalls DEF MarkAsRead
  <2>3. QED BY <1>3, <2>1, <2>2 DEF EmptyInv
<1>5. ASSUME NEW c \in Calls, UpdateMessage(c) PROVE EmptyInv'
  <2>1. /\ Writes(c) /\ db'.state = db.state /\ call[c] # None /\ call[c].op = "edit"
        /\ staleEdits' = IF Seen(c).state # db.state THEN staleEdits + 1 ELSE staleEdits
    BY <1>5, EditWrites DEF UpdateMessage, Update
  <2>2. Seen(c).state # "deleted" BY <2>1 DEF EmptyInv
  <2>3. db'.state = "deleted" => staleEdits' # 0 BY <1>0, <2>1, <2>2
  <2>4. QED BY <1>3, <2>1, <2>3 DEF EmptyInv
<1>6. ASSUME NEW c \in Calls, DeleteMessage(c) PROVE EmptyInv'
  <2>1. Writes(c) /\ db'.content = FALSE BY <1>6, DeleteWrites
  <2>2. QED BY <1>3, <2>1 DEF EmptyInv
<1>7. ASSUME NEW c \in Calls, Abort(c) PROVE EmptyInv'
  <2>1. /\ call'[c] = None /\ UNCHANGED <<db, staleEdits>>
        /\ \A d \in Calls : d # c => call'[d] = call[d]
    BY <1>0, <1>7 DEF Abort
  <2>2. QED BY <2>1 DEF EmptyInv, Seen
<1>8. CASE SendMessage \/ BroadcastSystemMessage \/ Purge
  <2>1. UNCHANGED call /\ db'.state # "deleted" BY <1>8, SingleWrites
  <2>2. QED BY <2>1 DEF EmptyInv, Seen
<1>9. CASE Replicate BY <1>9 DEF Replicate, EmptyInv, Seen
<1>10. QED
  BY <1>1, <1>2, <1>4, <1>5, <1>6, <1>7, <1>8, <1>9 DEF MarksNext

\* A deleted message has no content, unless an edit was checked before the deletion.
THEOREM DeletionLasts == MarksSpec => []DeletedStaysEmpty
<1>1. MarksInit => RowsInv /\ EmptyInv
  BY InitRows DEF MarksInit, EmptyInv, Unsent, None
<1>2. RowsInv /\ EmptyInv /\ [MarksNext]_marksVars => (RowsInv /\ EmptyInv)'
  BY NextRows, NextEmpty
<1>3. EmptyInv => DeletedStaysEmpty BY DEF EmptyInv, DeletedStaysEmpty
<1>4. QED BY <1>1, <1>2, <1>3, PTL DEF MarksSpec

-----------------------------------------------------------------------------
(* The message: one call at a time, on the primary *)

\* No replica is configured and calls do not overlap.
OneAtATime == MaxLag = 0 /\ \A c, d \in Calls : c = d

\* Then a call works on the row as it is, until an admin removes it.
SerialInv ==
    /\ lag = <<>> /\ replica = db
    /\ \A c \in Calls : call[c] # None =>
           db.state # "unsent" /\ (Found(db) => Seen(c) = db)
    /\ staleReads = 0 /\ staleMarks = 0 /\ staleEdits = 0

LEMMA WritesAtOnce ==
    ASSUME MaxLag = 0, NEW row, Write(row)
    PROVE  db' = row /\ replica' = db' /\ UNCHANGED lag
BY DEF Write

LEMMA NextSerial ==
    ASSUME OneAtATime, RowsInv, SerialInv, [MarksNext]_marksVars
    PROVE  SerialInv'
<1> USE DEF wishes, mishaps
<1>0. MaxLag = 0 /\ call \in [Calls -> {None} \union GoodCalls] BY DEF OneAtATime, RowsInv
<1>1. CASE UNCHANGED marksVars BY <1>1 DEF marksVars, SerialInv, Seen, Found
<1>2. ASSUME NEW c \in Calls, NEW op \in Operations, NEW u \in Users, Begin(c, op, u)
      PROVE  SerialInv'
  <2>1. Found(replica) BY <1>2 DEF Begin, Allowed, CanRead, CanUnpin, CanEdit, CanDelete
  <2>2. /\ call' = [call EXCEPT ![c] = [op |-> op, user |-> u, seen |-> replica]]
        /\ UNCHANGED <<db, replica, lag, staleReads, staleMarks, staleEdits>>
    BY <1>2 DEF Begin
  <2>3. Seen(c)' = db BY <1>0, <2>2 DEF Seen, SerialInv
  <2>4. \A d \in Calls : d = c BY DEF OneAtATime
  <2>5. QED BY <2>1, <2>2, <2>3, <2>4 DEF SerialInv, Found
<1>3. ASSUME NEW c \in Calls,
             \/ MarkAsRead(c) \/ ToggleReaction(c) \/ PinMessage(c) \/ UnpinMessage(c)
             \/ FlagMessage(c) \/ UpdateMessage(c) \/ DeleteMessage(c)
      PROVE  SerialInv'
  <2>1. \E row : Write(row)
    BY <1>3
    DEF MarkAsRead, ToggleReaction, PinMessage, UnpinMessage, FlagMessage, UpdateMessage,
        DeleteMessage, WriteMarks, Update
  <2>2. replica' = db' /\ UNCHANGED lag BY <1>0, <2>1, WritesAtOnce
  <2>3. Writes(c) BY <1>3, MarkWrites, ReactionCalls, EditWrites, DeleteWrites
  <2>4. Seen(c) = db /\ call'[c] = None BY <2>3 DEF Writes, SerialInv
  <2>5. \A d \in Calls : d = c BY DEF OneAtATime
  <2>6. UNCHANGED <<staleReads, staleMarks, staleEdits>>
    BY <1>3, <2>4
    DEF MarkAsRead, ToggleReaction, PinMessage, UnpinMessage, FlagMessage, UpdateMessage,
        DeleteMessage, WriteMarks
  <2>7. QED BY <2>2, <2>4, <2>5, <2>6 DEF SerialInv
<1>4. ASSUME NEW c \in Calls, Abort(c) PROVE SerialInv'
  <2>1. call'[c] = None /\ UNCHANGED <<db, replica, lag, staleReads, staleMarks, staleEdits>>
    BY <1>0, <1>4 DEF Abort
  <2>2. \A d \in Calls : d = c BY DEF OneAtATime
  <2>3. QED BY <2>1, <2>2 DEF SerialInv
<1>5. CASE SendMessage \/ BroadcastSystemMessage \/ Purge
  <2>1. /\ UNCHANGED <<call, staleReads, staleMarks, staleEdits>>
        /\ db.state = "unsent" \/ db'.state = "purged"
    BY <1>5, SingleWrites
  <2>2. \E row : Write(row) BY <1>5 DEF SendMessage, BroadcastSystemMessage, Purge
  <2>3. replica' = db' /\ UNCHANGED lag BY <1>0, <2>2, WritesAtOnce
  <2>4. QED BY <2>1, <2>3 DEF SerialInv, Seen, Found
<1>6. CASE Replicate BY <1>6 DEF Replicate, SerialInv
<1>7. QED BY <1>1, <1>2, <1>3, <1>4, <1>5, <1>6 DEF MarksNext

\* Every exception of the three properties takes a replica that is behind or a second
\* call in progress: without, receipts, reactions, pins and flags are those confirmed,
\* and a deleted message is empty.
THEOREM OneCallLosesNothing ==
    ASSUME OneAtATime
    PROVE  MarksSpec =>
               []/\ Found(db) => readers = db.readBy /\ reactors = ListOf(db.reactions)
                 /\ Found(db) /\ toggles = 0 => labels = LabelsOf(db.reactions)
                 /\ db.state = "deleted" => ~db.content
<1> DEFINE Exact == /\ Found(db) => readers = db.readBy /\ reactors = ListOf(db.reactions)
                    /\ Found(db) /\ toggles = 0 => labels = LabelsOf(db.reactions)
                    /\ db.state = "deleted" => ~db.content
<1>1. MarksInit => SerialInv
  BY DEF MarksInit, SerialInv
<1>2. RowsInv /\ SerialInv /\ [MarksNext]_marksVars => SerialInv'
  BY NextSerial
<1>3. SerialInv /\ ReceiptsAreKept /\ MarksAreExact /\ DeletedStaysEmpty => Exact
  BY DEF SerialInv, ReceiptsAreKept, MarksAreExact, DeletedStaysEmpty
<1>4. QED BY <1>1, <1>2, <1>3, RowsHold, ReceiptsStay, MarksStayExact, DeletionLasts, PTL DEF MarksSpec
=============================================================================

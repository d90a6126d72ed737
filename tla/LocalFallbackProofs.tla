------------------------- MODULE LocalFallbackProofs -------------------------
(***************************************************************************)
(* The two components that fall back on local files when their store       *)
(* refuses: the audit worker and the object storage.                       *)
(*                                                                         *)
(* AuditWorker, for any number of entries, any batch size and any number   *)
(* of crashes: no audit entry disappears without a trace, batches on their *)
(* way to the database share no entry, and only a redelivery writes an     *)
(* entry twice.                                                            *)
(*                                                                         *)
(* StorageSync, for any number of bodies, calls, sync jobs and faults: one *)
(* key holds a whole body, the newest one, or none at all, if the last     *)
(* call had the key to itself.                                             *)
(***************************************************************************)
EXTENDS AuditWorker, StorageSync, FiniteSetTheorems, TLAPS

-----------------------------------------------------------------------------
(* The audit worker: types *)

LEMMA BumpType ==
    ASSUME NEW f \in [Entries -> Nat], NEW S
    PROVE  /\ BumpAll(f, S) \in [Entries -> Nat]
           /\ \A e \in Entries : BumpAll(f, S)[e] = IF e \in S THEN f[e] + 1 ELSE f[e]
BY DEF BumpAll

LEMMA InitType == Init => TypeOK
BY ConstantsAssumption DEF Init, TypeOK

\* The process goes away.
LEMMA DieType ==
    ASSUME TypeOK, Die, incidents' \in 0 .. MaxIncidents
    PROVE  TypeOK'
<1>1. rows' \in [Entries -> Nat] /\ again' \in [Entries -> Nat] BY BumpType DEF Die, TypeOK
<1>2. queue' \subseteq Entries BY DEF Die, TypeOK
<1>3. \A b \in batches : b.items \subseteq Entries BY DEF TypeOK, Batches
<1>4. vanished' \subseteq Entries BY <1>3 DEF Die, TypeOK
<1>5. held' \in Entries \union {NoEntry} BY DEF Die
<1>6. QED BY <1>1, <1>2, <1>4, <1>5 DEF Die, TypeOK

LEMMA NextType == TypeOK /\ [Next]_vars => TypeOK'
<1> SUFFICES ASSUME TypeOK, [Next]_vars PROVE TypeOK'
  OBVIOUS
<1> USE DEF stores
<1>1. CASE Deliver
  <2>1. PICK e \in queue \ bad :
          /\ queue' = queue \ {e}
          /\ IF Full(buffer \union {e})
             THEN Drain(buffer \union {e}, "handler") /\ held' = e
             ELSE buffer' = buffer \union {e} /\ UNCHANGED <<batches, held>>
    BY <1>1 DEF Deliver
  <2>2. e \in Entries /\ buffer \union {e} \subseteq Entries BY DEF TypeOK
  <2>3. [items |-> buffer \union {e}, by |-> "handler", at |-> "insert"] \in Batches BY <2>2 DEF Batches
  <2>4. batches' \subseteq Batches /\ buffer' \subseteq Entries /\ held' \in Entries \union {NoEntry}
    BY <2>1, <2>2, <2>3 DEF Drain, TypeOK
  <2>5. QED BY <1>1, <2>1, <2>4 DEF Deliver, TypeOK
<1>2. CASE Reject BY <1>2 DEF Reject, TypeOK
<1>3. CASE TimerFlush \/ Stop
  <2>1. /\ [items |-> buffer, by |-> "timer", at |-> "insert"] \in Batches
        /\ [items |-> buffer, by |-> "destroy", at |-> "insert"] \in Batches
    BY DEF TypeOK, Batches
  <2>2. batches' \subseteq Batches /\ buffer' \subseteq Entries
    BY <1>3, <2>1 DEF TimerFlush, Stop, Drain, TypeOK
  <2>3. incidents' \in 0 .. MaxIncidents BY <1>3, ConstantsAssumption DEF TimerFlush, Stop, TypeOK
  <2>4. QED BY <1>3, <2>2, <2>3 DEF TimerFlush, Stop, TypeOK
<1>4. CASE Ack \/ Start BY <1>4 DEF Ack, Start, TypeOK
<1>5. ASSUME NEW b \in batches, BatchStep(b) PROVE TypeOK'
  <2>1. b \in Batches /\ b.items \subseteq Entries /\ [b EXCEPT !.at = "file"] \in Batches BY DEF TypeOK, Batches
  <2>2. batches' \subseteq Batches BY <1>5, <2>1 DEF BatchStep, Insert, InsertFails, Fallback, TypeOK
  <2>3. rows' \in [Entries -> Nat] BY <1>5, BumpType DEF BatchStep, Insert, InsertFails, Fallback, TypeOK
  <2>4. fallback' \subseteq Entries /\ dumped' \subseteq Entries
    BY <1>5, <2>1 DEF BatchStep, Insert, InsertFails, Fallback, TypeOK
  <2>5. QED BY <1>5, <2>2, <2>3, <2>4 DEF BatchStep, Insert, InsertFails, Fallback, TypeOK
<1>6. CASE Crash \/ AckThrows \/ Exit
  <2>1. Die /\ incidents' \in 0 .. MaxIncidents
    BY <1>6, ConstantsAssumption DEF Crash, AckThrows, Exit, TypeOK
  <2>2. QED BY <2>1, DieType
<1>7. CASE ConsumerCloses
  <2>1. again' \in [Entries -> Nat] BY <1>7, BumpType DEF ConsumerCloses, TypeOK
  <2>2. incidents' \in 0 .. MaxIncidents BY <1>7, ConstantsAssumption DEF ConsumerCloses, TypeOK
  <2>3. QED BY <1>7, <2>1, <2>2 DEF ConsumerCloses, TypeOK
<1>8. CASE UNCHANGED vars BY <1>8 DEF vars, TypeOK
<1>9. QED BY <1>1, <1>2, <1>3, <1>4, <1>5, <1>6, <1>7, <1>8 DEF Next

\* Every state of a behaviour is well typed.
THEOREM TypeCorrect == Spec => []TypeOK
BY InitType, NextType, PTL DEF Spec

-----------------------------------------------------------------------------
(* No entry disappears *)

Somewhere(e) ==
    \/ e \in queue \/ Buffered(e) \/ InBatch(e) \/ rows[e] > 0 \/ e \in fallback \/ e \in dumped
    \/ e \in parked \/ e \in dropped \/ e \in vanished

LEMMA DieAccounted ==
    ASSUME TypeOK, Die, NEW e \in Entries, Somewhere(e)
    PROVE  Somewhere(e)'
<1> DEFINE requeued == IF consuming /\ held # NoEntry THEN {held} ELSE {}
<1>1. PICK committed \in SUBSET {b \in batches : b.at = "insert"} :
        /\ rows' = BumpAll(rows, UNION {b.items : b \in committed})
        /\ queue' = queue \union requeued
        /\ vanished' = vanished \union ((buffer \union UNION {b.items : b \in batches \ committed})
                                        \ (queue \union requeued))
  BY DEF Die
<1>2. \A x \in Entries : rows[x] \in Nat /\ (rows[x] > 0 => rows'[x] > 0) BY <1>1, BumpType DEF TypeOK
<1>3. CASE InBatch(e)
  <2>1. PICK b \in batches : e \in b.items BY <1>3 DEF InBatch
  <2>2. CASE b \in committed
    <3>1. e \in UNION {c.items : c \in committed} BY <2>1, <2>2
    <3>2. rows'[e] = rows[e] + 1 BY <1>1, <3>1, BumpType DEF TypeOK
    <3>3. QED BY <1>2, <3>2 DEF Somewhere
  <2>3. CASE b \notin committed
    <3>1. e \in UNION {c.items : c \in batches \ committed} BY <2>1, <2>3
    <3>2. QED BY <1>1, <3>1 DEF Somewhere
  <2>4. QED BY <2>2, <2>3
<1>4. CASE Buffered(e) BY <1>1, <1>4 DEF Buffered, Somewhere
<1>5. CASE ~InBatch(e) /\ ~Buffered(e)
  <2>1. UNCHANGED <<fallback, dumped, parked, dropped>> BY DEF Die
  <2>2. QED BY <1>1, <1>2, <1>5, <2>1 DEF Somewhere
<1>6. QED BY <1>3, <1>4, <1>5

LEMMA NewBatch ==
    ASSUME NEW e, NEW S, NEW by, batches' = batches \union {[items |-> S, by |-> by, at |-> "insert"]}
    PROVE  InBatch(e) \/ e \in S => InBatch(e)'
<1>1. [items |-> S, by |-> by, at |-> "insert"] \in batches' /\ batches \subseteq batches' OBVIOUS
<1>2. [items |-> S, by |-> by, at |-> "insert"].items = S OBVIOUS
<1>3. QED BY <1>1, <1>2 DEF InBatch

LEMMA NextAccounted == TypeOK /\ EntriesAccounted /\ [Next]_vars => EntriesAccounted'
<1> SUFFICES ASSUME TypeOK, EntriesAccounted, [Next]_vars, NEW e \in Entries PROVE Somewhere(e)'
  BY DEF EntriesAccounted, Somewhere
<1>0. Somewhere(e) BY DEF EntriesAccounted, Somewhere
<1> USE DEF stores
<1>1. CASE Deliver
  <2>1. PICK x \in queue \ bad :
          /\ queue' = queue \ {x}
          /\ IF Full(buffer \union {x})
             THEN Drain(buffer \union {x}, "handler") /\ held' = x
             ELSE buffer' = buffer \union {x} /\ UNCHANGED <<batches, held>>
    BY <1>1 DEF Deliver
  <2>2. UNCHANGED <<rows, fallback, dumped, parked, dropped, vanished>> BY <1>1 DEF Deliver
  <2>3. CASE Full(buffer \union {x})
    <3>1. batches' = batches \union {[items |-> buffer \union {x}, by |-> "handler", at |-> "insert"]}
      BY <2>1, <2>3 DEF Drain
    <3>2. InBatch(e) \/ e \in buffer \union {x} => InBatch(e)' BY <3>1, NewBatch
    <3>3. QED BY <1>0, <2>1, <2>2, <3>2 DEF Somewhere, Buffered
  <2>4. CASE ~Full(buffer \union {x})
    <3>1. buffer' = buffer \union {x} /\ batches' = batches BY <2>1, <2>4
    <3>2. InBatch(e)' = InBatch(e) BY <3>1 DEF InBatch
    <3>3. QED BY <1>0, <2>1, <2>2, <3>1, <3>2 DEF Somewhere, Buffered
  <2>5. QED BY <2>3, <2>4
<1>2. CASE Reject
  <2>1. InBatch(e)' = InBatch(e) BY <1>2 DEF Reject, InBatch
  <2>2. QED BY <1>0, <1>2, <2>1 DEF Reject, Somewhere, Buffered
<1>3. CASE TimerFlush \/ Stop
  <2>1. UNCHANGED <<queue, rows, fallback, dumped, parked, dropped, vanished>> BY <1>3 DEF TimerFlush, Stop
  <2>2. UNCHANGED <<buffer, batches>> \/ \E by \in {"timer", "destroy"} : Drain(buffer, by)
    BY <1>3 DEF TimerFlush, Stop
  <2>3. CASE UNCHANGED <<buffer, batches>> BY <1>0, <2>1, <2>3 DEF Somewhere, Buffered, InBatch
  <2>4. ASSUME NEW by \in {"timer", "destroy"}, Drain(buffer, by) PROVE Somewhere(e)'
    <3>1. batches' = batches \union {[items |-> buffer, by |-> by, at |-> "insert"]} BY <2>4 DEF Drain
    <3>2. InBatch(e) \/ Buffered(e) => InBatch(e)' BY <3>1, NewBatch DEF Buffered
    <3>3. QED BY <1>0, <2>1, <3>2 DEF Somewhere
  <2>5. QED BY <2>2, <2>3, <2>4
<1>4. CASE Ack \/ Start
  <2>1. UNCHANGED <<queue, buffer, batches, rows, fallback, dumped, parked, dropped, vanished>>
    BY <1>4 DEF Ack, Start
  <2>2. QED BY <1>0, <2>1 DEF Somewhere, Buffered, InBatch
<1>5. ASSUME NEW b \in batches, BatchStep(b) PROVE Somewhere(e)'
  <2>1. UNCHANGED <<queue, buffer, parked, dropped, vanished>>
    BY <1>5 DEF BatchStep, Insert, InsertFails, Fallback
  <2>2. /\ rows[e] \in Nat /\ (rows[e] > 0 => rows'[e] > 0)
        /\ fallback \subseteq fallback' /\ dumped \subseteq dumped'
    BY <1>5, BumpType DEF BatchStep, Insert, InsertFails, Fallback, TypeOK
  <2>3. ASSUME e \notin b.items PROVE InBatch(e) => InBatch(e)'
    BY <1>5, <2>3 DEF BatchStep, Insert, InsertFails, Fallback, InBatch
  <2>4. CASE e \in b.items
    <3>1. CASE Insert(b)
      <4>1. rows'[e] = rows[e] + 1 BY <2>4, <3>1, BumpType DEF Insert, TypeOK
      <4>2. QED BY <2>2, <4>1 DEF Somewhere, TypeOK
    <3>2. CASE InsertFails(b)
      <4>1. [b EXCEPT !.at = "file"] \in batches' BY <3>2 DEF InsertFails
      <4>2. [b EXCEPT !.at = "file"].items = b.items BY DEF TypeOK, Batches
      <4>3. QED BY <2>4, <4>1, <4>2 DEF Somewhere, InBatch
    <3>3. CASE Fallback(b) BY <2>4, <3>3 DEF Fallback, Somewhere
    <3>4. QED BY <1>5, <3>1, <3>2, <3>3 DEF BatchStep
  <2>5. CASE e \notin b.items BY <1>0, <2>1, <2>2, <2>3, <2>5 DEF Somewhere, Buffered
  <2>6. QED BY <2>4, <2>5
<1>6. CASE Crash \/ AckThrows \/ Exit BY <1>0, <1>6, DieAccounted DEF Crash, AckThrows, Exit
<1>7. CASE ConsumerCloses
  <2>1. UNCHANGED <<buffer, batches, rows, fallback, dumped, parked, dropped, vanished>> /\ queue \subseteq queue'
    BY <1>7 DEF ConsumerCloses
  <2>2. QED BY <1>0, <2>1 DEF Somewhere, Buffered, InBatch
<1>8. CASE UNCHANGED vars BY <1>0, <1>8 DEF vars, Somewhere, Buffered, InBatch
<1>9. QED BY <1>1, <1>2, <1>3, <1>4, <1>5, <1>6, <1>7, <1>8 DEF Next

\* No audit entry disappears: it waits, is buffered or being written, is stored, in the
\* fallback file, the log or the dead-letter queue, or a process died with it.
THEOREM NoEntryDisappears == Spec => []EntriesAccounted
<1>1. Init => EntriesAccounted BY DEF Init, EntriesAccounted
<1>2. QED BY <1>1, NextAccounted, TypeCorrect, PTL DEF Spec

-----------------------------------------------------------------------------
(* Batches share no entry *)

\* What is queued for an open consumer is not in the process, and a process that is down
\* holds nothing: it is what keeps an entry out of two batches.
Apart ==
    /\ IsFiniteSet(buffer)
    /\ consuming => \A e \in queue : ~Buffered(e) /\ ~InBatch(e)
    /\ process = "down" => buffer = {} /\ batches = {}

ApartInv == TypeOK /\ BatchesDisjoint /\ Apart

\* The entries of S become a batch.
LEMMA DrainApart ==
    ASSUME ApartInv, NEW S, NEW by, Drain(S, by), \A b \in batches : b.items \intersect S = {}
    PROVE  BatchesDisjoint' /\ IsFiniteSet(buffer')
<1> DEFINE n == [items |-> S, by |-> by, at |-> "insert"]
<1>1. batches' = batches \union {n} /\ buffer' = {} BY DEF Drain
<1>2. IsFiniteSet(buffer') /\ Cardinality(buffer') < batchSize
  BY <1>1, FS_EmptySet, ConstantsAssumption
<1>3. n.items = S OBVIOUS
<1> HIDE DEF n
<1>4. ASSUME NEW b \in batches', NEW c \in batches', b # c PROVE b.items \intersect c.items = {}
  <2>1. CASE b \in batches /\ c \in batches BY <1>4, <2>1 DEF ApartInv, BatchesDisjoint
  <2>2. CASE b = n /\ c \in batches BY <1>3, <2>2
  <2>3. CASE b \in batches /\ c = n BY <1>3, <2>3
  <2>4. QED BY <1>1, <1>4, <2>1, <2>2, <2>3
<1>5. \A b \in batches' : b.items \intersect buffer' = {} BY <1>1
<1>6. QED BY <1>2, <1>4, <1>5 DEF BatchesDisjoint

\* The process goes away with all it holds.
LEMMA DieApart ==
    ASSUME Die
    PROVE  BatchesDisjoint' /\ Apart'
<1>1. buffer' = {} /\ batches' = {} /\ consuming' = FALSE BY DEF Die
<1>2. QED BY <1>1, FS_EmptySet, ConstantsAssumption DEF BatchesDisjoint, Apart

LEMMA NextApart == ApartInv /\ [Next]_vars => ApartInv'
<1> SUFFICES ASSUME ApartInv, [Next]_vars PROVE BatchesDisjoint' /\ Apart'
  BY NextType DEF ApartInv
<1>0. /\ IsFiniteSet(buffer) /\ Cardinality(buffer) < batchSize
      /\ \A b, c \in batches : b # c => b.items \intersect c.items = {}
      /\ \A b \in batches : b.items \intersect buffer = {}
      /\ consuming => \A e \in queue : ~Buffered(e) /\ ~InBatch(e)
      /\ process = "down" => buffer = {} /\ batches = {}
  BY DEF ApartInv, BatchesDisjoint, Apart
<1> USE DEF stores
<1>1. CASE Deliver
  <2>1. PICK x \in queue \ bad :
          /\ queue' = queue \ {x}
          /\ IF Full(buffer \union {x})
             THEN Drain(buffer \union {x}, "handler") /\ held' = x
             ELSE buffer' = buffer \union {x} /\ UNCHANGED <<batches, held>>
    BY <1>1 DEF Deliver
  <2>2. x \notin buffer /\ \A b \in batches : x \notin b.items
    BY <1>0, <1>1 DEF Deliver, Buffered, InBatch
  <2>3. \A b \in batches : b.items \intersect (buffer \union {x}) = {} BY <1>0, <2>2
  <2>4. process' # "down" BY <1>1 DEF Deliver, Running
  <2>5. \A e \in queue : ~Buffered(e) /\ ~InBatch(e) BY <1>0, <1>1 DEF Deliver
  <2>6. CASE Full(buffer \union {x})
    <3>1. Drain(buffer \union {x}, "handler") BY <2>1, <2>6
    <3>2. BatchesDisjoint' /\ IsFiniteSet(buffer') BY <2>3, <3>1, DrainApart
    <3>3. ASSUME NEW e \in queue' PROVE ~Buffered(e)' /\ ~InBatch(e)'
      <4>1. e \in queue /\ e \notin buffer \union {x} BY <2>1, <2>5, <3>3 DEF Buffered
      <4>2. ~InBatch(e) BY <2>5, <4>1
      <4>3. buffer' = {} BY <3>1 DEF Drain
      <4>4. ASSUME NEW b \in batches' PROVE e \notin b.items
        <5>1. CASE b \in batches BY <4>2, <5>1 DEF InBatch
        <5>2. CASE b \notin batches
          <6>1. b = [items |-> buffer \union {x}, by |-> "handler", at |-> "insert"]
            BY <3>1, <5>2 DEF Drain
          <6>2. b.items = buffer \union {x} BY <6>1
          <6>3. QED BY <4>1, <6>2
        <5>3. QED BY <5>1, <5>2
      <4>5. QED BY <4>3, <4>4 DEF Buffered, InBatch
    <3>4. QED BY <2>4, <3>2, <3>3 DEF Apart
  <2>7. CASE ~Full(buffer \union {x})
    <3>1. buffer' = buffer \union {x} /\ batches' = batches BY <2>1, <2>7
    <3>2. IsFiniteSet(buffer') BY <1>0, <3>1, FS_AddElement
    <3>3. Cardinality(buffer') < batchSize
      <4>1. Cardinality(buffer') \in Nat BY <3>2, FS_CardinalityType
      <4>2. ~(Cardinality(buffer') >= batchSize) BY <2>7, <3>1 DEF Full
      <4>3. QED BY <4>1, <4>2, ConstantsAssumption
    <3>4. BatchesDisjoint' BY <1>0, <2>3, <3>1, <3>3 DEF BatchesDisjoint
    <3>5. \A e \in queue' : ~Buffered(e)' /\ ~InBatch(e)' BY <2>1, <2>5, <3>1 DEF Buffered, InBatch
    <3>6. QED BY <2>4, <3>2, <3>4, <3>5 DEF Apart
  <2>8. QED BY <2>6, <2>7
<1>2. CASE Reject \/ Ack
  <2>1. UNCHANGED <<process, consuming, buffer, batches>> /\ queue' \subseteq queue BY <1>2 DEF Reject, Ack
  <2>2. QED BY <1>0, <2>1 DEF BatchesDisjoint, Apart, Buffered, InBatch
<1>3. CASE TimerFlush \/ Stop
  <2>1. UNCHANGED <<queue, consuming>> /\ process' # "down" BY <1>3 DEF TimerFlush, Stop
  <2>2. UNCHANGED <<buffer, batches>> \/ \E by \in {"timer", "destroy"} : Drain(buffer, by)
    BY <1>3 DEF TimerFlush, Stop
  <2>3. CASE UNCHANGED <<buffer, batches>>
    BY <1>0, <2>1, <2>3 DEF BatchesDisjoint, Apart, Buffered, InBatch
  <2>4. ASSUME NEW by \in {"timer", "destroy"}, Drain(buffer, by) PROVE BatchesDisjoint' /\ Apart'
    <3>1. BatchesDisjoint' /\ IsFiniteSet(buffer') BY <1>0, <2>4, DrainApart
    <3>2. ASSUME consuming, NEW e \in queue PROVE ~Buffered(e)' /\ ~InBatch(e)'
      <4>1. e \notin buffer /\ ~InBatch(e) BY <1>0, <3>2 DEF Buffered
      <4>2. ASSUME NEW b \in batches' PROVE e \notin b.items
        <5>1. CASE b \in batches BY <4>1, <5>1 DEF InBatch
        <5>2. CASE b \notin batches
          <6>1. b = [items |-> buffer, by |-> by, at |-> "insert"] BY <2>4, <5>2 DEF Drain
          <6>2. b.items = buffer BY <6>1
          <6>3. QED BY <4>1, <6>2
        <5>3. QED BY <5>1, <5>2
      <4>3. buffer' = {} BY <2>4 DEF Drain
      <4>4. QED BY <4>2, <4>3 DEF Buffered, InBatch
    <3>3. QED BY <2>1, <3>1, <3>2 DEF Apart
  <2>5. QED BY <2>2, <2>3, <2>4
<1>4. CASE Start BY <1>0, <1>4 DEF Start, BatchesDisjoint, Apart, Buffered, InBatch
<1>5. ASSUME NEW b \in batches, BatchStep(b) PROVE BatchesDisjoint' /\ Apart'
  <2>1. UNCHANGED <<process, consuming, queue, buffer>> /\ process # "down"
    BY <1>5 DEF BatchStep, Insert, InsertFails, Fallback, Running
  <2>2. batches' \subseteq (batches \ {b}) \union {[b EXCEPT !.at = "file"]}
    BY <1>5 DEF BatchStep, Insert, InsertFails, Fallback
  <2>3. [b EXCEPT !.at = "file"].items = b.items BY DEF ApartInv, TypeOK, Batches
  <2>4. \A c \in batches' : c \in batches \ {b} \/ c.items = b.items BY <2>2, <2>3
  <2>5. ASSUME NEW c \in batches', NEW d \in batches', c # d PROVE c.items \intersect d.items = {}
    <3>1. CASE c \in batches \ {b} /\ d \in batches \ {b} BY <1>0, <2>5, <3>1
    <3>2. CASE c \in batches \ {b} /\ d \notin batches \ {b} BY <1>0, <2>4, <3>2
    <3>3. CASE c \notin batches \ {b} /\ d \in batches \ {b} BY <1>0, <2>4, <3>3
    <3>4. CASE c \notin batches \ {b} /\ d \notin batches \ {b} BY <2>2, <2>5, <3>4
    <3>5. QED BY <3>1, <3>2, <3>3, <3>4
  <2>6. \A c \in batches' : c.items \intersect buffer = {} BY <1>0, <2>4
  <2>7. \A e : InBatch(e)' => InBatch(e) BY <2>4 DEF InBatch
  <2>8. BatchesDisjoint' BY <1>0, <2>1, <2>5, <2>6 DEF BatchesDisjoint
  <2>9. Apart' BY <1>0, <2>1, <2>7 DEF Apart, Buffered
  <2>10. QED BY <2>8, <2>9
<1>6. CASE Crash \/ AckThrows \/ Exit BY <1>6, DieApart DEF Crash, AckThrows, Exit
<1>7. CASE ConsumerCloses
  <2>1. UNCHANGED <<process, buffer, batches>> /\ consuming' = FALSE BY <1>7 DEF ConsumerCloses
  <2>2. QED BY <1>0, <2>1 DEF BatchesDisjoint, Apart
<1>8. CASE UNCHANGED vars
  BY <1>0, <1>8 DEF vars, BatchesDisjoint, Apart, Buffered, InBatch
<1>9. QED BY <1>1, <1>2, <1>3, <1>4, <1>5, <1>6, <1>7, <1>8 DEF Next

LEMMA ApartHolds == Spec => []ApartInv
<1>1. Init => ApartInv
  <2> SUFFICES ASSUME Init PROVE ApartInv
    OBVIOUS
  <2>1. TypeOK BY InitType
  <2>2. buffer = {} /\ batches = {} /\ process = "up" BY DEF Init
  <2>3. BatchesDisjoint /\ Apart BY <2>2, FS_EmptySet, ConstantsAssumption
     DEF BatchesDisjoint, Apart, Buffered, InBatch
  <2>4. QED BY <2>1, <2>3 DEF ApartInv
<1>2. QED BY <1>1, NextApart, PTL DEF Spec

\* The buffer never holds a whole batch that nobody writes, and no two batches on their
\* way to the database share an entry, however the flushes overlap.
THEOREM OverlappingFlushesAreDisjoint == Spec => []BatchesDisjoint
<1>1. ApartInv => BatchesDisjoint BY DEF ApartInv
<1>2. QED BY <1>1, ApartHolds, PTL

-----------------------------------------------------------------------------
(* No entry is written twice *)

Inserting(e) == \E b \in batches : b.at = "insert" /\ e \in b.items
InQueue(e) == IF e \in queue THEN 1 ELSE 0
OnItsWay(e) == IF Buffered(e) \/ Inserting(e) THEN 1 ELSE 0

\* The rows an entry has, and those it may still get, are paid for by its deliveries.
RowsPaid == \A e \in Entries : rows[e] + InQueue(e) + OnItsWay(e) <= 1 + again[e]

\* A step that writes no row, and puts an entry into the process only from the queue.
LEMMA StillRowsPaid ==
    ASSUME TypeOK, RowsPaid, TypeOK', UNCHANGED <<rows, again>>, NEW e \in Entries,
           e \in queue' => e \in queue,
           Buffered(e)' \/ Inserting(e)'
               => Buffered(e) \/ Inserting(e) \/ (e \in queue /\ e \notin queue')
    PROVE  rows'[e] + InQueue(e)' + OnItsWay(e)' <= 1 + again'[e]
<1>1. rows[e] \in Nat /\ again[e] \in Nat BY DEF TypeOK
<1>2. rows[e] + InQueue(e) + OnItsWay(e) <= 1 + again[e] BY DEF RowsPaid
<1>3. /\ InQueue(e) \in Nat /\ InQueue(e)' \in Nat /\ OnItsWay(e) \in Nat /\ OnItsWay(e)' \in Nat
      /\ InQueue(e)' + OnItsWay(e)' <= InQueue(e) + OnItsWay(e)
  <2>1. CASE e \in queue /\ e \notin queue' BY <2>1 DEF InQueue, OnItsWay
  <2>2. CASE ~(e \in queue /\ e \notin queue') BY <2>2 DEF InQueue, OnItsWay
  <2>3. QED BY <2>1, <2>2
<1> HIDE DEF InQueue, OnItsWay
<1>4. QED BY <1>1, <1>2, <1>3

\* A row is written for an entry of a batch, which is on its way no longer.
LEMMA WrittenOnce ==
    ASSUME TypeOK, RowsPaid, NEW e \in Entries, Buffered(e) \/ Inserting(e),
           rows'[e] = rows[e] + 1, InQueue(e)' <= InQueue(e) + again'[e] - again[e],
           again'[e] \in Nat, ~(Buffered(e)' \/ Inserting(e)')
    PROVE  rows'[e] + InQueue(e)' + OnItsWay(e)' <= 1 + again'[e]
<1>1. rows[e] \in Nat /\ again[e] \in Nat BY DEF TypeOK
<1>2. rows[e] + InQueue(e) + OnItsWay(e) <= 1 + again[e] BY DEF RowsPaid
<1>3. OnItsWay(e) = 1 /\ OnItsWay(e)' = 0 /\ InQueue(e) \in Nat /\ InQueue(e)' \in Nat
  BY DEF OnItsWay, InQueue
<1>4. QED BY <1>1, <1>2, <1>3

LEMMA DieRows ==
    ASSUME ApartInv, RowsPaid, TypeOK', Die, NEW e \in Entries
    PROVE  rows'[e] + InQueue(e)' + OnItsWay(e)' <= 1 + again'[e]
<1> DEFINE requeued == IF consuming /\ held # NoEntry THEN {held} ELSE {}
<1>1. PICK committed \in SUBSET {b \in batches : b.at = "insert"} :
        /\ rows' = BumpAll(rows, UNION {b.items : b \in committed})
        /\ queue' = queue \union requeued
        /\ again' = BumpAll(again, requeued)
  BY DEF Die
<1>2. TypeOK /\ rows[e] \in Nat /\ again[e] \in Nat /\ again'[e] \in Nat BY DEF ApartInv, TypeOK
<1>3. again'[e] = IF e \in requeued THEN again[e] + 1 ELSE again[e] BY <1>1, <1>2, BumpType DEF TypeOK
<1>4. InQueue(e)' <= InQueue(e) + again'[e] - again[e] /\ InQueue(e) \in Nat /\ InQueue(e)' \in Nat
  <2> HIDE DEF requeued
  <2>1. QED BY <1>1, <1>2, <1>3 DEF InQueue
<1>5. ~(Buffered(e)' \/ Inserting(e)') BY DEF Die, Buffered, Inserting
<1>6. CASE e \in UNION {b.items : b \in committed}
  <2>1. rows'[e] = rows[e] + 1 BY <1>1, <1>2, <1>6, BumpType DEF TypeOK
  <2>2. Inserting(e) BY <1>6 DEF Inserting
  <2>3. QED BY <1>2, <1>4, <1>5, <2>1, <2>2, WrittenOnce
<1>7. CASE e \notin UNION {b.items : b \in committed}
  <2>1. rows'[e] = rows[e] BY <1>1, <1>2, <1>7, BumpType DEF TypeOK
  <2>2. OnItsWay(e)' = 0 /\ OnItsWay(e) \in Nat BY <1>5 DEF OnItsWay
  <2>3. rows[e] + InQueue(e) + OnItsWay(e) <= 1 + again[e] BY DEF RowsPaid
  <2> HIDE DEF OnItsWay, InQueue
  <2>4. QED BY <1>2, <1>4, <2>1, <2>2, <2>3
<1>8. QED BY <1>6, <1>7

LEMMA NewInsert ==
    ASSUME NEW e, NEW S, NEW by, batches' = batches \union {[items |-> S, by |-> by, at |-> "insert"]}
    PROVE  Inserting(e)' => Inserting(e) \/ e \in S
<1>1. [items |-> S, by |-> by, at |-> "insert"].items = S OBVIOUS
<1>2. \A b \in batches' : b \in batches \/ b.items = S BY <1>1
<1>3. QED BY <1>2 DEF Inserting

LEMMA NextRowsPaid == ApartInv /\ RowsPaid /\ [Next]_vars => RowsPaid'
<1> SUFFICES ASSUME ApartInv, RowsPaid, [Next]_vars, NEW e \in Entries
             PROVE  rows'[e] + InQueue(e)' + OnItsWay(e)' <= 1 + again'[e]
  BY DEF RowsPaid
<1>0. TypeOK /\ TypeOK' /\ rows[e] \in Nat /\ again[e] \in Nat BY NextType DEF ApartInv, TypeOK
<1> USE DEF stores
<1>1. CASE Deliver
  <2>1. PICK x \in queue \ bad :
          /\ queue' = queue \ {x}
          /\ IF Full(buffer \union {x})
             THEN Drain(buffer \union {x}, "handler") /\ held' = x
             ELSE buffer' = buffer \union {x} /\ UNCHANGED <<batches, held>>
    BY <1>1 DEF Deliver
  <2>2. UNCHANGED <<rows, again>> BY <1>1 DEF Deliver
  <2>3. Buffered(e)' \/ Inserting(e)' => Buffered(e) \/ Inserting(e) \/ e = x
    <3>1. CASE Full(buffer \union {x})
      <4>1. /\ batches' = batches \union {[items |-> buffer \union {x}, by |-> "handler", at |-> "insert"]}
            /\ buffer' = {}
        BY <2>1, <3>1 DEF Drain
      <4>2. Inserting(e)' => Inserting(e) \/ e \in buffer \union {x} BY <4>1, NewInsert
      <4>3. QED BY <4>1, <4>2 DEF Buffered
    <3>2. CASE ~Full(buffer \union {x})
      <4>1. buffer' = buffer \union {x} /\ batches' = batches BY <2>1, <3>2
      <4>2. QED BY <4>1 DEF Buffered, Inserting
    <3>3. QED BY <3>1, <3>2
  <2>4. QED BY <1>0, <2>1, <2>2, <2>3, StillRowsPaid
<1>2. CASE Reject \/ Ack \/ Start
  <2>1. UNCHANGED <<rows, again, buffer, batches>> /\ queue' \subseteq queue BY <1>2 DEF Reject, Ack, Start
  <2>2. Buffered(e)' \/ Inserting(e)' => Buffered(e) \/ Inserting(e) BY <2>1 DEF Buffered, Inserting
  <2>3. QED BY <1>0, <2>1, <2>2, StillRowsPaid
<1>3. CASE TimerFlush \/ Stop
  <2>1. UNCHANGED <<rows, again, queue>> BY <1>3 DEF TimerFlush, Stop
  <2>2. UNCHANGED <<buffer, batches>> \/ \E by \in {"timer", "destroy"} : Drain(buffer, by)
    BY <1>3 DEF TimerFlush, Stop
  <2>3. Buffered(e)' \/ Inserting(e)' => Buffered(e) \/ Inserting(e)
    <3>1. CASE UNCHANGED <<buffer, batches>> BY <3>1 DEF Buffered, Inserting
    <3>2. ASSUME NEW by \in {"timer", "destroy"}, Drain(buffer, by)
          PROVE  Buffered(e)' \/ Inserting(e)' => Buffered(e) \/ Inserting(e)
      <4>1. /\ batches' = batches \union {[items |-> buffer, by |-> by, at |-> "insert"]}
            /\ buffer' = {}
        BY <3>2 DEF Drain
      <4>2. Inserting(e)' => Inserting(e) \/ e \in buffer BY <4>1, NewInsert
      <4>3. QED BY <4>1, <4>2 DEF Buffered
    <3>3. QED BY <2>2, <3>1, <3>2
  <2>4. QED BY <1>0, <2>1, <2>3, StillRowsPaid
<1>4. ASSUME NEW b \in batches, Insert(b) \/ InsertFails(b)
      PROVE  rows'[e] + InQueue(e)' + OnItsWay(e)' <= 1 + again'[e]
  <2>1. UNCHANGED <<queue, buffer, again>> /\ b.at = "insert" BY <1>4 DEF Insert, InsertFails
  <2>2. batches' = batches \ {b} \/ batches' = (batches \ {b}) \union {[b EXCEPT !.at = "file"]}
    BY <1>4 DEF Insert, InsertFails
  <2>3. [b EXCEPT !.at = "file"].at = "file" BY <1>0 DEF TypeOK, Batches
  <2>4. \A c \in batches' : c.at = "insert" => c \in batches \ {b} BY <2>2, <2>3
  <2>5. CASE rows'[e] = rows[e]
    <3>1. Buffered(e)' \/ Inserting(e)' => Buffered(e) \/ Inserting(e)
      BY <2>1, <2>4 DEF Buffered, Inserting
    <3>2. rows[e] + InQueue(e) + OnItsWay(e) <= 1 + again[e] BY DEF RowsPaid
    <3>3. InQueue(e)' = InQueue(e) /\ InQueue(e) \in Nat BY <2>1 DEF InQueue
    <3>4. OnItsWay(e)' <= OnItsWay(e) /\ OnItsWay(e) \in Nat /\ OnItsWay(e)' \in Nat
      BY <3>1 DEF OnItsWay
    <3> HIDE DEF InQueue, OnItsWay
    <3>5. QED BY <1>0, <2>1, <2>5, <3>2, <3>3, <3>4
  <2>6. CASE rows'[e] # rows[e]
    <3>1. rows' = BumpAll(rows, b.items) BY <1>4, <2>6 DEF Insert, InsertFails
    <3>2. e \in b.items /\ rows'[e] = rows[e] + 1 BY <1>0, <2>6, <3>1, BumpType DEF TypeOK
    <3>3. Inserting(e) BY <2>1, <3>2 DEF Inserting
    <3>4. e \notin buffer /\ \A c \in batches \ {b} : e \notin c.items
      BY <3>2 DEF ApartInv, BatchesDisjoint
    <3>5. ~(Buffered(e)' \/ Inserting(e)') BY <2>1, <2>4, <3>4 DEF Buffered, Inserting
    <3>6. InQueue(e)' <= InQueue(e) + again'[e] - again[e] BY <1>0, <2>1 DEF InQueue
    <3>7. again'[e] \in Nat BY <1>0, <2>1
    <3>8. QED BY <1>0, <3>2, <3>3, <3>5, <3>6, <3>7, WrittenOnce
  <2>7. QED BY <2>5, <2>6
<1>5. ASSUME NEW b \in batches, Fallback(b)
      PROVE  rows'[e] + InQueue(e)' + OnItsWay(e)' <= 1 + again'[e]
  <2>1. UNCHANGED <<queue, buffer, rows, again>> /\ batches' = batches \ {b} BY <1>5 DEF Fallback
  <2>2. Buffered(e)' \/ Inserting(e)' => Buffered(e) \/ Inserting(e) BY <2>1 DEF Buffered, Inserting
  <2>3. QED BY <1>0, <2>1, <2>2, StillRowsPaid
<1>6. CASE Crash \/ AckThrows \/ Exit BY <1>0, <1>6, DieRows DEF Crash, AckThrows, Exit
<1>7. CASE ConsumerCloses
  <2>1. UNCHANGED <<rows, buffer, batches>> /\ queue' = (IF held # NoEntry THEN queue \union {held} ELSE queue)
        /\ again' = BumpAll(again, {held})
    BY <1>7 DEF ConsumerCloses
  <2>2. again'[e] = IF e = held THEN again[e] + 1 ELSE again[e] BY <1>0, <2>1, BumpType DEF TypeOK
  <2>3. e # NoEntry BY ConstantsAssumption
  <2>4. InQueue(e)' <= InQueue(e) + again'[e] - again[e] /\ InQueue(e) \in Nat /\ InQueue(e)' \in Nat
    BY <1>0, <2>1, <2>2, <2>3 DEF InQueue
  <2>5. OnItsWay(e)' = OnItsWay(e) /\ OnItsWay(e) \in Nat BY <2>1 DEF OnItsWay, Buffered, Inserting
  <2>6. rows[e] + InQueue(e) + OnItsWay(e) <= 1 + again[e] BY DEF RowsPaid
  <2>7. again'[e] \in Nat BY <1>0 DEF TypeOK
  <2> HIDE DEF InQueue, OnItsWay
  <2>8. QED BY <1>0, <2>1, <2>4, <2>5, <2>6, <2>7
<1>8. CASE UNCHANGED vars
  <2>1. UNCHANGED <<queue, buffer, rows, again, batches>> BY <1>8 DEF vars
  <2>2. Buffered(e)' \/ Inserting(e)' => Buffered(e) \/ Inserting(e) BY <2>1 DEF Buffered, Inserting
  <2>3. QED BY <1>0, <2>1, <2>2, StillRowsPaid
<1>9. QED BY <1>1, <1>2, <1>3, <1>4, <1>5, <1>6, <1>7, <1>8 DEF Next, BatchStep

\* An entry has one row for each of its deliveries at most: neither overlapping flushes
\* nor a failed insert write it again.
THEOREM OneRowPerDelivery == Spec => []NoDoubleRows
<1>1. Init => RowsPaid
  <2> SUFFICES ASSUME Init, NEW e \in Entries PROVE rows[e] + InQueue(e) + OnItsWay(e) <= 1 + again[e]
    BY DEF RowsPaid
  <2>1. rows[e] = 0 /\ again[e] = 0 /\ InQueue(e) = 1 /\ OnItsWay(e) = 0
    BY DEF Init, InQueue, OnItsWay, Buffered, Inserting
  <2>2. QED BY <2>1
<1>2. ApartInv /\ RowsPaid => NoDoubleRows
  <2> SUFFICES ASSUME ApartInv, RowsPaid, NEW e \in Entries PROVE rows[e] <= 1 + again[e]
    BY DEF NoDoubleRows
  <2>1. rows[e] \in Nat /\ again[e] \in Nat /\ InQueue(e) \in Nat /\ OnItsWay(e) \in Nat
    BY DEF ApartInv, TypeOK, InQueue, OnItsWay
  <2>2. rows[e] + InQueue(e) + OnItsWay(e) <= 1 + again[e] BY DEF RowsPaid
  <2>3. QED BY <2>1, <2>2
<1>3. QED BY <1>1, <1>2, ApartHolds, NextRowsPaid, PTL DEF Spec

-----------------------------------------------------------------------------
(* The object storage: types *)

CallPlaces == {"idle", "put", "open", "write", "mark", "delete"}
SyncPlaces == {"idle", "download", "put", "verify", "unlinkFile", "unlinkMeta"}
CallRecords == [at : CallPlaces, body : Bodies \union {None}, linked : BOOLEAN, sole : BOOLEAN]
SyncRecords == [at : SyncPlaces, body : Contents]

StoreTypes ==
    /\ remote \in Contents /\ file \in Contents /\ meta \in BOOLEAN
    /\ fresh \subseteq Bodies
    /\ deletes \in Nat /\ faults \in Nat
    /\ expected \in Bodies \union {None, Unknown} /\ rewrote \in BOOLEAN

WorkTypes == calls \in [Calls -> CallRecords] /\ syncs \in [Syncs -> SyncRecords]

LEMMA TypeParts == StorageTypeOK <=> StoreTypes /\ WorkTypes
BY DEF StorageTypeOK, StoreTypes, WorkTypes, CallRecords, SyncRecords, CallPlaces, SyncPlaces

LEMMA TypesTogether == ASSUME StoreTypes', WorkTypes' PROVE StorageTypeOK'
BY DEF StorageTypeOK, StoreTypes, WorkTypes, CallRecords, SyncRecords, CallPlaces, SyncPlaces

LEMMA IdleRecords == IdleCall \in CallRecords /\ IdleSync \in SyncRecords
BY DEF IdleCall, IdleSync, CallRecords, SyncRecords, CallPlaces, SyncPlaces, Contents

LEMMA StorageInitType == StorageInit => StorageTypeOK
<1> SUFFICES ASSUME StorageInit PROVE StorageTypeOK
  OBVIOUS
<1>1. StoreTypes BY DEF StorageInit, StoreTypes, Contents
<1>2. WorkTypes BY IdleRecords DEF StorageInit, WorkTypes
<1>3. QED BY <1>1, <1>2, TypeParts

\* A call moves on, is answered, or a new one starts.
LEMMA CallMoves ==
    ASSUME WorkTypes, NEW c \in Calls
    PROVE  /\ calls[c].body \in Bodies \union {None}
           /\ \A p \in CallPlaces : Goto(c, p) => calls' \in [Calls -> CallRecords]
           /\ calls' = [calls EXCEPT ![c] = IdleCall] => calls' \in [Calls -> CallRecords]
           /\ calls' = [calls EXCEPT ![c].at = "write", ![c].linked = TRUE]
                => calls' \in [Calls -> CallRecords]
<1>1. calls[c] \in CallRecords BY DEF WorkTypes
<1>2. ASSUME NEW p \in CallPlaces PROVE [calls[c] EXCEPT !.at = p] \in CallRecords
  BY <1>1, <1>2 DEF CallRecords
<1>3. [calls[c] EXCEPT !.at = "write", !.linked = TRUE] \in CallRecords
  BY <1>1 DEF CallRecords, CallPlaces
<1>4. ASSUME NEW p \in CallPlaces, Goto(c, p) PROVE calls' \in [Calls -> CallRecords]
  BY <1>2, <1>4 DEF WorkTypes, Goto
<1>5. ASSUME calls' = [calls EXCEPT ![c].at = "write", ![c].linked = TRUE]
      PROVE  calls' \in [Calls -> CallRecords]
  <2>1. calls' = [calls EXCEPT ![c] = [calls[c] EXCEPT !.at = "write", !.linked = TRUE]]
    BY <1>5, <1>1 DEF WorkTypes, CallRecords
  <2>2. QED BY <2>1, <1>3 DEF WorkTypes
<1>6. QED BY <1>1, <1>4, <1>5, IdleRecords DEF WorkTypes, CallRecords

LEMMA BeginTypes ==
    ASSUME StorageTypeOK, NEW c \in Calls, NEW p \in CallPlaces, NEW b \in Bodies \union {None},
           Begin(c, p, b)
    PROVE  WorkTypes' /\ expected' \in {Unknown} /\ UNCHANGED <<remote, local, rewrote, faults>>
<1>1. StoreTypes /\ WorkTypes BY TypeParts
<1>2. Sole(c) \in BOOLEAN BY DEF Sole
<1>3. [at |-> p, body |-> b, linked |-> FALSE, sole |-> Sole(c)] \in CallRecords
  BY <1>2 DEF CallRecords
<1>4. \A d \in Calls : [calls[d] EXCEPT !.sole = FALSE] \in CallRecords
  BY <1>1 DEF WorkTypes, CallRecords
<1>5. QED BY <1>1, <1>3, <1>4 DEF Begin, WorkTypes

LEMMA CallType ==
    ASSUME StorageTypeOK, NEW c \in Calls, Call(c)
    PROVE  StorageTypeOK'
<1> USE DEF history, local
<1>0. StoreTypes /\ WorkTypes BY TypeParts
<1>a. {"idle", "put", "open", "write", "mark", "delete"} \subseteq CallPlaces BY DEF CallPlaces
<1>b. calls[c].body \in Contents /\ calls[c].body \in Bodies \union {None}
  BY <1>0, CallMoves DEF Contents
<1>1. CASE BeginUpload(c)
  <2>1. PICK b \in fresh : Begin(c, "put", b) /\ fresh' = fresh \ {b}
    BY <1>1 DEF BeginUpload
  <2>2. b \in Bodies BY <1>0 DEF StoreTypes
  <2>3. WorkTypes' BY <2>1, <2>2, <1>a, BeginTypes
  <2>4. StoreTypes' BY <2>1, <2>2, <1>a, <1>0, <1>1, BeginTypes DEF StoreTypes, BeginUpload
  <2>5. QED BY <2>3, <2>4, TypesTogether
<1>2. CASE BeginDelete(c)
  <2>1. Begin(c, "delete", None) BY <1>2 DEF BeginDelete
  <2>2. WorkTypes' BY <2>1, <1>a, BeginTypes
  <2>3. StoreTypes' BY <2>1, <1>a, <1>0, <1>2, BeginTypes DEF StoreTypes, BeginDelete
  <2>4. QED BY <2>2, <2>3, TypesTogether
<1>3. CASE Put(c)
  <2>1. WorkTypes' BY <1>0, <1>3, <1>a, CallMoves DEF Put, Answer, WorkTypes
  <2>2. remote' \in Contents /\ expected' \in Bodies \union {None, Unknown}
    BY <1>0, <1>3, <1>b DEF Put, Answer, StoreTypes
  <2>3. faults' \in Nat BY <1>0, <1>3 DEF Put, Fault, StoreTypes
  <2>4. StoreTypes' BY <1>0, <1>3, <2>2, <2>3 DEF Put, StoreTypes
  <2>5. QED BY <2>1, <2>4, TypesTogether
<1>4. CASE OpenFile(c)
  <2>1. WorkTypes' BY <1>0, <1>4, CallMoves DEF OpenFile, WorkTypes
  <2>2. rewrote' \in BOOLEAN BY <1>4, <1>0, Zenon DEF OpenFile, StoreTypes
  <2>3. StoreTypes' BY <1>0, <1>4, <2>2 DEF OpenFile, StoreTypes, Contents
  <2>4. QED BY <2>1, <2>3, TypesTogether
<1>5. CASE WriteFile(c)
  <2>1. WorkTypes' BY <1>0, <1>5, <1>a, CallMoves DEF WriteFile, WorkTypes
  <2>2. StoreTypes' BY <1>0, <1>5, <1>b DEF WriteFile, StoreTypes, Contents
  <2>3. QED BY <2>1, <2>2, TypesTogether
<1>6. CASE WriteMeta(c)
  <2>1. WorkTypes' BY <1>0, <1>6, CallMoves DEF WriteMeta, Answer, WorkTypes
  <2>2. StoreTypes' BY <1>0, <1>6, CallMoves DEF WriteMeta, Answer, StoreTypes
  <2>3. QED BY <2>1, <2>2, TypesTogether
<1>7. CASE Delete(c)
  <2>1. WorkTypes' BY <1>0, <1>7, CallMoves DEF Delete, Answer, WorkTypes
  <2>2. StoreTypes' BY <1>0, <1>7, CallMoves DEF Delete, Answer, StoreTypes, Contents
  <2>3. QED BY <2>1, <2>2, TypesTogether
<1>8. CASE Abort(c)
  <2>1. WorkTypes' BY <1>0, <1>8, CallMoves DEF Abort, WorkTypes
  <2>2. StoreTypes' BY <1>0, <1>8 DEF Abort, StoreTypes, Contents
  <2>3. QED BY <2>1, <2>2, TypesTogether
<1>9. QED
  BY <1>1, <1>2, <1>3, <1>4, <1>5, <1>6, <1>7, <1>8 DEF Call

LEMMA SyncType ==
    ASSUME StorageTypeOK, NEW s \in Syncs, Sync(s) \/ SyncFails(s) \/ SyncCrash(s)
    PROVE  StorageTypeOK'
<1>1. CASE ListPending(s)
  BY <1>1 DEF StorageTypeOK, ListPending, SyncGoto, history, local
<1>2. CASE Download(s)
  BY <1>2 DEF StorageTypeOK, Download, IdleSync, Contents, history, local
<1>3. CASE SyncPut(s)
  BY <1>3 DEF StorageTypeOK, SyncPut, SyncGoto, Contents, history, local
<1>4. CASE Verify(s)
  BY <1>4 DEF StorageTypeOK, Verify, SyncGoto, IdleSync, Contents, history, local
<1>5. CASE UnlinkFile(s)
  BY <1>5 DEF StorageTypeOK, UnlinkFile, SyncGoto, Contents, history, local
<1>6. CASE UnlinkMeta(s)
  BY <1>6 DEF StorageTypeOK, UnlinkMeta, IdleSync, Contents, history, local
<1>7. CASE SyncFails(s)
  BY <1>7 DEF StorageTypeOK, SyncFails, Fault, SyncAt, IdleSync, Contents, history, local
<1>8. CASE SyncCrash(s)
  BY <1>8 DEF StorageTypeOK, SyncCrash, Fault, IdleSync, Contents, history, local
<1>9. QED
  BY <1>1, <1>2, <1>3, <1>4, <1>5, <1>6, <1>7, <1>8 DEF Sync

LEMMA StorageNextType == StorageTypeOK /\ [StorageNext]_storageVars => StorageTypeOK'
<1> SUFFICES ASSUME StorageTypeOK, [StorageNext]_storageVars PROVE StorageTypeOK'
  OBVIOUS
<1>1. CASE UNCHANGED storageVars
  BY <1>1 DEF StorageTypeOK, storageVars, local, history
<1>2. CASE StorageNext
  BY <1>2, CallType, SyncType DEF StorageNext
<1>3. QED
  BY <1>1, <1>2

\* Every state of a behaviour is well typed, for any number of bodies, calls and jobs.
THEOREM StorageTypeCorrect == StorageSpec => []StorageTypeOK
BY StorageInitType, StorageNextType, PTL DEF StorageSpec

-----------------------------------------------------------------------------
(* The newest body is kept, and a deleted one stays deleted *)

Working(c) == calls[c].at # "idle"

\* A call that has the key to itself: no local copy waits and no job runs, ...
SoleCall(c) ==
    /\ Working(c) /\ ~meta /\ ~Syncing
    /\ \A d \in Calls \ {c} : ~Working(d)
    /\ calls[c].at = "write" => calls[c].linked /\ file = Torn
    /\ calls[c].at = "mark" => file = calls[c].body

\* ... uploads carry a body and deletions none, ...
BodiesFit ==
    \A c \in Calls :
        /\ calls[c].at \in {"put", "open", "write", "mark"} => calls[c].body \in Bodies
        /\ calls[c].at = "delete" => calls[c].body = None
        /\ calls[c].sole => SoleCall(c)

\* ... and what it leaves is touched by nothing but the jobs that carry its body.
Quiet == expected # Unknown => \A c \in Calls : ~Working(c)

Kept ==
    expected \in Bodies =>
        /\ remote = expected \/ (file = expected /\ meta)
        /\ meta \/ Syncing => file \in {expected, None}
        /\ \A s \in Syncs :
             /\ syncs[s].at = "put" => syncs[s].body = expected
             /\ syncs[s].at \in {"verify", "unlinkFile", "unlinkMeta"} => remote = expected

Deleted == expected = None => remote = None /\ ~meta /\ ~Syncing

NewestInv == StorageTypeOK /\ BodiesFit /\ Quiet /\ Kept /\ Deleted

LEMMA InitNewest == StorageInit => NewestInv
BY StorageInitType, StorageAssumption
   DEF StorageInit, NewestInv, BodiesFit, Quiet, Kept, Deleted, Working, Syncing, IdleCall, IdleSync

LEMMA BeginNewest ==
    ASSUME NewestInv, StorageTypeOK', NEW c \in Calls, NEW p \in CallPlaces, NEW b \in Bodies \union {None},
           Begin(c, p, b), p \in {"put", "delete"}, (p = "put") = (b \in Bodies)
    PROVE  NewestInv'
<1>1. expected' = Unknown /\ Unknown \notin Bodies /\ Unknown # None
  BY StorageAssumption DEF Begin
<1>2. Quiet' /\ Kept' /\ Deleted' BY <1>1 DEF Quiet, Kept, Deleted
<1>3. BodiesFit'
  <2>1. ASSUME NEW d \in Calls, d # c
        PROVE  /\ calls'[d].sole = FALSE /\ calls'[d].at = calls[d].at
               /\ calls'[d].body = calls[d].body
    BY <2>1, TypeParts DEF Begin, NewestInv, WorkTypes, CallRecords
  <2>2. calls'[c] = [at |-> p, body |-> b, linked |-> FALSE, sole |-> Sole(c)]
    BY DEF Begin
  <2>3. Sole(c) => ~meta' /\ ~Syncing' /\ \A d \in Calls \ {c} : ~(Working(d)')
    BY <2>1 DEF Sole, Begin, local, Syncing, CallAt, Working
  <2>4. calls'[c].sole => SoleCall(c)'
    BY <2>2, <2>3 DEF SoleCall, Working
  <2>5. /\ calls'[c].at \in {"put", "open", "write", "mark"} => calls'[c].body \in Bodies
        /\ calls'[c].at = "delete" => calls'[c].body = None
    <3>1. CASE p = "put" BY <2>2, <3>1
    <3>2. CASE p = "delete" BY <2>2, <3>2
    <3>3. QED BY <3>1, <3>2
  <2>6. ASSUME NEW d \in Calls, d # c
        PROVE  /\ calls'[d].at \in {"put", "open", "write", "mark"} => calls'[d].body \in Bodies
               /\ calls'[d].at = "delete" => calls'[d].body = None
               /\ calls'[d].sole => SoleCall(d)'
    BY <2>1, <2>6 DEF BodiesFit, NewestInv
  <2>7. QED BY <2>4, <2>5, <2>6 DEF BodiesFit
<1>4. QED BY <1>2, <1>3 DEF NewestInv

LEMMA CallNewest ==
    ASSUME NewestInv, StorageTypeOK', NEW c \in Calls, Call(c)
    PROVE  NewestInv'
<1>0. StoreTypes /\ WorkTypes /\ calls[c] \in CallRecords
  BY TypeParts DEF NewestInv, WorkTypes
<1>a. Unknown \notin Bodies /\ None \notin Bodies /\ Unknown # None /\ Torn # None /\ Torn \notin Bodies
  BY StorageAssumption
<1>b. {"put", "delete"} \subseteq CallPlaces BY DEF CallPlaces
<1>1. CASE BeginUpload(c)
  <2>1. PICK b \in fresh : Begin(c, "put", b) BY <1>1 DEF BeginUpload
  <2>2. QED BY <2>1, <1>0, <1>b, BeginNewest DEF StoreTypes
<1>2. CASE BeginDelete(c)
  <2>1. Begin(c, "delete", None) BY <1>2 DEF BeginDelete
  <2>2. QED BY <2>1, <1>a, <1>b, BeginNewest
<1>c. CASE ~(BeginUpload(c) \/ BeginDelete(c))
  <2> USE DEF NewestInv, local, history
  <2>0. Working(c) /\ expected = Unknown /\ Syncing' = Syncing /\ fresh' = fresh
    BY <1>c, <1>0 DEF Call, Put, OpenFile, WriteFile, WriteMeta, Delete, Abort, CallAt, Working,
       Quiet, Syncing
  <2>1. ASSUME NEW d \in Calls, d # c
        PROVE  /\ calls'[d].sole = calls[d].sole /\ calls'[d].at = calls[d].at
               /\ calls'[d].body = calls[d].body /\ ~calls[d].sole
    BY <1>c, <1>0, <2>0, <2>1
       DEF Call, Put, OpenFile, WriteFile, WriteMeta, Delete, Abort, Goto, Answer, WorkTypes,
           CallRecords, BodiesFit, SoleCall
  <2>2. CASE calls' = [calls EXCEPT ![c] = IdleCall]
    <3>1. BodiesFit' BY <2>1, <2>2, <1>0 DEF BodiesFit, IdleCall, WorkTypes
    <3>2. CASE expected' = Unknown
      BY <3>1, <3>2, <1>a DEF Quiet, Kept, Deleted
    <3>3. CASE expected' # Unknown
      <4>1. calls[c].sole /\ expected' = calls[c].body /\ SoleCall(c)
        BY <1>c, <3>3, <2>0, <2>2 DEF Call, Put, OpenFile, WriteFile, WriteMeta, Delete, Abort,
           Answer, Goto, BodiesFit
      <4>2. Quiet' BY <4>1, <2>1, <2>2, <1>0 DEF Quiet, SoleCall, Working, WorkTypes, IdleCall
      <4>3. ~Syncing' BY <4>1, <2>0 DEF SoleCall
      <4>4. (remote' = expected' /\ ~meta') \/ (file' = expected' /\ meta' /\ expected' \in Bodies)
        BY <4>1, <1>c, <2>2, <3>3, <2>0, <1>0
           DEF Call, Put, OpenFile, WriteFile, WriteMeta, Delete, Abort, SoleCall, BodiesFit,
               CallAt, Goto
      <4>5. Kept' /\ Deleted' BY <4>3, <4>4, <1>a DEF Kept, Deleted, Syncing
      <4>6. QED BY <3>1, <4>2, <4>5
    <3>4. QED BY <3>2, <3>3
  <2>3. CASE calls' # [calls EXCEPT ![c] = IdleCall]
    <3>1. expected' = Unknown
      BY <1>c, <2>3, <2>0 DEF Call, Put, OpenFile, WriteFile, WriteMeta, Delete, Abort, Answer
    <3>2. Quiet' /\ Kept' /\ Deleted' BY <3>1, <1>a DEF Quiet, Kept, Deleted
    <3>3. CASE Put(c)
      BY <3>2, <3>3, <2>0, <2>1, <2>3, <1>0 DEF Put, Goto, Answer, BodiesFit, SoleCall, Working,
         WorkTypes, CallAt, CallRecords
    <3>4. CASE OpenFile(c)
      BY <3>2, <3>4, <2>0, <2>1, <1>0 DEF OpenFile, BodiesFit, SoleCall, Working,
         WorkTypes, CallAt, CallRecords
    <3>5. CASE WriteFile(c)
      BY <3>2, <3>5, <2>0, <2>1, <1>0 DEF WriteFile, Goto, BodiesFit, SoleCall, Working,
         WorkTypes, CallAt, CallRecords
    <3>6. QED BY <1>c, <2>3, <3>3, <3>4, <3>5 DEF Call, WriteMeta, Delete, Abort, Answer
  <2>4. QED BY <2>2, <2>3
<1>3. QED BY <1>1, <1>2, <1>c

LEMMA SyncNewest ==
    ASSUME NewestInv, StorageTypeOK', NEW s \in Syncs, Sync(s) \/ SyncFails(s) \/ SyncCrash(s)
    PROVE  NewestInv'
<1> USE DEF NewestInv, local, history
<1>0. WorkTypes /\ syncs[s] \in SyncRecords BY TypeParts DEF WorkTypes
<1>a. Unknown \notin Bodies /\ None \notin Bodies /\ Torn \notin Bodies BY StorageAssumption
<1>b. UNCHANGED expected /\ (meta \/ Syncing)
  BY DEF Sync, ListPending, Download, SyncPut, Verify, UnlinkFile, UnlinkMeta, SyncFails, SyncCrash,
     Syncing, SyncAt
<1>c. \A c \in Calls : ~calls[c].sole BY <1>b DEF BodiesFit, SoleCall
<1>d. \A c \in Calls : /\ calls'[c].at = calls[c].at /\ calls'[c].body = calls[c].body
                       /\ calls'[c].sole = calls[c].sole
  BY <1>0 DEF Sync, ListPending, Download, SyncPut, Verify, UnlinkFile, UnlinkMeta, SyncFails, SyncCrash,
     WorkTypes, CallRecords
<1>1. BodiesFit' /\ Quiet' BY <1>b, <1>c, <1>d DEF BodiesFit, Quiet, Working
<1>2. expected # None BY <1>b DEF Deleted
<1>3. Deleted' BY <1>2, <1>b DEF Deleted
<1>4. Kept'
  <2> SUFFICES ASSUME expected \in Bodies PROVE Kept'
    BY <1>b DEF Kept
  <2>1. ASSUME NEW t \in Syncs, t # s PROVE syncs'[t] = syncs[t]
    BY <2>1, <1>0 DEF Sync, ListPending, Download, SyncPut, Verify, UnlinkFile, UnlinkMeta,
       SyncFails, SyncCrash, SyncGoto, WorkTypes
  <2>2. file \in {expected, None} BY <1>b DEF Kept
  <2>3. CASE ListPending(s)
    BY <2>1, <2>2, <2>3, <1>0, <1>b DEF ListPending, SyncGoto, Kept, WorkTypes, SyncRecords
  <2>4. CASE Download(s)
    BY <2>1, <2>2, <2>4, <1>0, <1>b DEF Download, IdleSync, Kept, WorkTypes, SyncRecords
  <2>5. CASE SyncPut(s)
    BY <2>1, <2>2, <2>5, <1>0, <1>b DEF SyncPut, SyncAt, SyncGoto, Kept, WorkTypes, SyncRecords
  <2>6. CASE Verify(s)
    BY <2>1, <2>2, <2>6, <1>0, <1>b DEF Verify, SyncAt, SyncGoto, IdleSync, Kept, WorkTypes, SyncRecords
  <2>7. CASE UnlinkFile(s)
    BY <2>1, <2>2, <2>7, <1>0, <1>b DEF UnlinkFile, SyncAt, SyncGoto, Kept, WorkTypes, SyncRecords
  <2>8. CASE UnlinkMeta(s)
    BY <2>1, <2>2, <2>8, <1>0, <1>b DEF UnlinkMeta, SyncAt, IdleSync, Kept, WorkTypes, SyncRecords
  <2>9. CASE SyncFails(s)
    BY <2>1, <2>2, <2>9, <1>0, <1>b DEF SyncFails, SyncAt, IdleSync, Kept, WorkTypes, SyncRecords
  <2>10. CASE SyncCrash(s)
    BY <2>1, <2>2, <2>10, <1>0, <1>b DEF SyncCrash, IdleSync, Kept, WorkTypes, SyncRecords
  <2>11. QED
    BY <2>3, <2>4, <2>5, <2>6, <2>7, <2>8, <2>9, <2>10 DEF Sync
<1>5. QED BY <1>1, <1>3, <1>4

LEMMA NextNewest == NewestInv /\ [StorageNext]_storageVars => NewestInv'
<1> SUFFICES ASSUME NewestInv, [StorageNext]_storageVars PROVE NewestInv'
  OBVIOUS
<1>1. StorageTypeOK' BY StorageNextType DEF NewestInv
<1>2. CASE UNCHANGED storageVars
  BY <1>1, <1>2 DEF NewestInv, storageVars, local, history, BodiesFit, SoleCall, Quiet, Kept, Deleted, Working,
     Syncing
<1>3. CASE StorageNext
  BY <1>1, <1>3, CallNewest, SyncNewest DEF StorageNext
<1>4. QED BY <1>2, <1>3

LEMMA NewestHolds == StorageSpec => []NewestInv
BY InitNewest, NextNewest, PTL DEF StorageSpec

\* What was uploaded last, by a call that had the key to itself, is in the cloud or
\* waits for it, whatever fails or dies afterwards.
THEOREM KeptUntilMoved == StorageSpec => []NewestIsKept
<1>1. NewestInv => NewestIsKept BY DEF NewestInv, Kept, NewestIsKept
<1>2. QED BY <1>1, NewestHolds, PTL

\* What was deleted, by a call that had the key to itself, does not come back.
THEOREM GoneForGood == StorageSpec => []DeletedStaysDeleted
<1>1. NewestInv => DeletedStaysDeleted BY DEF NewestInv, Deleted, DeletedStaysDeleted
<1>2. QED BY <1>1, NewestHolds, PTL

-----------------------------------------------------------------------------
(* Only whole bodies reach the cloud *)

Writing(c) == calls[c].at \in {"write", "mark"}

\* While no local file was disturbed, a marked one is whole and has no writer, and one
\* that has a writer has one only, and no job beside it.
Undisturbed ==
    ~rewrote =>
        /\ remote # Torn
        /\ \A s \in Syncs : syncs[s].body # Torn
        /\ meta \/ Syncing => file # Torn /\ \A c \in Calls : ~Writing(c)
        /\ \A c, d \in Calls : c # d => ~(Writing(c) /\ Writing(d))
        /\ \A c \in Calls : /\ calls[c].at = "mark" => file # Torn
                            /\ calls[c].at = "write" => calls[c].linked /\ file = Torn

WholeInv == StorageTypeOK /\ Undisturbed

LEMMA InitWhole == StorageInit => WholeInv
BY StorageInitType, StorageAssumption
   DEF StorageInit, WholeInv, Undisturbed, Writing, Syncing, IdleCall, IdleSync

LEMMA CallWhole ==
    ASSUME WholeInv, StorageTypeOK', NEW c \in Calls, Call(c)
    PROVE  WholeInv'
<1> USE DEF WholeInv, local, history
<1>0. WorkTypes /\ calls[c] \in CallRecords BY TypeParts DEF WorkTypes
<1>a. Torn \notin Bodies /\ Torn # None BY StorageAssumption
<1>b. syncs' = syncs /\ Syncing' = Syncing
  BY DEF Call, BeginUpload, BeginDelete, Begin, Put, OpenFile, WriteFile, WriteMeta, Delete, Abort,
     Syncing
<1>c. ASSUME NEW d \in Calls, d # c
      PROVE  calls'[d].at = calls[d].at /\ calls'[d].linked = calls[d].linked
  BY <1>0, <1>c DEF Call, BeginUpload, BeginDelete, Begin, Put, OpenFile, WriteFile, WriteMeta,
     Delete, Abort, Goto, Answer, WorkTypes, CallRecords
<1>d. calls[c].body # Torn BY <1>0, <1>a DEF CallRecords
<1>1. CASE BeginUpload(c) \/ BeginDelete(c)
  <2>1. calls'[c].at \in {"put", "delete"} BY <1>1 DEF BeginUpload, BeginDelete, Begin
  <2>2. UNCHANGED <<remote, file, meta, rewrote>> BY <1>1 DEF BeginUpload, BeginDelete, Begin
  <2>3. QED BY <2>1, <2>2, <1>b, <1>c DEF Undisturbed, Writing
<1>2. CASE Put(c)
  <2>1. calls'[c].at \in {"idle", "open"}
    BY <1>2, <1>0 DEF Put, Answer, Goto, IdleCall, WorkTypes, CallRecords
  <2>2. UNCHANGED <<file, meta, rewrote>> /\ remote' \in {remote, calls[c].body}
    BY <1>2 DEF Put
  <2>3. QED BY <2>1, <2>2, <1>b, <1>c, <1>d DEF Undisturbed, Writing
<1>3. CASE OpenFile(c)
  <2>1. calls'[c].at = "write" /\ calls'[c].linked
    BY <1>3, <1>0 DEF OpenFile, WorkTypes, CallRecords
  <2>2. file' = Torn /\ UNCHANGED <<remote, meta>> BY <1>3 DEF OpenFile
  <2>3. ~rewrote' => ~rewrote /\ ~meta /\ ~Syncing /\ \A d \in Calls \ {c} : ~Writing(d)
    BY <1>3 DEF OpenFile, Writing
  <2>4. QED BY <2>1, <2>2, <2>3, <1>b, <1>c DEF Undisturbed, Writing
<1>4. CASE WriteFile(c)
  <2>1. calls'[c].at = "mark" BY <1>4, <1>0 DEF WriteFile, Goto, WorkTypes, CallRecords
  <2>2. calls[c].at = "write" /\ UNCHANGED <<remote, meta, rewrote>>
    BY <1>4 DEF WriteFile, CallAt
  <2>3. ~rewrote => file' # Torn
    BY <1>4, <2>2, <1>d DEF WriteFile, Undisturbed
  <2>4. QED BY <2>1, <2>2, <2>3, <1>b, <1>c DEF Undisturbed, Writing
<1>5. CASE WriteMeta(c)
  <2>1. calls'[c].at = "idle" BY <1>5, <1>0 DEF WriteMeta, Answer, IdleCall, WorkTypes
  <2>2. calls[c].at = "mark" /\ UNCHANGED <<remote, file, rewrote>>
    BY <1>5 DEF WriteMeta, CallAt
  <2>3. ASSUME ~rewrote, NEW d \in Calls PROVE calls'[d].at \notin {"write", "mark"}
    <3>1. CASE d = c BY <2>1, <3>1
    <3>2. CASE d # c BY <2>2, <2>3, <3>2, <1>c DEF Undisturbed, Writing
    <3>3. QED BY <3>1, <3>2
  <2>4. ~rewrote => file # Torn /\ remote # Torn BY <2>2 DEF Undisturbed
  <2>5. QED BY <2>2, <2>3, <2>4, <1>b DEF Undisturbed, Writing
<1>6. CASE Delete(c) \/ Abort(c)
  <2>1. calls'[c].at = "idle" BY <1>6, <1>0 DEF Delete, Abort, Answer, IdleCall, WorkTypes
  <2>2. UNCHANGED <<file, meta, rewrote>> /\ remote' \in {remote, None}
    BY <1>6 DEF Delete, Abort
  <2>3. QED BY <2>1, <2>2, <1>a, <1>b, <1>c DEF Undisturbed, Writing
<1>7. QED BY <1>1, <1>2, <1>3, <1>4, <1>5, <1>6 DEF Call

LEMMA SyncWhole ==
    ASSUME WholeInv, StorageTypeOK', NEW s \in Syncs, Sync(s) \/ SyncFails(s) \/ SyncCrash(s)
    PROVE  WholeInv'
<1> USE DEF WholeInv, local, history
<1>0. WorkTypes /\ syncs[s] \in SyncRecords BY TypeParts DEF WorkTypes
<1>a. Torn # None BY StorageAssumption
<1>1. ASSUME NEW t \in Syncs, t # s PROVE syncs'[t] = syncs[t]
  BY <1>1, <1>0 DEF Sync, ListPending, Download, SyncPut, Verify, UnlinkFile, UnlinkMeta,
     SyncFails, SyncCrash, SyncGoto, WorkTypes
<1>2. /\ meta \/ Syncing
      /\ meta' => meta
      /\ rewrote' = rewrote /\ file' \in {file, None}
  BY DEF Sync, ListPending, Download, SyncPut, Verify, UnlinkFile, UnlinkMeta, SyncFails, SyncCrash,
     Syncing, SyncAt
<1>3. \A c \in Calls : calls'[c].at = calls[c].at
  BY <1>0 DEF Sync, ListPending, Download, SyncPut, Verify, UnlinkFile, UnlinkMeta, SyncFails, SyncCrash,
     WorkTypes, CallRecords
<1>4. remote' \in {remote, None} \union {syncs[s].body}
  BY DEF Sync, ListPending, Download, SyncPut, Verify, UnlinkFile, UnlinkMeta, SyncFails, SyncCrash
<1>5. syncs'[s].body \in {syncs[s].body, file, None}
  BY <1>0 DEF Sync, ListPending, Download, SyncPut, Verify, UnlinkFile, UnlinkMeta, SyncFails, SyncCrash,
     SyncGoto, IdleSync, WorkTypes, SyncRecords
<1>6. QED BY <1>a, <1>1, <1>2, <1>3, <1>4, <1>5 DEF Undisturbed, Writing

LEMMA NextWhole == WholeInv /\ [StorageNext]_storageVars => WholeInv'
<1> SUFFICES ASSUME WholeInv, [StorageNext]_storageVars PROVE WholeInv'
  OBVIOUS
<1>1. StorageTypeOK' BY StorageNextType DEF WholeInv
<1>2. CASE UNCHANGED storageVars
  BY <1>1, <1>2 DEF WholeInv, storageVars, local, history, Undisturbed, Writing, Syncing
<1>3. CASE StorageNext
  BY <1>1, <1>3, CallWhole, SyncWhole DEF StorageNext
<1>4. QED BY <1>2, <1>3

\* A part of a body reaches the cloud only through a local file that was disturbed.
THEOREM OnlyWholeBodies == StorageSpec => []WholeObjects
<1>1. WholeInv => WholeObjects BY DEF WholeInv, Undisturbed, WholeObjects
<1>2. QED BY <1>1, InitWhole, NextWhole, PTL DEF StorageSpec
=============================================================================
